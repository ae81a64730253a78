---------------------------- MODULE AccountsProofs ----------------------------
(***************************************************************************)
(* auth-service, for one address and every number of requests, accounts,   *)
(* links, sessions and faults.                                             *)
(***************************************************************************)
EXTENDS Accounts, TLAPS

(* Steps that work on an account that was found.                           *)
OnAccount == {"reuse", "renew", "mail", "rollback", "verify", "activate", "session",
              "password", "revokeAll"}

(* What a request holds, where there are u accounts, l links and n tokens. *)
Fits(r, u, l, n) ==
    /\ r \in Request
    /\ r.uid <= u /\ r.link <= l /\ r.token <= n
    /\ r.pc \in OnAccount => r.uid # 0
    /\ r.pc \in {"revoke", "reissue"} => r.token # 0
    /\ r.pc = "mail" => r.link # 0
    /\ r.pc = "create" => r.uid = 0
    /\ r.first => r.pc \in {"mail", "rollback"}
    /\ r.pc = "rollback" => r.first

(* An address without an account has nothing else.                         *)
UserFits == /\ user.uid <= users /\ user.link <= links
            /\ user.uid = 0 <=> user.status = "none"
            /\ user.uid = 0 => user = NoUser

SharedTyped == /\ user \in User
               /\ users \in 0 .. MaxUsers
               /\ orgs \in [Users -> Nat] /\ wallets \in [Users -> Nat]
               /\ links \in 0 .. MaxLinks /\ mailed \subseteq 1 .. links
               /\ tokens \in Seq(Token)
               /\ answered \subseteq 1 .. users /\ doubtful \subseteq Users
               /\ logins \in Nat /\ ended \in [Users -> Nat]
               /\ raced \in BOOLEAN /\ shared \in BOOLEAN /\ straddled \in BOOLEAN
               /\ faults \in Nat
               /\ UserFits

TInv == /\ SharedTyped
        /\ request \in [Requests -> Request]
        /\ \A q \in Requests : Fits(request[q], users, links, Len(tokens))

-----------------------------------------------------------------------------
(* Values.                                                                 *)

(* The bounds are numbers.                                                 *)
LEMMA BoundsAre == /\ MaxUsers \in Nat /\ MaxLinks \in Nat
                   /\ MaxSessions \in Nat /\ MaxFaults \in Nat
BY BoundAssumption

(* Accounts are numbered from one.                                         *)
LEMMA AreUsers == \A u \in Users : u \in Nat /\ u # 0
BY BoundsAre DEF Users

(* A request that holds nothing fits.                                      *)
LEMMA IdleFits ==
    /\ Idle.pc = "idle" /\ ~ Idle.first /\ Idle.uid = 0
    /\ \A u, l, n \in Nat : Fits(Idle, u, l, n)
BY BoundsAre DEF Idle, Request, Fits, OnAccount

(* A request that found what it needs.                                     *)
Started(step, uid, seen) == [Idle EXCEPT !.pc = step, !.uid = uid, !.seen = seen]

Steps == {"create", "reuse", "renew", "verify", "adopt", "activate", "session",
          "password", "revokeAll"}

(* It is a request, with the fields named.                                 *)
LEMMA StartedValues ==
    ASSUME NEW step \in Steps, NEW uid \in 0 .. MaxUsers, NEW seen \in BOOLEAN
    PROVE  /\ Started(step, uid, seen) \in Request
           /\ Started(step, uid, seen).pc = step
           /\ Started(step, uid, seen).uid = uid
           /\ Started(step, uid, seen).link = 0
           /\ Started(step, uid, seen).token = 0
           /\ Started(step, uid, seen).first = FALSE
<1>1. 0 \in 0 .. MaxLinks
  BY BoundsAre
<1>2. QED
  BY <1>1 DEF Request, Steps, Started, Idle

(* The same, where nothing of the row matters later.                       *)
Beginning(step, uid) == [Idle EXCEPT !.pc = step, !.uid = uid]

(* It is a request, with the fields named.                                 *)
LEMMA BeginningValues ==
    ASSUME NEW step \in Steps, NEW uid \in 0 .. MaxUsers
    PROVE  /\ Beginning(step, uid) \in Request
           /\ Beginning(step, uid).pc = step
           /\ Beginning(step, uid).uid = uid
           /\ Beginning(step, uid).link = 0
           /\ Beginning(step, uid).token = 0
           /\ Beginning(step, uid).first = FALSE
<1>1. 0 \in 0 .. MaxLinks
  BY BoundsAre
<1>2. QED
  BY <1>1 DEF Request, Steps, Beginning, Idle

(* A request that has an e-mail sent.                                      *)
Mailing(uid, link, first) ==
    [Idle EXCEPT !.pc = "mail", !.uid = uid, !.link = link, !.first = first]

(* It is a request, with the fields named.                                 *)
LEMMA MailingValues ==
    ASSUME NEW uid \in Users, NEW link \in Links, NEW first \in BOOLEAN,
           NEW u \in Nat, NEW l \in Nat, NEW n \in Nat, uid <= u, link <= l
    PROVE  /\ Fits(Mailing(uid, link, first), u, l, n)
           /\ Mailing(uid, link, first).pc = "mail"
           /\ Mailing(uid, link, first).uid = uid
           /\ Mailing(uid, link, first).link = link
           /\ Mailing(uid, link, first).first = first
<1>1. /\ uid \in 0 .. MaxUsers /\ link \in 0 .. MaxLinks /\ uid # 0 /\ link # 0
      /\ uid \in Nat /\ link \in Nat
  BY BoundsAre DEF Users, Links
<1>2. /\ Mailing(uid, link, first) \in Request
      /\ Mailing(uid, link, first).pc = "mail"
      /\ Mailing(uid, link, first).uid = uid
      /\ Mailing(uid, link, first).link = link
      /\ Mailing(uid, link, first).token = 0
      /\ Mailing(uid, link, first).first = first
  BY <1>1 DEF Request, Mailing, Idle
<1>3. QED
  BY <1>1, <1>2 DEF Fits, OnAccount

(* A request that uses a token.                                            *)
Using(k) == [Idle EXCEPT !.pc = "revoke", !.token = k]

(* It is a request, with the fields named.                                 *)
LEMMA UsingValues ==
    ASSUME NEW k \in Nat
    PROVE  /\ Using(k) \in Request
           /\ Using(k).pc = "revoke" /\ Using(k).uid = 0 /\ Using(k).link = 0
           /\ Using(k).token = k /\ Using(k).first = FALSE
<1>1. 0 \in 0 .. MaxUsers /\ 0 \in 0 .. MaxLinks
  BY BoundsAre
<1>2. QED
  BY <1>1 DEF Request, Using, Idle

(* A request that goes on.                                                 *)
GoingOn(r, step) == [r EXCEPT !.pc = step]

(* It is a request, with the fields named.                                 *)
LEMMA GoingOnValues ==
    ASSUME NEW u \in Nat, NEW l \in Nat, NEW n \in Nat, NEW r, Fits(r, u, l, n),
           NEW step \in {"rollback", "activate", "session", "reissue", "revokeAll"},
           step = "reissue" => r.token # 0,
           step \in OnAccount => r.uid # 0,
           r.first <=> step = "rollback"
    PROVE  /\ Fits(GoingOn(r, step), u, l, n)
           /\ GoingOn(r, step).pc = step
           /\ GoingOn(r, step).uid = r.uid
           /\ GoingOn(r, step).link = r.link
           /\ GoingOn(r, step).token = r.token
           /\ GoingOn(r, step).first = r.first
<1>1. GoingOn(r, step) = [pc |-> step, uid |-> r.uid, link |-> r.link, token |-> r.token,
                          first |-> r.first, seen |-> r.seen]
  BY DEF GoingOn, Fits, Request
<1>2. [pc |-> step, uid |-> r.uid, link |-> r.link, token |-> r.token,
       first |-> r.first, seen |-> r.seen] \in Request
  BY DEF Fits, Request
<1>3. QED
  BY <1>1, <1>2 DEF Fits, OnAccount

(* What fits still fits when there is more.                                *)
LEMMA FitsMore ==
    ASSUME NEW r, NEW u \in Nat, NEW l \in Nat, NEW n \in Nat, Fits(r, u, l, n),
           NEW v \in Nat, NEW m \in Nat, NEW o \in Nat, u <= v, l <= m, n <= o
    PROVE  Fits(r, v, m, o)
BY BoundsAre DEF Fits, Request

(* One request is at another step.                                         *)
LEMMA OneTyped ==
    ASSUME TInv, SharedTyped', users <= users', links <= links',
           Len(tokens) <= Len(tokens'),
           NEW q \in Requests, NEW r, Fits(r, users', links', Len(tokens')),
           request' = [request EXCEPT ![q] = r]
    PROVE  TInv'
<1>1. /\ users \in Nat /\ links \in Nat /\ Len(tokens) \in Nat
      /\ users' \in Nat /\ links' \in Nat /\ Len(tokens') \in Nat
      /\ request \in [Requests -> Request] /\ r \in Request
  BY BoundsAre DEF TInv, SharedTyped, Fits
<1>2. \A d \in Requests : request'[d] = IF d = q THEN r ELSE request[d]
  BY <1>1
<1>3. \A d \in Requests : Fits(request'[d], users', links', Len(tokens'))
  BY <1>1, <1>2, FitsMore DEF TInv
<1>4. request' \in [Requests -> Request]
  BY <1>1
<1>5. QED
  BY <1>3, <1>4 DEF TInv

(* What a step makes of one request.                                       *)
Into(q, r) == r \in Request /\ request' = [request EXCEPT ![q] = r]

(* A request has begun, and found an account.                              *)
Begun(q, step, uid) ==
    \E r : Into(q, r) /\ r.pc = step /\ r.uid = uid /\ ~ r.first

(* A request has an e-mail to send.                                        *)
Mailed(q, uid, link, first) ==
    \E r : /\ Into(q, r) /\ r.pc = "mail" /\ r.uid = uid
           /\ r.link = link /\ r.first = first

(* A request has gone on.                                                  *)
Gone(q, step) ==
    \E r : /\ Into(q, r) /\ r.pc = step /\ r.uid = request[q].uid
           /\ r.link = request[q].link /\ r.token = request[q].token
           /\ r.first = request[q].first

(* The same, request by request.                                           *)
LEMMA IntoOne ==
    ASSUME TInv, NEW q \in Requests, NEW r, Into(q, r)
    PROVE  \A d \in Requests : request'[d] = IF d = q THEN r ELSE request[d]
BY DEF TInv, Into

(* What is said of numbers and of the account in hand.                     *)
LEMMA Facts ==
    ASSUME TInv
    PROVE  /\ users \in Nat /\ links \in Nat /\ Len(tokens) \in Nat /\ logins \in Nat
           /\ users <= MaxUsers /\ links <= MaxLinks
           /\ user \in User /\ UserFits
           /\ user.uid \in 0 .. MaxUsers /\ user.uid \in Nat /\ user.uid <= users
           /\ user.link \in Nat /\ user.reset \in BOOLEAN /\ user.oauth \in BOOLEAN
           /\ \A q \in Requests :
                 /\ request[q] \in Request /\ Fits(request[q], users, links, Len(tokens))
                 /\ request[q].uid \in 0 .. MaxUsers /\ request[q].uid \in Nat
                 /\ request[q].uid # 0 => request[q].uid \in 1 .. users
                                          /\ request[q].uid \in Users
                 /\ request[q].link \in Nat /\ request[q].token \in Nat
                 /\ request[q].seen \in BOOLEAN
BY BoundsAre DEF TInv, SharedTyped, Request, User, Fits, Users, UserFits

(* What is shared has its type, and there is not less of it.               *)
Grows == /\ SharedTyped'
         /\ users <= users' /\ links <= links' /\ Len(tokens) <= Len(tokens')

(* After a step that grows, numbers are numbers.                           *)
LEMMA GrownFacts ==
    ASSUME Grows
    PROVE  users' \in Nat /\ links' \in Nat /\ Len(tokens') \in Nat
BY BoundsAre DEF Grows, SharedTyped

(* A request begins, and keeps something of the row it read.               *)
LEMMA Starts ==
    ASSUME TInv, Grows, NEW q \in Requests, NEW step \in Steps, NEW uid \in 0 .. MaxUsers,
           NEW seen \in BOOLEAN, uid <= users',
           step \in OnAccount => uid # 0, step = "create" => uid = 0,
           request' = [request EXCEPT ![q] = Started(step, uid, seen)]
    PROVE  TInv' /\ Begun(q, step, uid)
<1>1. PICK r : r = Started(step, uid, seen)
  OBVIOUS
<1>2. /\ r \in Request /\ r.pc = step /\ r.uid = uid /\ r.link = 0 /\ r.token = 0
      /\ r.first = FALSE
  <2>1. /\ Started(step, uid, seen) \in Request
        /\ Started(step, uid, seen).pc = step
        /\ Started(step, uid, seen).uid = uid
        /\ Started(step, uid, seen).link = 0
        /\ Started(step, uid, seen).token = 0
        /\ Started(step, uid, seen).first = FALSE
    BY StartedValues
  <2>2. QED
    BY <1>1, <2>1, Zenon
<1>3. request' = [request EXCEPT ![q] = r]
  BY <1>1
<1>4. Fits(r, users', links', Len(tokens'))
  BY <1>2, GrownFacts DEF Fits, Steps, OnAccount
<1>5. TInv'
  BY <1>3, <1>4, OneTyped DEF Grows
<1>6. QED
  BY <1>2, <1>3, <1>5 DEF Begun, Into

(* A request begins, and keeps nothing of it.                              *)
LEMMA Begins ==
    ASSUME TInv, Grows, NEW q \in Requests, NEW step \in Steps, NEW uid \in 0 .. MaxUsers,
           uid <= users', step \in OnAccount => uid # 0, step = "create" => uid = 0,
           Begin(q, step, uid)
    PROVE  TInv' /\ Begun(q, step, uid)
<1>1. request' = [request EXCEPT ![q] = Beginning(step, uid)]
  BY DEF Begin, Beginning
<1>2. PICK r : r = Beginning(step, uid)
  OBVIOUS
<1>3. /\ r \in Request /\ r.pc = step /\ r.uid = uid /\ r.link = 0 /\ r.token = 0
      /\ r.first = FALSE
  BY <1>2, BeginningValues
<1>4. request' = [request EXCEPT ![q] = r]
  BY <1>1, <1>2
<1>5. Fits(r, users', links', Len(tokens'))
  BY <1>3, GrownFacts DEF Fits, Steps, OnAccount
<1>6. TInv'
  BY <1>4, <1>5, OneTyped DEF Grows
<1>7. QED
  BY <1>3, <1>4, <1>6 DEF Begun, Into

(* A request has an e-mail to send.                                        *)
LEMMA Mails ==
    ASSUME TInv, Grows, NEW q \in Requests, NEW uid \in Users, NEW first \in BOOLEAN,
           uid <= users', links' = links + 1, Mail(q, uid, first)
    PROVE  TInv' /\ Mailed(q, uid, links + 1, first)
<1>1. PICK r : r = Mailing(uid, links + 1, first)
  OBVIOUS
<1>2. request' = [request EXCEPT ![q] = r]
  BY <1>1 DEF Mailing, Mail
<1>3. links + 1 \in Links /\ links + 1 <= links'
  BY BoundsAre, Facts, SMTT(30) DEF Grows, SharedTyped, Links
<1>4. /\ Fits(r, users', links', Len(tokens'))
      /\ r.pc = "mail" /\ r.uid = uid /\ r.link = links + 1 /\ r.first = first
  BY <1>1, <1>3, GrownFacts, MailingValues
<1>5. TInv'
  BY <1>2, <1>4, OneTyped DEF Grows
<1>6. Into(q, r)
  BY <1>2, <1>4 DEF Into, Fits
<1>7. QED
  BY <1>4, <1>5, <1>6 DEF Mailed

(* A request goes on.                                                      *)
LEMMA Goes ==
    ASSUME TInv, Grows, NEW q \in Requests,
           NEW step \in {"rollback", "activate", "session", "reissue", "revokeAll"},
           step = "reissue" => request[q].token # 0,
           step \in OnAccount => request[q].uid # 0,
           request[q].first <=> step = "rollback",
           Goto(q, step)
    PROVE  TInv' /\ Gone(q, step)
<1>1. PICK r : r = GoingOn(request[q], step)
  OBVIOUS
<1>2. request' = [request EXCEPT ![q] = r]
  BY <1>1 DEF GoingOn, Goto
<1>3. Fits(request[q], users', links', Len(tokens'))
  BY Facts, GrownFacts, FitsMore DEF Grows
<1>4. /\ Fits(r, users', links', Len(tokens'))
      /\ r.pc = step /\ r.uid = request[q].uid /\ r.link = request[q].link
      /\ r.token = request[q].token /\ r.first = request[q].first
  BY <1>1, <1>3, GrownFacts, GoingOnValues
<1>5. TInv'
  BY <1>2, <1>4, OneTyped DEF Grows
<1>6. Into(q, r)
  BY <1>2, <1>4 DEF Into, Fits
<1>7. QED
  BY <1>4, <1>5, <1>6 DEF Gone

(* A request is over.                                                      *)
LEMMA Leaves ==
    ASSUME TInv, Grows, NEW q \in Requests, Leave(q)
    PROVE  TInv' /\ Into(q, Idle)
<1>1. Fits(Idle, users', links', Len(tokens'))
  BY IdleFits, GrownFacts
<1>2. request' = [request EXCEPT ![q] = Idle]
  BY DEF Leave
<1>3. QED
  BY <1>1, <1>2, OneTyped DEF Grows, Into, Fits

(* An e-mail may be in doubt, and so may be the account in hand.           *)
LEMMA DoubtTyped ==
    ASSUME TInv,
           doubtful' = IF Making(user.uid) THEN doubtful \union {user.uid} ELSE doubtful
    PROVE  doubtful' \subseteq Users
<1>1. Making(user.uid) => user.uid # 0
  <2> SUFFICES ASSUME NEW q \in Requests, request[q].first, request[q].uid = user.uid
               PROVE  user.uid # 0
    BY DEF Making
  <2>1. QED
    BY Facts DEF Fits, OnAccount
<1>2. user.uid # 0 => user.uid \in Users
  BY Facts DEF Users
<1>3. QED
  BY <1>1, <1>2 DEF TInv, SharedTyped

(* Nothing is shared that changes but flags and faults.                    *)
LEMMA SharedStays ==
    ASSUME TInv, UNCHANGED <<account, post, sessions>>,
           doubtful' \subseteq Users, raced' \in BOOLEAN, faults' \in Nat
    PROVE  Grows /\ users' = users
BY Facts DEF TInv, SharedTyped, UserFits, account, post, sessions, Grows

(* A registration reads the row of its address.                            *)
LEMMA ReadToRegisterDoes ==
    ASSUME TInv, NEW q \in Requests, ReadToRegister(q)
    PROVE  /\ TInv'
           /\ Begun(q, IF user.uid = 0 THEN "create" ELSE "reuse", user.uid)
<1>1. PICK step \in {"create", "reuse"} : step = IF user.uid = 0 THEN "create" ELSE "reuse"
  OBVIOUS
<1>2. user.uid = 0 <=> user.status = "none"
  BY Facts DEF UserFits
<1>3. UNCHANGED <<account, post, sessions, faults>>
  BY DEF ReadToRegister
<1>4. doubtful' \subseteq Users /\ raced' \in BOOLEAN
  BY DoubtTyped DEF ReadToRegister, TInv, SharedTyped
<1>5. Grows /\ users' = users
  BY <1>3, <1>4, SharedStays DEF TInv, SharedTyped
<1>6. request' = [request EXCEPT ![q] = Started(step, user.uid, user.reset)]
  BY <1>1, <1>2 DEF ReadToRegister, BeginSeeing, Started
<1>7. /\ step \in Steps /\ user.uid \in 0 .. MaxUsers /\ user.reset \in BOOLEAN
      /\ user.uid <= users'
      /\ step \in OnAccount => user.uid # 0
      /\ step = "create" => user.uid = 0
  BY <1>1, <1>5, Facts DEF Steps, OnAccount
<1>8. TInv' /\ Begun(q, step, user.uid)
  BY <1>5, <1>6, <1>7, Starts
<1>9. QED
  BY <1>1, <1>8

(* A step that touches one account leaves what others have.                *)
Kept(uid) == user'.uid = user.uid /\ (user.uid # uid => user' = user)

(* The row of an account is written.                                       *)
LEMMA RowWritten ==
    ASSUME TInv, NEW uid \in Users, NEW new \in User, Update(uid, new),
           new.uid = user.uid, user.uid # 0 => new.status # "none",
           users' = users, links <= links', links' \in Nat, new.link <= links'
    PROVE  user' \in User /\ UserFits' /\ Kept(uid)
<1>0. uid # 0 /\ uid \in Nat
  BY BoundsAre DEF Users
<1>1. CASE user.uid = uid
  BY <1>0, <1>1, Facts DEF Update, UserFits, Kept
<1>2. CASE user.uid # uid
  BY <1>0, <1>2, Facts DEF Update, UserFits, Kept
<1>3. QED
  BY <1>1, <1>2

(* Only the row of an account, its verification link and e-mails change.   *)
LEMMA SharedWritten ==
    ASSUME TInv, user' \in User, UserFits', users' = users,
           links' \in links .. MaxLinks,
           orgs' \in [Users -> Nat], wallets' \in [Users -> Nat],
           answered' \subseteq 1 .. users, UNCHANGED <<mailed, sessions, flags, faults>>
    PROVE  Grows
<1>1. mailed' \subseteq 1 .. links' /\ links' \in 0 .. MaxLinks /\ links <= links'
  BY Facts DEF TInv, SharedTyped
<1>2. QED
  BY <1>1, Facts DEF TInv, SharedTyped, sessions, flags, Grows

(* The account is made, unless the address was taken.                      *)
LEMMA CreateDoes ==
    ASSUME TInv, NEW q \in Requests, Create(q)
    PROVE  /\ TInv'
           /\ \/ user.uid # 0 /\ Into(q, Idle) /\ UNCHANGED account
              \/ /\ user.uid = 0 /\ users' = users + 1 /\ links' = links + 1
                 /\ user'.uid = users + 1 /\ user'.status = "pending"
                 /\ user'.link = links + 1 /\ ~ user'.oauth
                 /\ users + 1 \in Users
                 /\ orgs' = [orgs EXCEPT ![users + 1] = 1]
                 /\ wallets' = [wallets EXCEPT ![users + 1] = 1]
                 /\ Mailed(q, users + 1, links + 1, TRUE)
<1>1. UNCHANGED <<post, sessions, flags, faults>>
  BY DEF Create
<1>2. CASE user.uid # 0 /\ Leave(q) /\ UNCHANGED account
  <2>1. Grows
    BY <1>1, <1>2, SharedStays DEF TInv, SharedTyped, flags
  <2>2. QED
    BY <1>2, <2>1, Leaves
<1>3. CASE /\ user.uid = 0 /\ users < MaxUsers
           /\ NewLink /\ users' = users + 1
           /\ user' = [NoUser EXCEPT !.uid = users + 1, !.status = "pending", !.link = links + 1]
           /\ orgs' = [orgs EXCEPT ![users + 1] = 1]
           /\ wallets' = [wallets EXCEPT ![users + 1] = 1]
           /\ Mail(q, users + 1, TRUE)
  <2>1. /\ users + 1 \in Users /\ users + 1 \in 0 .. MaxUsers /\ users + 1 # 0
        /\ links + 1 \in 0 .. MaxLinks /\ links' = links + 1
    BY <1>3, BoundsAre, Facts DEF Users, NewLink
  <2>2. /\ user' \in User /\ user'.uid = users + 1 /\ user'.status = "pending"
        /\ user'.link = links + 1 /\ user'.oauth = FALSE
    BY <1>3, <2>1 DEF NoUser, User
  <2>3. UserFits'
    BY <1>3, <2>1, <2>2, Facts DEF UserFits
  <2>4. orgs' \in [Users -> Nat] /\ wallets' \in [Users -> Nat]
    BY <1>3 DEF TInv, SharedTyped
  <2>5. answered' \subseteq 1 .. users' /\ mailed' \subseteq 1 .. links'
    BY <1>1, <1>3, <2>1, Facts DEF TInv, SharedTyped, post
  <2>6. SharedTyped'
    BY <1>1, <1>3, <2>1, <2>2, <2>3, <2>4, <2>5 DEF TInv, SharedTyped, sessions, flags
  <2>7. Grows
    BY <1>1, <1>3, <2>1, <2>6, Facts DEF Grows, sessions
  <2>8. TInv' /\ Mailed(q, users + 1, links + 1, TRUE)
    <3>1. PICK uid : uid = users + 1
      OBVIOUS
    <3>2. uid \in Users /\ uid <= users'
      BY <1>3, <2>1, <3>1, Facts
    <3>3. Mail(q, uid, TRUE)
      BY <1>3, <3>1
    <3>4. TInv' /\ Mailed(q, uid, links + 1, TRUE)
      BY <2>1, <2>7, <3>2, <3>3, Mails
    <3>5. QED
      BY <3>1, <3>4
  <2>9. QED
    BY <1>3, <2>1, <2>2, <2>8
<1>4. QED
  BY <1>2, <1>3 DEF Create

(* A pending row is given another link.                                    *)
LEMMA ReuseDoes ==
    ASSUME TInv, NEW q \in Requests, Reuse(q)
    PROVE  /\ TInv' /\ request[q].uid \in Users /\ Kept(request[q].uid)
           /\ users' = users /\ links' = links + 1
           /\ Mailed(q, request[q].uid, links + 1, FALSE)
<1>1. PICK uid : uid = request[q].uid
  OBVIOUS
<1>2. UNCHANGED <<users, post, sessions, flags, faults>>
  BY DEF Reuse
<1>3. uid \in Users /\ uid <= users
  BY <1>1, Facts DEF Reuse, At, Fits, OnAccount
<1>4. PICK new : new = [user EXCEPT !.link = links + 1, !.reset = user.reset /\ ~ request[q].seen]
  OBVIOUS
<1>5. /\ links' = links + 1 /\ links + 1 \in 0 .. MaxLinks
      /\ links' \in links .. MaxLinks
  BY Facts, BoundsAre DEF Reuse, NewLink
<1>6. Update(uid, new) /\ Mail(q, uid, FALSE)
  BY <1>1, <1>4 DEF Reuse
<1>7. new \in User /\ new.uid = user.uid /\ new.status = user.status /\ new.link = links + 1
  BY <1>4, <1>5, Facts DEF User
<1>8. user' \in User /\ UserFits' /\ Kept(uid)
  BY <1>2, <1>3, <1>5, <1>6, <1>7, Facts, RowWritten DEF UserFits
<1>9. orgs' \in [Users -> Nat] /\ wallets' \in [Users -> Nat]
  BY <1>1, <1>3 DEF Reuse, TInv, SharedTyped
<1>10. Grows
  BY <1>2, <1>5, <1>8, <1>9, SharedWritten DEF TInv, SharedTyped, post
<1>11. TInv' /\ Mailed(q, uid, links + 1, FALSE)
  BY <1>2, <1>3, <1>5, <1>6, <1>10, Mails
<1>12. QED
  BY <1>1, <1>2, <1>3, <1>5, <1>8, <1>11

(* A verification link is asked for again.                                 *)
LEMMA ReadToResendDoes ==
    ASSUME TInv, NEW q \in Requests, ReadToResend(q)
    PROVE  TInv' /\ user.uid # 0 /\ Begun(q, "renew", user.uid)
<1>1. UNCHANGED <<account, post, sessions, raced, faults>> /\ user.uid # 0
  BY Facts DEF ReadToResend, UserFits
<1>2. Grows /\ users' = users
  BY <1>1, DoubtTyped, SharedStays DEF ReadToResend, TInv, SharedTyped
<1>3. /\ "renew" \in Steps /\ "renew" # "create" /\ user.uid \in 0 .. MaxUsers
      /\ user.uid <= users' /\ Begin(q, "renew", user.uid)
  BY <1>2, Facts DEF Steps, ReadToResend
<1>4. QED
  BY <1>1, <1>2, <1>3, Begins

(* It is made.                                                             *)
LEMMA RenewDoes ==
    ASSUME TInv, NEW q \in Requests, Renew(q)
    PROVE  /\ TInv' /\ request[q].uid \in Users /\ Kept(request[q].uid)
           /\ users' = users /\ links' = links + 1
           /\ Mailed(q, request[q].uid, links + 1, FALSE)
<1>1. PICK uid : uid = request[q].uid
  OBVIOUS
<1>2. UNCHANGED <<users, orgs, wallets, post, sessions, flags, faults>>
  BY DEF Renew
<1>3. uid \in Users /\ uid <= users
  BY <1>1, Facts DEF Renew, At, Fits, OnAccount
<1>4. PICK new : new = [user EXCEPT !.link = links + 1]
  OBVIOUS
<1>5. /\ links' = links + 1 /\ links + 1 \in 0 .. MaxLinks
      /\ links' \in links .. MaxLinks
  BY Facts, BoundsAre DEF Renew, NewLink
<1>6. Update(uid, new) /\ Mail(q, uid, FALSE)
  BY <1>1, <1>4 DEF Renew
<1>7. new \in User /\ new.uid = user.uid /\ new.status = user.status /\ new.link = links + 1
  BY <1>4, <1>5, Facts DEF User
<1>8. user' \in User /\ UserFits' /\ Kept(uid)
  BY <1>2, <1>3, <1>5, <1>6, <1>7, Facts, RowWritten DEF UserFits
<1>9. Grows
  BY <1>2, <1>5, <1>8, SharedWritten DEF TInv, SharedTyped, post
<1>10. TInv' /\ Mailed(q, uid, links + 1, FALSE)
  BY <1>2, <1>3, <1>5, <1>6, <1>9, Mails
<1>11. QED
  BY <1>1, <1>2, <1>3, <1>5, <1>8, <1>10

(* An e-mail is sent, or not, or in doubt.                                 *)
LEMMA SendMailDoes ==
    ASSUME TInv, NEW q \in Requests, SendMail(q)
    PROVE  /\ TInv' /\ request[q].uid \in 1 .. users
           /\ \/ Into(q, Idle)
              \/ request[q].first /\ Gone(q, "rollback")
<1>1. UNCHANGED <<account, sessions, raced>>
  BY DEF SendMail
<1>2. /\ request[q].pc = "mail" /\ request[q].uid \in 1 .. users
      /\ request[q].uid \in Users /\ request[q].link \in 1 .. links
  BY Facts DEF SendMail, At, Fits, OnAccount
<1>3. mailed' \subseteq 1 .. links
  BY <1>2 DEF SendMail, Sent, TInv, SharedTyped, post
<1>4. answered' \subseteq 1 .. users
  BY <1>2 DEF SendMail, TInv, SharedTyped, post
<1>5. doubtful' \subseteq Users
  BY <1>2 DEF SendMail, TInv, SharedTyped
<1>6. faults' \in Nat
  BY DEF SendMail, Fault, NoFault, TInv, SharedTyped
<1>7. Grows
  BY <1>1, <1>3, <1>4, <1>5, <1>6, Facts
     DEF TInv, SharedTyped, UserFits, account, sessions, Grows
<1>8. CASE Leave(q)
  BY <1>2, <1>7, <1>8, Leaves
<1>9. CASE request[q].first /\ Goto(q, "rollback")
  <2>1. request[q].first <=> "rollback" = "rollback"
    BY <1>9
  <2>2. request[q].uid # 0
    BY <1>2, Facts
  <2>3. TInv' /\ Gone(q, "rollback")
    BY <1>7, <1>9, <2>1, <2>2, Goes
  <2>4. QED
    BY <1>2, <1>9, <2>3
<1>10. QED
  BY <1>8, <1>9 DEF SendMail, NotSent

(* Tokens stay, but may be revoked.                                        *)
Lessened == /\ tokens' \in Seq(Token) /\ Len(tokens') = Len(tokens)
            /\ \A k \in 1 .. Len(tokens) :
                  /\ tokens'[k].uid = tokens[k].uid /\ tokens'[k].login = tokens[k].login
                  /\ tokens[k].revoked => tokens'[k].revoked

(* Unchanged tokens are.                                                   *)
LEMMA UnchangedLessened == TInv /\ UNCHANGED tokens => Lessened
BY DEF TInv, SharedTyped, Lessened

(* Some tokens are revoked.                                                *)
LEMMA RevokedLessened ==
    ASSUME TInv, NEW ks,
           tokens' = [k \in DOMAIN tokens |->
                        IF k \in ks THEN [tokens[k] EXCEPT !.revoked = TRUE] ELSE tokens[k]]
    PROVE  Lessened /\ \A k \in 1 .. Len(tokens) : k \in ks => tokens'[k].revoked
<1>1. /\ DOMAIN tokens = 1 .. Len(tokens) /\ Len(tokens) \in Nat
      /\ \A k \in 1 .. Len(tokens) : tokens[k] \in Token
  BY DEF TInv, SharedTyped
<1>2. \A k \in 1 .. Len(tokens) :
         LET t == [tokens[k] EXCEPT !.revoked = TRUE]
         IN  /\ t \in Token /\ t.uid = tokens[k].uid /\ t.login = tokens[k].login
             /\ t.revoked = TRUE
  BY <1>1 DEF Token
<1>3. tokens' \in [1 .. Len(tokens) -> Token]
  BY <1>1, <1>2
<1>4. tokens' \in Seq(Token) /\ Len(tokens') = Len(tokens)
  BY <1>1, <1>3
<1>5. \A k \in 1 .. Len(tokens) :
         tokens'[k] = IF k \in ks THEN [tokens[k] EXCEPT !.revoked = TRUE] ELSE tokens[k]
  BY <1>1
<1>6. QED
  BY <1>2, <1>4, <1>5 DEF Lessened

(* An account is taken back with its organization, wallet and tokens.      *)
LEMMA RollbackDoes ==
    ASSUME TInv, NEW q \in Requests, Rollback(q)
    PROVE  /\ TInv' /\ Into(q, Idle) /\ Lessened
           /\ request[q].uid \in Users /\ request[q].first
           /\ \/ /\ user' = IF user.uid = request[q].uid THEN NoUser ELSE user
                 /\ orgs' = [orgs EXCEPT ![request[q].uid] = 0]
                 /\ wallets' = [wallets EXCEPT ![request[q].uid] = 0]
              \/ UNCHANGED <<user, orgs, wallets>>
<1>1. UNCHANGED <<users, links, post, logins, ended, shared, straddled, flags>>
  BY DEF Rollback
<1>2. /\ request[q].pc = "rollback" /\ request[q].uid \in Users /\ request[q].first
      /\ Leave(q)
  BY Facts DEF Rollback, At, Fits, OnAccount
<1>3. CASE /\ Update(request[q].uid, NoUser)
           /\ orgs' = [orgs EXCEPT ![request[q].uid] = 0]
           /\ wallets' = [wallets EXCEPT ![request[q].uid] = 0]
           /\ tokens' = [k \in DOMAIN tokens |->
                IF tokens[k].uid = request[q].uid THEN [tokens[k] EXCEPT !.revoked = TRUE]
                ELSE tokens[k]]
           /\ NoFault
  <2>1. PICK ks : ks = {k \in DOMAIN tokens : tokens[k].uid = request[q].uid}
    OBVIOUS
  <2>2. tokens' = [k \in DOMAIN tokens |->
             IF k \in ks THEN [tokens[k] EXCEPT !.revoked = TRUE] ELSE tokens[k]]
    BY <1>3, <2>1
  <2>3. Lessened
    BY <2>2, RevokedLessened
  <2>4. user' = IF user.uid = request[q].uid THEN NoUser ELSE user
    BY <1>3 DEF Update
  <2>5. NoUser \in User /\ NoUser.uid = 0 /\ NoUser.link = 0 /\ NoUser.status = "none"
    BY BoundsAre DEF NoUser, User
  <2>6. user' \in User /\ UserFits'
    BY <1>1, <2>4, <2>5, Facts DEF UserFits
  <2>7. orgs' \in [Users -> Nat] /\ wallets' \in [Users -> Nat]
    BY <1>3 DEF TInv, SharedTyped
  <2>8. Grows
    <3>1. tokens' \in Seq(Token) /\ Len(tokens') = Len(tokens)
      BY <2>3 DEF Lessened
    <3>2. UNCHANGED <<users, links, mailed, answered, doubtful, raced, logins, ended,
                      shared, straddled, faults>>
      BY <1>1, <1>3 DEF post, flags, NoFault
    <3>3. SharedTyped'
      BY <2>6, <2>7, <3>1, <3>2 DEF TInv, SharedTyped
    <3>4. QED
      BY <3>1, <3>2, <3>3, Facts DEF Grows
  <2>9. QED
    BY <1>2, <1>3, <2>3, <2>4, <2>8, Leaves
<1>4. CASE UNCHANGED <<user, orgs, wallets, tokens>> /\ Fault
  <2>1. Grows
    BY <1>1, <1>4, Facts DEF TInv, SharedTyped, post, flags, Fault, Grows, UserFits
  <2>2. QED
    BY <1>2, <1>4, <2>1, Leaves, UnchangedLessened
<1>5. QED
  BY <1>2, <1>3, <1>4 DEF Rollback

(* A link that has reached the address is looked up.                       *)
LEMMA ReadLinkDoes ==
    ASSUME TInv, NEW q \in Requests, ReadLink(q)
    PROVE  TInv' /\ user.uid # 0 /\ Begun(q, "verify", user.uid)
<1>1. user.uid # 0
  <2>1. user.link # 0
    BY DEF ReadLink, TInv, SharedTyped
  <2>2. QED
    BY <2>1, Facts DEF UserFits, NoUser
<1>2. Grows /\ users' = users
  BY SharedStays DEF ReadLink, TInv, SharedTyped, flags
<1>3. /\ "verify" \in Steps /\ "verify" # "create" /\ user.uid \in 0 .. MaxUsers
      /\ user.uid <= users' /\ Begin(q, "verify", user.uid)
  BY <1>2, Facts DEF Steps, ReadLink
<1>4. QED
  BY <1>1, <1>2, <1>3, Begins

(* The account it belongs to is verified.                                  *)
LEMMA VerifyDoes ==
    ASSUME TInv, NEW q \in Requests, Verify(q)
    PROVE  /\ TInv' /\ request[q].uid \in Users /\ Kept(request[q].uid)
           /\ users' = users /\ Into(q, Idle)
<1>1. PICK uid : uid = request[q].uid
  OBVIOUS
<1>2. UNCHANGED <<users, orgs, wallets, links, mailed, sessions, flags, faults>>
  BY DEF Verify
<1>3. uid \in Users /\ uid \in 1 .. users
  BY <1>1, Facts DEF Verify, At, Fits, OnAccount
<1>4. PICK new : new = [user EXCEPT !.status = "active", !.link = 0]
  OBVIOUS
<1>5. 0 \in 0 .. MaxLinks /\ links' \in links .. MaxLinks /\ links' \in Nat /\ 0 <= links'
  BY <1>2, Facts, BoundsAre
<1>6. new \in User /\ new.uid = user.uid /\ new.status = "active" /\ new.link = 0
  BY <1>4, <1>5, Facts DEF User
<1>7. Update(uid, new)
  BY <1>1, <1>4 DEF Verify
<1>8. user' \in User /\ UserFits' /\ Kept(uid)
  <2>1. users' = users /\ links <= links' /\ new.link <= links' /\ new.status # "none"
    BY <1>2, <1>5, <1>6, Facts
  <2>2. QED
    BY <1>3, <1>5, <1>6, <1>7, <2>1, RowWritten
<1>9. answered' \subseteq 1 .. users
  BY <1>1, <1>3 DEF Verify, TInv, SharedTyped
<1>10. Grows
  BY <1>2, <1>5, <1>8, <1>9, SharedWritten DEF TInv, SharedTyped
<1>11. QED
  BY <1>1, <1>2, <1>3, <1>8, <1>10, Leaves DEF Verify

(* An OAuth provider vouches for the address.                              *)
LEMMA ReadOAuthDoes ==
    ASSUME TInv, NEW q \in Requests, ReadOAuth(q)
    PROVE  /\ TInv'
           /\ \/ Begun(q, "session", user.uid) /\ user.uid # 0
              \/ Begun(q, "adopt", user.uid)
<1>1. PICK step \in {"session", "adopt"} : step = IF user.oauth THEN "session" ELSE "adopt"
  OBVIOUS
<1>2. step = "session" => user.uid # 0
  BY <1>1, Facts DEF UserFits, NoUser
<1>3. Grows /\ users' = users
  BY DoubtTyped, SharedStays DEF ReadOAuth, TInv, SharedTyped
<1>4. PICK seen \in BOOLEAN : seen = (user.status = "pending")
  OBVIOUS
<1>5. request' = [request EXCEPT ![q] = Started(step, user.uid, seen)]
  BY <1>1, <1>4 DEF ReadOAuth, BeginSeeing, Started
<1>6. /\ step \in Steps /\ user.uid \in 0 .. MaxUsers /\ user.uid <= users'
      /\ step \in OnAccount => user.uid # 0
      /\ step # "create"
  BY <1>2, <1>3, Facts DEF Steps, OnAccount
<1>7. TInv' /\ Begun(q, step, user.uid)
  BY <1>3, <1>5, <1>6, Starts
<1>8. QED
  BY <1>2, <1>7

(* The account it finds is adopted, or made.                               *)
LEMMA AdoptOrCreateDoes ==
    ASSUME TInv, NEW q \in Requests, AdoptOrCreate(q)
    PROVE  /\ TInv'
           /\ \/ /\ request[q].uid \in Users /\ Kept(request[q].uid) /\ users' = users
                 /\ UNCHANGED <<orgs, wallets>>
                 /\ Gone(q, "activate") \/ Gone(q, "session")
              \/ Into(q, Idle) /\ UNCHANGED <<user, users, orgs, wallets>>
              \/ /\ user.uid = 0 /\ users' = users + 1 /\ users + 1 \in Users
                 /\ user'.uid = users + 1
                 /\ orgs' = [orgs EXCEPT ![users + 1] = 1]
                 /\ wallets' = [wallets EXCEPT ![users + 1] = 1]
                 /\ Begun(q, "session", users + 1)
<1>1. UNCHANGED <<links, post, sessions, flags, faults>>
  BY DEF AdoptOrCreate
<1>2. PICK uid : uid = request[q].uid
  OBVIOUS
<1>3. CASE /\ uid # 0
           /\ Update(uid, [user EXCEPT !.oauth = TRUE])
           /\ Goto(q, IF request[q].seen THEN "activate" ELSE "session")
           /\ UNCHANGED <<users, orgs, wallets>>
  <2>1. uid \in Users
    BY <1>2, <1>3, Facts
  <2>2. PICK new : new = [user EXCEPT !.oauth = TRUE]
    OBVIOUS
  <2>3. /\ new \in User /\ new.uid = user.uid /\ new.status = user.status
        /\ new.link = user.link
    BY <2>2, Facts DEF User
  <2>4. Update(uid, new)
    BY <1>3, <2>2
  <2>5. /\ user.uid # 0 => new.status # "none"
        /\ users' = users /\ links <= links' /\ links' \in Nat /\ new.link <= links'
        /\ links' \in links .. MaxLinks
    BY <1>1, <1>3, <2>3, Facts DEF UserFits
  <2>6. user' \in User /\ UserFits' /\ Kept(uid)
    BY <2>1, <2>3, <2>4, <2>5, RowWritten
  <2>7. Grows
    BY <1>1, <1>3, <2>5, <2>6, SharedWritten DEF TInv, SharedTyped, post
  <2>8. PICK step \in {"activate", "session"} :
           step = IF request[q].seen THEN "activate" ELSE "session"
    OBVIOUS
  <2>9. ~ request[q].first /\ Goto(q, step) /\ request[q].uid # 0
    BY <1>2, <1>3, <2>8, Facts DEF AdoptOrCreate, At, Fits
  <2>10. /\ step \in {"rollback", "activate", "session", "reissue", "revokeAll"}
         /\ step # "reissue" /\ step # "rollback"
    BY <2>8
  <2>11. TInv' /\ Gone(q, step)
    BY <2>7, <2>9, <2>10, Goes
  <2>12. QED
    BY <1>2, <1>3, <2>1, <2>6, <2>8, <2>11
<1>4. CASE /\ uid = 0 /\ user.uid # 0
           /\ Leave(q)
           /\ UNCHANGED <<user, users, orgs, wallets>>
  <2>1. Grows
    BY <1>1, <1>4, SharedStays DEF TInv, SharedTyped, flags, account
  <2>2. QED
    BY <1>4, <2>1, Leaves
<1>5. CASE /\ uid = 0 /\ user.uid = 0 /\ users < MaxUsers
           /\ users' = users + 1
           /\ user' = [NoUser EXCEPT !.uid = users + 1, !.status = "active", !.oauth = TRUE]
           /\ orgs' = [orgs EXCEPT ![users + 1] = 1]
           /\ wallets' = [wallets EXCEPT ![users + 1] = 1]
           /\ Begin(q, "session", users + 1)
  <2>1. /\ users + 1 \in Users /\ users + 1 \in 0 .. MaxUsers /\ users + 1 # 0
        /\ 0 \in 0 .. MaxLinks
    BY <1>5, BoundsAre, Facts DEF Users
  <2>2. /\ user' \in User /\ user'.uid = users + 1 /\ user'.status = "active"
        /\ user'.link = 0
    BY <1>5, <2>1 DEF NoUser, User
  <2>3. UserFits'
    BY <1>1, <1>5, <2>1, <2>2, Facts DEF UserFits
  <2>4. orgs' \in [Users -> Nat] /\ wallets' \in [Users -> Nat]
    BY <1>5 DEF TInv, SharedTyped
  <2>5. answered' \subseteq 1 .. users' /\ mailed' \subseteq 1 .. links'
    BY <1>1, <1>5, <2>1, Facts DEF TInv, SharedTyped, post
  <2>6. SharedTyped'
    BY <1>1, <1>5, <2>1, <2>2, <2>3, <2>4, <2>5 DEF TInv, SharedTyped, sessions, flags
  <2>7. Grows
    BY <1>1, <1>5, <2>1, <2>6, Facts DEF Grows, sessions
  <2>8. PICK new : new = users + 1
    OBVIOUS
  <2>9. Begin(q, "session", new)
    BY <1>5, <2>8
  <2>10. /\ "session" \in Steps /\ "session" # "create"
         /\ new \in 0 .. MaxUsers /\ new # 0 /\ new <= users'
    BY <1>5, <2>1, <2>8, Facts DEF Steps
  <2>11. TInv' /\ Begun(q, "session", new)
    BY <2>7, <2>9, <2>10, Begins
  <2>12. QED
    BY <1>5, <2>1, <2>2, <2>8, <2>11
<1>6. QED
  BY <1>2, <1>3, <1>4, <1>5 DEF AdoptOrCreate

(* An account the provider vouches for is verified.                        *)
LEMMA ActivateDoes ==
    ASSUME TInv, NEW q \in Requests, Activate(q)
    PROVE  /\ TInv' /\ request[q].uid \in Users /\ Kept(request[q].uid)
           /\ users' = users /\ Gone(q, "session")
<1>1. PICK uid : uid = request[q].uid
  OBVIOUS
<1>2. UNCHANGED <<users, orgs, wallets, links, post, sessions, flags, faults>>
  BY DEF Activate
<1>3. uid \in Users /\ request[q].uid # 0 /\ ~ request[q].first
  BY <1>1, Facts DEF Activate, At, Fits, OnAccount
<1>4. PICK new : new = [user EXCEPT !.status = "active", !.link = 0]
  OBVIOUS
<1>5. 0 \in 0 .. MaxLinks /\ links' \in links .. MaxLinks /\ links' \in Nat /\ 0 <= links'
  BY <1>2, Facts, BoundsAre
<1>6. new \in User /\ new.uid = user.uid /\ new.status = "active" /\ new.link = 0
  BY <1>4, <1>5, Facts DEF User
<1>7. Update(uid, new)
  BY <1>1, <1>4 DEF Activate
<1>8. user' \in User /\ UserFits' /\ Kept(uid)
  <2>1. users' = users /\ links <= links' /\ new.link <= links' /\ new.status # "none"
    BY <1>2, <1>5, <1>6, Facts
  <2>2. QED
    BY <1>3, <1>5, <1>6, <1>7, <2>1, RowWritten
<1>9. Grows
  BY <1>2, <1>5, <1>8, SharedWritten DEF TInv, SharedTyped, post
<1>10. TInv' /\ Gone(q, "session")
  BY <1>3, <1>9, Goes DEF Activate
<1>11. QED
  BY <1>1, <1>2, <1>3, <1>8, <1>10

(* A log-in finds an active account.                                       *)
LEMMA ReadToLoginDoes ==
    ASSUME TInv, NEW q \in Requests, ReadToLogin(q)
    PROVE  TInv' /\ user.uid # 0 /\ Begun(q, "session", user.uid)
<1>1. user.uid # 0
  BY Facts DEF ReadToLogin, UserFits
<1>2. Grows /\ users' = users
  BY SharedStays DEF ReadToLogin, TInv, SharedTyped, flags
<1>3. /\ "session" \in Steps /\ "session" # "create" /\ user.uid \in 0 .. MaxUsers
      /\ user.uid <= users' /\ Begin(q, "session", user.uid)
  BY <1>2, Facts DEF Steps, ReadToLogin
<1>4. QED
  BY <1>1, <1>2, <1>3, Begins

(* A sequence with one more at its end.                                    *)
LEMMA Appended ==
    ASSUME NEW S, NEW r \in Seq(S), NEW c \in S
    PROVE  /\ Append(r, c) \in Seq(S) /\ Len(Append(r, c)) = Len(r) + 1
           /\ Append(r, c)[Len(r) + 1] = c
           /\ \A k \in 1 .. Len(r) : Append(r, c)[k] = r[k]
OBVIOUS

(* A token is added, of an account and a log-in.                           *)
Added(uid, login) ==
    /\ tokens' \in Seq(Token) /\ Len(tokens') = Len(tokens) + 1
    /\ \A k \in 1 .. Len(tokens) : tokens'[k] = tokens[k]
    /\ tokens'[Len(tokens) + 1].uid = uid /\ tokens'[Len(tokens) + 1].login = login
    /\ ~ tokens'[Len(tokens) + 1].revoked

(* Appending one adds it.                                                  *)
LEMMA AppendAdds ==
    ASSUME TInv, NEW t \in Token, ~ t.revoked, tokens' = Append(tokens, t)
    PROVE  Added(t.uid, t.login)
<1>1. tokens \in Seq(Token)
  BY DEF TInv, SharedTyped
<1>2. /\ tokens' \in Seq(Token) /\ Len(tokens') = Len(tokens) + 1
      /\ tokens'[Len(tokens) + 1] = t
      /\ \A k \in 1 .. Len(tokens) : tokens'[k] = tokens[k]
  BY <1>1, Appended
<1>3. QED
  BY <1>2 DEF Added

(* A session is made, unless its account has gone.                         *)
LEMMA NewSessionDoes ==
    ASSUME TInv, NEW q \in Requests, NewSession(q)
    PROVE  /\ TInv' /\ Into(q, Idle) /\ request[q].uid \in Users
           /\ \/ /\ user.uid = request[q].uid /\ Added(request[q].uid, logins + 1)
                 /\ logins' = logins + 1 /\ answered' = answered \union {request[q].uid}
              \/ UNCHANGED <<tokens, logins, answered>>
<1>1. UNCHANGED <<account, mailed, ended, shared, straddled, flags, faults>> /\ Leave(q)
  BY DEF NewSession
<1>2. request[q].uid \in Users /\ request[q].uid \in 1 .. users
  BY Facts DEF NewSession, At, Fits, OnAccount
<1>3. CASE user.uid = request[q].uid
  <2>1. PICK t : t = [uid |-> request[q].uid, login |-> logins + 1, revoked |-> FALSE]
    OBVIOUS
  <2>2. /\ t \in Token /\ t.uid = request[q].uid /\ t.login = logins + 1 /\ t.revoked = FALSE
    BY <1>2, <2>1, Facts DEF Token
  <2>3. /\ tokens' = Append(tokens, t) /\ logins' = logins + 1
        /\ answered' = answered \union {request[q].uid}
    BY <1>3, <2>1 DEF NewSession
  <2>4. Added(t.uid, t.login)
    BY <2>2, <2>3, AppendAdds
  <2>5. tokens' \in Seq(Token) /\ Len(tokens') = Len(tokens) + 1
    BY <2>4 DEF Added
  <2>6. logins' \in Nat /\ answered' \subseteq 1 .. users
    <3>1. answered \subseteq 1 .. users /\ logins \in Nat
      BY DEF TInv, SharedTyped
    <3>2. logins' \in Nat
      BY <2>3, <3>1
    <3>3. answered' \subseteq 1 .. users
      BY <1>2, <2>3, <3>1
    <3>4. QED
      BY <3>2, <3>3
  <2>7. SharedTyped'
    BY <1>1, <2>5, <2>6 DEF TInv, SharedTyped, account, flags, UserFits
  <2>8. Grows
    BY <1>1, <2>5, <2>7, Facts DEF Grows, account
  <2>9. TInv' /\ Into(q, Idle)
    BY <1>1, <2>8, Leaves
  <2>10. Added(request[q].uid, logins + 1)
    BY <2>2, <2>4 DEF Added
  <2>11. QED
    BY <1>2, <1>3, <2>3, <2>9, <2>10
<1>4. CASE user.uid # request[q].uid
  <2>1. UNCHANGED <<tokens, logins, answered>>
    BY <1>4 DEF NewSession
  <2>2. Grows
    BY <1>1, <2>1, SharedStays DEF TInv, SharedTyped, flags, post, sessions
  <2>3. QED
    BY <1>1, <1>2, <2>1, <2>2, Leaves
<1>5. QED
  BY <1>3, <1>4

(* A live token is looked up.                                              *)
LEMMA ReadTokenDoes ==
    ASSUME TInv, NEW q \in Requests, ReadToken(q)
    PROVE  /\ TInv' /\ UNCHANGED <<tokens, logins, ended, straddled>>
           /\ \E k \in Live : \E r : /\ Into(q, r) /\ r.pc = "revoke" /\ r.token = k
                                     /\ r.uid = 0 /\ ~ r.first
                                     /\ shared' = (shared \/ Uses(k) # {})
<1>1. UNCHANGED <<account, post, tokens, logins, ended, straddled, flags, faults>>
  BY DEF ReadToken
<1>2. PICK k \in Live : /\ request' = [request EXCEPT ![q] = [Idle EXCEPT !.pc = "revoke", !.token = k]]
                        /\ shared' = (shared \/ Uses(k) # {})
  BY DEF ReadToken
<1>3. k \in 1 .. Len(tokens) /\ k \in Nat
  <2>1. k \in DOMAIN tokens /\ DOMAIN tokens = 1 .. Len(tokens)
    BY DEF Live, TInv, SharedTyped
  <2>2. QED
    BY <2>1, Facts
<1>4. PICK r : r = Using(k)
  OBVIOUS
<1>5. request' = [request EXCEPT ![q] = r]
  BY <1>2, <1>4 DEF Using
<1>6. /\ r \in Request /\ r.pc = "revoke" /\ r.uid = 0 /\ r.link = 0 /\ r.token = k
      /\ r.first = FALSE
  BY <1>3, <1>4, UsingValues
<1>7. shared' \in BOOLEAN
  BY <1>2 DEF TInv, SharedTyped
<1>8. SharedTyped'
  BY <1>1, <1>7 DEF TInv, SharedTyped, account, post, flags, UserFits
<1>9. Grows
  BY <1>1, <1>8, Facts DEF account, Grows
<1>10. Fits(r, users', links', Len(tokens'))
  BY <1>1, <1>3, <1>6, Facts DEF Fits, OnAccount, account
<1>11. TInv'
  BY <1>5, <1>9, <1>10, OneTyped DEF Grows
<1>12. Into(q, r)
  BY <1>5, <1>6 DEF Into
<1>13. QED
  BY <1>1, <1>2, <1>6, <1>11, <1>12

(* It is revoked.                                                          *)
LEMMA RevokeDoes ==
    ASSUME TInv, NEW q \in Requests, Revoke(q)
    PROVE  /\ TInv' /\ Lessened /\ Gone(q, "reissue")
           /\ request[q].pc = "revoke" /\ request[q].token \in 1 .. Len(tokens)
           /\ tokens'[request[q].token].revoked
           /\ UNCHANGED <<logins, ended, shared, straddled>>
<1>1. UNCHANGED <<account, post, logins, ended, shared, straddled, flags, faults>>
  BY DEF Revoke
<1>2. /\ request[q].pc = "revoke" /\ request[q].token \in 1 .. Len(tokens)
      /\ request[q].token # 0 /\ ~ request[q].first
  BY Facts DEF Revoke, At, Fits
<1>3. PICK ks : ks = {request[q].token}
  OBVIOUS
<1>4. tokens' = [k \in DOMAIN tokens |->
           IF k \in ks THEN [tokens[k] EXCEPT !.revoked = TRUE] ELSE tokens[k]]
  <2>1. DOMAIN tokens = 1 .. Len(tokens)
    BY DEF TInv, SharedTyped
  <2>2. tokens' = [tokens EXCEPT ![request[q].token] =
                     [tokens[request[q].token] EXCEPT !.revoked = TRUE]]
    BY DEF Revoke
  <2>3. QED
    BY <1>2, <1>3, <2>1, <2>2
<1>5. Lessened /\ tokens'[request[q].token].revoked
  BY <1>2, <1>3, <1>4, RevokedLessened
<1>6. tokens' \in Seq(Token) /\ Len(tokens') = Len(tokens)
  BY <1>5 DEF Lessened
<1>7. SharedTyped'
  BY <1>1, <1>6 DEF TInv, SharedTyped, account, post, flags, UserFits
<1>8. Grows
  BY <1>1, <1>6, <1>7, Facts DEF Grows, account
<1>9. Goto(q, "reissue") /\ "reissue" \notin OnAccount /\ "reissue" # "rollback"
  BY DEF Revoke, OnAccount
<1>10. TInv' /\ Gone(q, "reissue")
  BY <1>2, <1>8, <1>9, Goes
<1>11. QED
  BY <1>1, <1>2, <1>5, <1>10

(* Another takes its place, unless the account has gone.                   *)
LEMMA ReissueDoes ==
    ASSUME TInv, NEW q \in Requests, Reissue(q)
    PROVE  /\ TInv' /\ Into(q, Idle) /\ request[q].pc = "reissue"
           /\ request[q].token \in 1 .. Len(tokens)
           /\ UNCHANGED <<logins, ended, shared, straddled>>
           /\ \/ Added(tokens[request[q].token].uid, tokens[request[q].token].login)
              \/ UNCHANGED tokens
<1>1. UNCHANGED <<account, post, logins, ended, shared, straddled, flags, faults>> /\ Leave(q)
  BY DEF Reissue
<1>2. request[q].pc = "reissue" /\ request[q].token \in 1 .. Len(tokens)
  BY Facts DEF Reissue, At, Fits
<1>3. PICK old : old = tokens[request[q].token]
  OBVIOUS
<1>4. old \in Token
  BY <1>2, <1>3 DEF TInv, SharedTyped
<1>5. CASE UNCHANGED tokens
  <2>1. Grows
    BY <1>1, <1>5, SharedStays DEF TInv, SharedTyped, flags, sessions
  <2>2. QED
    BY <1>1, <1>2, <1>5, <2>1, Leaves
<1>6. CASE tokens' = Append(tokens, [old EXCEPT !.revoked = FALSE])
  <2>1. PICK t : t = [old EXCEPT !.revoked = FALSE]
    OBVIOUS
  <2>2. t \in Token /\ t.uid = old.uid /\ t.login = old.login /\ t.revoked = FALSE
    BY <1>4, <2>1 DEF Token
  <2>3. tokens' = Append(tokens, t)
    BY <1>6, <2>1
  <2>4. Added(t.uid, t.login)
    BY <2>2, <2>3, AppendAdds
  <2>5. tokens' \in Seq(Token) /\ Len(tokens') = Len(tokens) + 1
    BY <2>4 DEF Added
  <2>6. SharedTyped'
    BY <1>1, <2>5 DEF TInv, SharedTyped, account, post, flags, UserFits
  <2>7. Grows
    BY <1>1, <2>5, <2>6, Facts DEF Grows, account
  <2>8. Added(old.uid, old.login)
    BY <2>2, <2>4
  <2>9. QED
    BY <1>1, <1>2, <1>3, <2>7, <2>8, Leaves
<1>7. QED
  BY <1>3, <1>5, <1>6 DEF Reissue

(* A reset link is looked up.                                              *)
LEMMA ReadResetDoes ==
    ASSUME TInv, NEW q \in Requests, ReadReset(q)
    PROVE  TInv' /\ user.uid # 0 /\ Begun(q, "password", user.uid)
<1>1. user.uid # 0
  BY Facts DEF ReadReset, UserFits, NoUser
<1>2. Grows /\ users' = users
  BY SharedStays DEF ReadReset, TInv, SharedTyped, flags
<1>3. /\ "password" \in Steps /\ "password" # "create" /\ user.uid \in 0 .. MaxUsers
      /\ user.uid <= users' /\ Begin(q, "password", user.uid)
  BY <1>2, Facts DEF Steps, ReadReset
<1>4. QED
  BY <1>1, <1>2, <1>3, Begins

(* The password of its account is written.                                 *)
LEMMA ChangePasswordDoes ==
    ASSUME TInv, NEW q \in Requests, ChangePassword(q)
    PROVE  /\ TInv' /\ request[q].uid \in Users /\ Kept(request[q].uid)
           /\ users' = users /\ Gone(q, "revokeAll")
<1>1. PICK uid : uid = request[q].uid
  OBVIOUS
<1>2. UNCHANGED <<users, orgs, wallets, links, post, sessions, flags, faults>>
  BY DEF ChangePassword
<1>3. uid \in Users /\ request[q].uid # 0 /\ ~ request[q].first
  BY <1>1, Facts DEF ChangePassword, At, Fits, OnAccount
<1>4. PICK new : new = [user EXCEPT !.reset = FALSE]
  OBVIOUS
<1>5. links' \in links .. MaxLinks /\ links' \in Nat /\ user.link <= links'
  BY <1>2, Facts, BoundsAre DEF UserFits
<1>6. /\ new \in User /\ new.uid = user.uid /\ new.status = user.status
      /\ new.link = user.link
  BY <1>4, Facts DEF User
<1>7. Update(uid, new)
  BY <1>1, <1>4 DEF ChangePassword
<1>8. user' \in User /\ UserFits' /\ Kept(uid)
  <2>1. /\ users' = users /\ links <= links' /\ new.link <= links'
        /\ user.uid # 0 => new.status # "none"
    BY <1>2, <1>5, <1>6, Facts DEF UserFits
  <2>2. QED
    BY <1>3, <1>5, <1>6, <1>7, <2>1, RowWritten
<1>9. Grows
  BY <1>2, <1>5, <1>8, SharedWritten DEF TInv, SharedTyped, post
<1>10. TInv' /\ Gone(q, "revokeAll")
  BY <1>3, <1>9, Goes DEF ChangePassword
<1>11. QED
  BY <1>1, <1>2, <1>3, <1>8, <1>10

(* Every token of the account is revoked.                                  *)
LEMMA RevokeAllDoes ==
    ASSUME TInv, NEW q \in Requests, RevokeAll(q)
    PROVE  /\ TInv' /\ Into(q, Idle) /\ Lessened
           /\ request[q].uid \in Users /\ UNCHANGED <<logins, shared>>
           /\ \A k \in 1 .. Len(tokens) :
                 tokens[k].uid = request[q].uid => tokens'[k].revoked
           /\ ended' = [ended EXCEPT ![request[q].uid] = logins]
           /\ straddled' = (straddled \/ \E r \in Requests \ {q} :
                               request[r].pc \in {"session", "revoke", "reissue"})
<1>1. /\ UNCHANGED <<account, post, logins, shared, flags, faults>> /\ Leave(q)
      /\ ended' = [ended EXCEPT ![request[q].uid] = logins]
      /\ straddled' = (straddled \/ \E r \in Requests \ {q} :
                          request[r].pc \in {"session", "revoke", "reissue"})
  BY DEF RevokeAll, Ended
<1>2. request[q].uid \in Users
  BY Facts DEF RevokeAll, At, Fits, OnAccount
<1>3. PICK ks : ks = {k \in DOMAIN tokens : tokens[k].uid = request[q].uid}
  OBVIOUS
<1>4. tokens' = [k \in DOMAIN tokens |->
           IF k \in ks THEN [tokens[k] EXCEPT !.revoked = TRUE] ELSE tokens[k]]
  BY <1>3 DEF RevokeAll
<1>5. Lessened /\ \A k \in 1 .. Len(tokens) : k \in ks => tokens'[k].revoked
  BY <1>4, RevokedLessened
<1>6. DOMAIN tokens = 1 .. Len(tokens)
  BY DEF TInv, SharedTyped
<1>7. tokens' \in Seq(Token) /\ Len(tokens') = Len(tokens)
  BY <1>5 DEF Lessened
<1>8. straddled' \in BOOLEAN
  BY <1>1 DEF TInv, SharedTyped
<1>9. ended' \in [Users -> Nat]
  BY <1>1, <1>2 DEF TInv, SharedTyped
<1>10. SharedTyped'
  BY <1>1, <1>7, <1>8, <1>9 DEF TInv, SharedTyped, account, post, flags, UserFits
<1>11. Grows
  BY <1>1, <1>7, <1>10, Facts DEF Grows, account
<1>12. TInv' /\ Into(q, Idle)
  BY <1>1, <1>11, Leaves
<1>13. QED
  BY <1>1, <1>2, <1>3, <1>5, <1>6, <1>12

(* A token is revoked at log-out.                                          *)
LEMMA LogoutDoes ==
    ASSUME TInv, NEW k \in DOMAIN tokens, Logout(k)
    PROVE  /\ TInv' /\ Lessened
           /\ UNCHANGED <<account, logins, ended, shared, straddled, request>>
<1>1. UNCHANGED <<account, post, logins, ended, shared, straddled, request, flags, faults>>
  BY DEF Logout
<1>2. PICK ks : ks = {k}
  OBVIOUS
<1>3. tokens' = [j \in DOMAIN tokens |->
           IF j \in ks THEN [tokens[j] EXCEPT !.revoked = TRUE] ELSE tokens[j]]
  <2>1. tokens' = [tokens EXCEPT ![k] = [tokens[k] EXCEPT !.revoked = TRUE]]
    BY DEF Logout
  <2>2. DOMAIN tokens = 1 .. Len(tokens)
    BY DEF TInv, SharedTyped
  <2>3. QED
    BY <1>2, <2>1, <2>2
<1>4. Lessened
  BY <1>3, RevokedLessened
<1>5. tokens' \in Seq(Token) /\ Len(tokens') = Len(tokens)
  BY <1>4 DEF Lessened
<1>6. SharedTyped'
  BY <1>1, <1>5 DEF TInv, SharedTyped, account, post, flags, UserFits
<1>7. TInv'
  BY <1>1, <1>5, <1>6 DEF TInv, account
<1>8. QED
  BY <1>1, <1>4, <1>7

(* A reset link is asked for.                                              *)
LEMMA ForgotPasswordDoes ==
    ASSUME TInv, ForgotPassword
    PROVE  /\ TInv' /\ user'.uid = user.uid /\ user'.status = user.status
           /\ user'.link = user.link /\ user'.oauth = user.oauth
           /\ UNCHANGED <<users, orgs, wallets, links, post, sessions, request, flags>>
<1>1. UNCHANGED <<users, orgs, wallets, links, post, sessions, request, flags, faults>>
  BY DEF ForgotPassword
<1>2. /\ user' \in User /\ user'.uid = user.uid /\ user'.status = user.status
      /\ user'.link = user.link /\ user'.oauth = user.oauth /\ user.uid # 0
  BY Facts DEF ForgotPassword, User
<1>3. UserFits'
  BY <1>1, <1>2, Facts DEF UserFits
<1>4. SharedTyped'
  BY <1>1, <1>2, <1>3 DEF TInv, SharedTyped, post, sessions, flags
<1>5. TInv'
  BY <1>1, <1>4 DEF TInv, sessions
<1>6. QED
  BY <1>1, <1>2, <1>5

(* The process dies with its requests.                                     *)
LEMMA CrashDoes ==
    ASSUME TInv, Crash
    PROVE  /\ TInv' /\ UNCHANGED <<account, post, sessions, flags>>
           /\ \A q \in Requests : request'[q] = Idle
<1>1. /\ UNCHANGED <<account, post, sessions, flags>>
      /\ request' = [q \in Requests |-> Idle] /\ faults' = faults + 1
  BY DEF Crash, Fault
<1>2. faults' \in Nat
  BY <1>1 DEF TInv, SharedTyped
<1>3. SharedTyped'
  BY <1>1, <1>2 DEF TInv, SharedTyped, account, post, sessions, flags, UserFits
<1>4. users' \in Nat /\ links' \in Nat /\ Len(tokens') \in Nat
  BY <1>3, BoundsAre DEF SharedTyped
<1>5. TInv'
  BY <1>1, <1>3, <1>4, IdleFits DEF TInv, Fits
<1>6. QED
  BY <1>1, <1>5

-----------------------------------------------------------------------------
(* Types.                                                                  *)

(* Every step keeps the types.                                             *)
LEMMA StepTyped == ASSUME TInv, [Next]_vars PROVE TInv'
<1>1. ASSUME NEW q \in Requests, Handle(q)
      PROVE  TInv'
  BY <1>1, ReadToRegisterDoes, CreateDoes, ReuseDoes, ReadToResendDoes, RenewDoes,
     SendMailDoes, RollbackDoes, ReadLinkDoes, VerifyDoes, ReadOAuthDoes,
     AdoptOrCreateDoes, ActivateDoes, ReadToLoginDoes, NewSessionDoes, ReadTokenDoes,
     RevokeDoes, ReissueDoes, ReadResetDoes, ChangePasswordDoes, RevokeAllDoes, Zenon
     DEF Handle
<1>2. CASE UNCHANGED vars
  BY <1>2 DEF vars, TInv, SharedTyped, UserFits
<1>3. QED
  BY <1>1, <1>2, LogoutDoes, ForgotPasswordDoes, CrashDoes DEF Next

(* The types hold at the start.                                            *)
LEMMA InitTyped == Init => TInv
<1> SUFFICES ASSUME Init PROVE TInv
  OBVIOUS
<1>1. 0 \in 0 .. MaxUsers /\ 0 \in 0 .. MaxLinks
  BY BoundsAre
<1>2. user \in User /\ user.uid = 0 /\ user.link = 0 /\ user.status = "none"
  BY <1>1 DEF Init, NoUser, User
<1>3. UserFits
  BY <1>2 DEF Init, UserFits
<1>4. tokens \in Seq(Token) /\ Len(tokens) = 0
  BY DEF Init
<1>5. SharedTyped
  BY <1>1, <1>2, <1>3, <1>4 DEF Init, SharedTyped
<1>6. \A q \in Requests : request[q] = Idle
  BY DEF Init
<1>7. request \in [Requests -> Request] /\ \A q \in Requests : Fits(request[q], 0, 0, 0)
  BY <1>6, IdleFits DEF Fits, Init
<1>8. QED
  BY <1>4, <1>5, <1>7 DEF TInv, Init

(* The types hold always.                                                  *)
LEMMA AlwaysTyped == Spec => []TInv
BY InitTyped, StepTyped, PTL DEF Spec

(* Every variable has its type.                                            *)
THEOREM TypeCorrect == Spec => []TypeOK
<1>1. ASSUME TInv PROVE TypeOK
  <2>1. /\ 1 .. users \subseteq Users /\ 1 .. links \subseteq Links
    BY <1>1, Facts, BoundsAre DEF Users, Links
  <2>2. \A q \in Requests : request[q].token \in 0 .. Len(tokens)
    BY <1>1, Facts DEF Fits
  <2>3. QED
    BY <1>1, <2>1, <2>2 DEF TInv, SharedTyped, TypeOK
<1>2. QED
  BY <1>1, AlwaysTyped, PTL

-----------------------------------------------------------------------------
(* Accounts are whole.                                                     *)

(* As long as registrations do not overlap, one at most is in flight, and  *)
(* one that takes an account up finds it there.                            *)
WholeInv == /\ \A u \in Users : orgs[u] = wallets[u]
            /\ \A u \in Users : u > users => orgs[u] = 0
            /\ \A u \in Users : u = user.uid => orgs[u] = 1
            /\ ~ raced => /\ \A q, r \in Requests : Registering(q) /\ Registering(r) => q = r
                          /\ \A q \in Requests : At(q, "reuse") => request[q].uid = user.uid
                          /\ \A u \in Users : u # user.uid => orgs[u] = 0

(* A request does what is no registration, or goes on with one.            *)
Other(q) == \E r : /\ Into(q, r) /\ r.pc \notin {"create", "reuse"}
                   /\ r.first => request[q].first

(* Most steps do.                                                          *)
LEMMA Others ==
    ASSUME TInv, NEW q \in Requests
    PROVE  /\ Into(q, Idle) => Other(q)
           /\ \A step, uid : Begun(q, step, uid) /\ step \notin {"create", "reuse"} => Other(q)
           /\ \A step : Gone(q, step) /\ step \notin {"create", "reuse"} => Other(q)
           /\ \A uid, link : Mailed(q, uid, link, FALSE) => Other(q)
<1>1. Into(q, Idle) => Other(q)
  BY IdleFits DEF Other
<1>2. ASSUME NEW step, NEW uid, Begun(q, step, uid), step \notin {"create", "reuse"}
      PROVE  Other(q)
  BY <1>2 DEF Other, Begun
<1>3. ASSUME NEW step, Gone(q, step), step \notin {"create", "reuse"}
      PROVE  Other(q)
  BY <1>3 DEF Other, Gone
<1>4. ASSUME NEW uid, NEW link, Mailed(q, uid, link, FALSE)
      PROVE  Other(q)
  BY <1>4 DEF Other, Mailed
<1>5. QED
  BY <1>1, <1>2, <1>3, <1>4

(* No registration comes of such a step.                                   *)
LEMMA OtherRegisters ==
    ASSUME TInv, NEW q \in Requests, Other(q)
    PROVE  \A d \in Requests : /\ Registering(d)' => Registering(d)
                               /\ At(d, "reuse")' => d # q /\ At(d, "reuse")
                                                     /\ request'[d] = request[d]
<1>1. PICK r : /\ Into(q, r) /\ r.pc \notin {"create", "reuse"}
               /\ r.first => request[q].first
  BY DEF Other
<1>2. \A d \in Requests : request'[d] = IF d = q THEN r ELSE request[d]
  BY <1>1, IntoOne
<1>3. QED
  BY <1>1, <1>2 DEF Registering, At

(* Accounts stay whole where none is made, taken up or taken back.         *)
LEMMA OtherWhole ==
    ASSUME TInv, WholeInv, NEW q \in Requests, Other(q), user'.uid = user.uid,
           UNCHANGED <<users, orgs, wallets, raced>>
    PROVE  WholeInv'
<1>1. \A d \in Requests : /\ Registering(d)' => Registering(d)
                          /\ At(d, "reuse")' => At(d, "reuse") /\ request'[d] = request[d]
  BY OtherRegisters
<1>2. QED
  BY <1>1 DEF WholeInv

(* A registration begins.                                                  *)
LEMMA ReadToRegisterWhole ==
    ASSUME TInv, WholeInv, NEW q \in Requests, ReadToRegister(q)
    PROVE  WholeInv'
<1>1. /\ UNCHANGED <<user, users, orgs, wallets>>
      /\ raced' = (raced \/ \E r \in Requests : Registering(r))
  BY DEF ReadToRegister, account
<1>2. PICK step : step = IF user.uid = 0 THEN "create" ELSE "reuse"
  OBVIOUS
<1>3. Begun(q, step, user.uid)
  BY <1>2, ReadToRegisterDoes
<1>4. PICK r : Into(q, r) /\ r.uid = user.uid
  BY <1>3 DEF Begun
<1>5. \A d \in Requests : request'[d] = IF d = q THEN r ELSE request[d]
  BY <1>4, IntoOne
<1>6. CASE raced \/ \E d \in Requests : Registering(d)
  BY <1>1, <1>6 DEF WholeInv
<1>7. CASE ~ raced /\ \A d \in Requests : ~ Registering(d)
  <2>1. \A d \in Requests : Registering(d)' => d = q
    BY <1>5, <1>7 DEF Registering
  <2>2. \A d \in Requests : At(d, "reuse")' => request'[d].uid = user.uid
    BY <1>4, <1>5, <1>7 DEF Registering, At
  <2>3. QED
    BY <1>1, <2>1, <2>2 DEF WholeInv
<1>8. QED
  BY <1>6, <1>7

(* An account is made whole.                                               *)
LEMMA MadeWhole ==
    ASSUME TInv, WholeInv, user.uid = 0, users' = users + 1, users + 1 \in Users,
           user'.uid = users + 1,
           orgs' = [orgs EXCEPT ![users + 1] = 1],
           wallets' = [wallets EXCEPT ![users + 1] = 1],
           raced' = raced,
           ~ raced => \A d \in Requests : ~ At(d, "reuse")',
           \A d \in Requests : Registering(d)' => Registering(d)
    PROVE  WholeInv'
<1>1. /\ users \in Nat /\ \A u \in Users : u \in Nat
      /\ orgs \in [Users -> Nat] /\ wallets \in [Users -> Nat]
  <2>1. orgs \in [Users -> Nat] /\ wallets \in [Users -> Nat]
    BY DEF TInv, SharedTyped
  <2>2. QED
    BY <2>1, AreUsers, Facts
<1>2. \A u \in Users : /\ orgs'[u] = IF u = users + 1 THEN 1 ELSE orgs[u]
                       /\ wallets'[u] = IF u = users + 1 THEN 1 ELSE wallets[u]
  BY <1>1
<1>3. \A u \in Users : u # 0
  BY <1>1 DEF Users
<1>4. \A u \in Users : u > users' => orgs'[u] = 0
  BY <1>1, <1>2 DEF WholeInv
<1>5. \A u \in Users : orgs'[u] = wallets'[u]
  BY <1>2 DEF WholeInv
<1>6. \A u \in Users : u = user'.uid => orgs'[u] = 1
  BY <1>2
<1>7. ~ raced => \A u \in Users : u # user'.uid => orgs'[u] = 0
  BY <1>2, <1>3 DEF WholeInv
<1>8. ~ raced => \A d, r \in Requests : Registering(d)' /\ Registering(r)' => d = r
  BY DEF WholeInv
<1>9. QED
  BY <1>4, <1>5, <1>6, <1>7, <1>8 DEF WholeInv

(* Nobody takes up an account that is not there.                           *)
LEMMA NoneReused ==
    ASSUME TInv, WholeInv, ~ raced, user.uid = 0
    PROVE  \A q \in Requests : ~ At(q, "reuse")
BY Facts DEF WholeInv, At, Fits, OnAccount

(* A registration makes it.                                                *)
LEMMA CreateWhole ==
    ASSUME TInv, WholeInv, NEW q \in Requests, Create(q)
    PROVE  WholeInv'
<1>1. raced' = raced /\ Registering(q)
  BY DEF Create, flags, At, Registering
<1>2. CASE Into(q, Idle) /\ UNCHANGED account
  BY <1>1, <1>2, Others, OtherWhole DEF account
<1>3. CASE /\ user.uid = 0 /\ users' = users + 1
           /\ user'.uid = users + 1 /\ users + 1 \in Users
           /\ orgs' = [orgs EXCEPT ![users + 1] = 1]
           /\ wallets' = [wallets EXCEPT ![users + 1] = 1]
           /\ Mailed(q, users + 1, links + 1, TRUE)
  <2>1. PICK r : Into(q, r) /\ r.pc = "mail"
    BY <1>3 DEF Mailed
  <2>2. \A d \in Requests : request'[d] = IF d = q THEN r ELSE request[d]
    BY <2>1, IntoOne
  <2>3. \A d \in Requests : Registering(d)' => Registering(d)
    BY <1>1, <2>2 DEF Registering
  <2>4. ~ raced => \A d \in Requests : ~ At(d, "reuse")'
    BY <1>3, <2>1, <2>2, NoneReused DEF At
  <2>5. QED
    BY <1>1, <1>3, <2>3, <2>4, MadeWhole
<1>4. QED
  BY <1>2, <1>3, CreateDoes

(* An OAuth log-in finds an account or makes one.                          *)
LEMMA AdoptOrCreateWhole ==
    ASSUME TInv, WholeInv, NEW q \in Requests, AdoptOrCreate(q)
    PROVE  WholeInv'
<1>1. raced' = raced
  BY DEF AdoptOrCreate, flags
<1>2. CASE /\ Kept(request[q].uid) /\ users' = users /\ UNCHANGED <<orgs, wallets>>
           /\ Gone(q, "activate") \/ Gone(q, "session")
  BY <1>1, <1>2, Others, OtherWhole DEF Kept
<1>3. CASE Into(q, Idle) /\ UNCHANGED <<user, users, orgs, wallets>>
  BY <1>1, <1>3, Others, OtherWhole
<1>4. CASE /\ user.uid = 0 /\ users' = users + 1 /\ users + 1 \in Users
           /\ user'.uid = users + 1
           /\ orgs' = [orgs EXCEPT ![users + 1] = 1]
           /\ wallets' = [wallets EXCEPT ![users + 1] = 1]
           /\ Begun(q, "session", users + 1)
  <2>1. Other(q)
    <3>1. "session" \notin {"create", "reuse"}
      OBVIOUS
    <3>2. QED
      BY <1>4, <3>1, Others
  <2>2. \A d \in Requests : /\ Registering(d)' => Registering(d)
                            /\ At(d, "reuse")' => At(d, "reuse")
    BY <2>1, OtherRegisters
  <2>3. ~ raced => \A d \in Requests : ~ At(d, "reuse")'
    BY <1>4, <2>2, NoneReused
  <2>4. QED
    BY <1>1, <1>4, <2>2, <2>3, MadeWhole
<1>5. QED
  BY <1>2, <1>3, <1>4, AdoptOrCreateDoes

(* An account that is taken up gets what it lacks.                         *)
LEMMA ReuseWhole ==
    ASSUME TInv, WholeInv, NEW q \in Requests, Reuse(q)
    PROVE  WholeInv'
<1>1. PICK uid : uid = request[q].uid
  OBVIOUS
<1>2. /\ users' = users /\ raced' = raced /\ user'.uid = user.uid
      /\ uid \in Users /\ At(q, "reuse") /\ Other(q)
  BY <1>1, ReuseDoes, Others DEF Reuse, flags, Kept
<1>3. /\ orgs \in [Users -> Nat] /\ wallets \in [Users -> Nat]
      /\ uid \in Nat /\ uid <= users /\ users \in Nat /\ \A u \in Users : u \in Nat
  <2>1. orgs \in [Users -> Nat] /\ wallets \in [Users -> Nat]
    BY DEF TInv, SharedTyped
  <2>2. uid \in 1 .. users /\ users \in Nat
    BY <1>1, <1>2, AreUsers, Facts
  <2>3. QED
    BY <2>1, <2>2, AreUsers
<1>4. /\ orgs' = [orgs EXCEPT ![uid] = IF orgs[uid] = 0 THEN 1 ELSE orgs[uid]]
      /\ wallets' = [wallets EXCEPT ![uid] = IF wallets[uid] = 0 THEN 1 ELSE wallets[uid]]
  BY <1>1 DEF Reuse
<1>5. \A u \in Users :
         /\ orgs'[u] = IF u = uid /\ orgs[u] = 0 THEN 1 ELSE orgs[u]
         /\ wallets'[u] = IF u = uid /\ wallets[u] = 0 THEN 1 ELSE wallets[u]
  BY <1>3, <1>4
<1>6. \A u \in Users : orgs'[u] = wallets'[u]
  BY <1>5 DEF WholeInv
<1>7. \A u \in Users : u > users' => orgs'[u] = 0
  BY <1>2, <1>3, <1>5 DEF WholeInv
<1>8. \A u \in Users : u = user'.uid => orgs'[u] = 1
  BY <1>2, <1>5 DEF WholeInv
<1>9. ~ raced => \A u \in Users : u # user'.uid => orgs'[u] = 0
  BY <1>1, <1>2, <1>5 DEF WholeInv
<1>10. \A d \in Requests : /\ Registering(d)' => Registering(d)
                           /\ At(d, "reuse")' => At(d, "reuse") /\ request'[d] = request[d]
  BY <1>2, OtherRegisters
<1>11. QED
  BY <1>2, <1>6, <1>7, <1>8, <1>9, <1>10 DEF WholeInv

(* An account that is taken back leaves nothing.                           *)
LEMMA RollbackWhole ==
    ASSUME TInv, WholeInv, NEW q \in Requests, Rollback(q)
    PROVE  WholeInv'
<1>1. PICK uid : uid = request[q].uid
  OBVIOUS
<1>2. /\ users' = users /\ raced' = raced /\ Other(q) /\ Registering(q) /\ ~ At(q, "reuse")
      /\ uid \in Users /\ Into(q, Idle)
  BY <1>1, RollbackDoes, Others DEF Rollback, flags, Registering, At
<1>3. CASE UNCHANGED <<user, orgs, wallets>>
  BY <1>2, <1>3, OtherWhole
<1>4. CASE /\ user' = IF user.uid = uid THEN NoUser ELSE user
           /\ orgs' = [orgs EXCEPT ![uid] = 0]
           /\ wallets' = [wallets EXCEPT ![uid] = 0]
  <2>1. \A u \in Users : /\ orgs'[u] = IF u = uid THEN 0 ELSE orgs[u]
                         /\ wallets'[u] = IF u = uid THEN 0 ELSE wallets[u]
    BY <1>4 DEF TInv, SharedTyped
  <2>2. NoUser.uid = 0 /\ \A u \in Users : u # 0
    BY BoundsAre DEF NoUser, Users
  <2>3. /\ \A u \in Users : orgs'[u] = wallets'[u]
        /\ \A u \in Users : u > users' => orgs'[u] = 0
        /\ \A u \in Users : u = user'.uid => orgs'[u] = 1
        /\ ~ raced => \A u \in Users : u # user'.uid => orgs'[u] = 0
    BY <1>2, <1>4, <2>1, <2>2 DEF WholeInv
  <2>4. \A d \in Requests : /\ Registering(d)' => Registering(d)
                            /\ At(d, "reuse")' => At(d, "reuse") /\ d # q
    BY <1>2, OtherRegisters
  <2>5. ~ raced => \A d \in Requests : ~ At(d, "reuse")'
    BY <1>2, <2>4 DEF WholeInv, Registering, At
  <2>6. QED
    BY <1>2, <2>3, <2>4, <2>5 DEF WholeInv
<1>5. QED
  BY <1>1, <1>3, <1>4, RollbackDoes

(* Every step leaves accounts whole.                                       *)
LEMMA StepWhole == ASSUME TInv, WholeInv, [Next]_vars PROVE WholeInv'
<1>1. ASSUME NEW q \in Requests, Handle(q)
      PROVE  WholeInv'
  <2>1. CASE ReadToResend(q)
    <3>1. Begun(q, "renew", user.uid) /\ "renew" \notin {"create", "reuse"}
      BY <2>1, ReadToResendDoes
    <3>2. QED
      BY <2>1, <3>1, Others, OtherWhole DEF ReadToResend, account
  <2>2. CASE Renew(q)
    BY <2>2, RenewDoes, Others, OtherWhole DEF Renew, flags, Kept
  <2>3. CASE SendMail(q)
    <3>1. "rollback" \notin {"create", "reuse"}
      OBVIOUS
    <3>2. QED
      BY <2>3, <3>1, SendMailDoes, Others, OtherWhole DEF SendMail, account
  <2>4. CASE ReadLink(q)
    <3>1. Begun(q, "verify", user.uid) /\ "verify" \notin {"create", "reuse"}
      BY <2>4, ReadLinkDoes
    <3>2. QED
      BY <2>4, <3>1, Others, OtherWhole DEF ReadLink, account, flags
  <2>5. CASE Verify(q)
    BY <2>5, VerifyDoes, Others, OtherWhole DEF Verify, flags, Kept
  <2>6. CASE ReadOAuth(q)
    <3>1. "adopt" \notin {"create", "reuse"} /\ "session" \notin {"create", "reuse"}
      OBVIOUS
    <3>2. QED
      BY <2>6, <3>1, ReadOAuthDoes, Others, OtherWhole DEF ReadOAuth, account
  <2>7. CASE Activate(q)
    <3>1. Gone(q, "session") /\ "session" \notin {"create", "reuse"}
      BY <2>7, ActivateDoes
    <3>2. QED
      BY <2>7, <3>1, ActivateDoes, Others, OtherWhole DEF Activate, flags, Kept
  <2>8. CASE ReadToLogin(q)
    <3>1. Begun(q, "session", user.uid) /\ "session" \notin {"create", "reuse"}
      BY <2>8, ReadToLoginDoes
    <3>2. QED
      BY <2>8, <3>1, Others, OtherWhole DEF ReadToLogin, account, flags
  <2>9. CASE NewSession(q)
    BY <2>9, NewSessionDoes, Others, OtherWhole DEF NewSession, account, flags
  <2>10. CASE ReadToken(q)
    <3>1. PICK r : Into(q, r) /\ r.pc = "revoke" /\ ~ r.first
      BY <2>10, ReadTokenDoes
    <3>2. Other(q)
      BY <3>1 DEF Other
    <3>3. QED
      BY <2>10, <3>2, OtherWhole DEF ReadToken, account, flags
  <2>11. CASE Revoke(q)
    <3>1. Gone(q, "reissue") /\ "reissue" \notin {"create", "reuse"}
      BY <2>11, RevokeDoes
    <3>2. QED
      BY <2>11, <3>1, Others, OtherWhole DEF Revoke, account, flags
  <2>12. CASE Reissue(q)
    BY <2>12, ReissueDoes, Others, OtherWhole DEF Reissue, account, flags
  <2>13. CASE ReadReset(q)
    <3>1. Begun(q, "password", user.uid) /\ "password" \notin {"create", "reuse"}
      BY <2>13, ReadResetDoes
    <3>2. QED
      BY <2>13, <3>1, Others, OtherWhole DEF ReadReset, account, flags
  <2>14. CASE ChangePassword(q)
    <3>1. Gone(q, "revokeAll") /\ "revokeAll" \notin {"create", "reuse"}
      BY <2>14, ChangePasswordDoes
    <3>2. QED
      BY <2>14, <3>1, ChangePasswordDoes, Others, OtherWhole
         DEF ChangePassword, flags, Kept
  <2>15. CASE RevokeAll(q)
    BY <2>15, RevokeAllDoes, Others, OtherWhole DEF RevokeAll, Ended, account, flags
  <2>16. QED
    BY <1>1, <2>1, <2>2, <2>3, <2>4, <2>5, <2>6, <2>7, <2>8, <2>9, <2>10, <2>11, <2>12,
       <2>13, <2>14, <2>15, ReadToRegisterWhole, CreateWhole, ReuseWhole, RollbackWhole,
       AdoptOrCreateWhole, Zenon DEF Handle
<1>2. CASE UNCHANGED vars
  BY <1>2 DEF vars, WholeInv, Registering, At
<1>3. CASE \E k \in DOMAIN tokens : Logout(k)
  BY <1>3 DEF Logout, account, flags, WholeInv, Registering, At
<1>4. CASE ForgotPassword
  BY <1>4, ForgotPasswordDoes DEF flags, WholeInv, Registering, At
<1>5. CASE Crash
  BY <1>5, CrashDoes, IdleFits DEF account, flags, WholeInv, Registering, At
<1>6. QED
  BY <1>1, <1>2, <1>3, <1>4, <1>5 DEF Next

(* No account is there at the start.                                       *)
LEMMA InitWhole == Init => WholeInv
BY AreUsers, IdleFits DEF Init, NoUser, WholeInv, Registering, At

(* An account has its organization and wallet; none is left of one that    *)
(* has gone, unless registrations overlap.                                 *)
THEOREM AccountsAreWhole == Spec => []AccountIsWhole
<1>1. Init => TInv /\ WholeInv
  BY InitTyped, InitWhole
<1>2. TInv /\ WholeInv /\ [Next]_vars => (TInv /\ WholeInv)'
  BY StepTyped, StepWhole
<1>3. WholeInv => AccountIsWhole
  BY DEF WholeInv, AccountIsWhole
<1>4. QED
  BY <1>1, <1>2, <1>3, PTL DEF Spec

-----------------------------------------------------------------------------
(* Sessions.                                                               *)

(* A request holds a token that is refreshed.                              *)
Holds(q) == request[q].pc \in {"revoke", "reissue"}

(* The log-in of a token is later than the last reset of its account.      *)
After(k) == tokens[k].login > ended[tokens[k].uid]

(* While none is made during a reset, also the held tokens are later.      *)
ResetInv ==
    /\ \A u \in Users : ended[u] <= logins
    /\ ~ straddled => /\ \A k \in Live : After(k)
                      /\ \A q \in Requests : Holds(q) => After(request[q].token)

(* The log-in that a held token is of.                                     *)
Held(q) == tokens[request[q].token].login

(* While no token is used twice at once, a log-in has one live token or    *)
(* one request that replaces it.                                           *)
LoginInv ==
    /\ \A k \in 1 .. Len(tokens) : tokens[k].login <= logins
    /\ \A q \in Requests : At(q, "reissue") => tokens[request[q].token].revoked
    /\ ~ shared =>
          /\ \A j, k \in Live : tokens[j].login = tokens[k].login => j = k
          /\ \A q, r \in Requests : Holds(q) /\ Holds(r) /\ Held(q) = Held(r) => q = r
          /\ \A q \in Requests, k \in Live :
                Holds(q) /\ Held(q) = tokens[k].login => k = request[q].token

(* Tokens are numbered, and so is what is held.                            *)
LEMMA TokenFacts ==
    ASSUME TInv
    PROVE  /\ DOMAIN tokens = 1 .. Len(tokens) /\ Len(tokens) \in Nat
           /\ \A k \in 1 .. Len(tokens) :
                 /\ tokens[k].uid \in Users /\ tokens[k].login \in Nat
                 /\ tokens[k].revoked \in BOOLEAN
                 /\ k \in Live <=> ~ tokens[k].revoked
           /\ \A k \in Live : k \in 1 .. Len(tokens)
           /\ \A q \in Requests : Holds(q) => request[q].token \in 1 .. Len(tokens)
           /\ logins \in Nat /\ \A u \in Users : ended[u] \in Nat
<1>1. tokens \in Seq(Token) /\ logins \in Nat /\ ended \in [Users -> Nat]
  BY DEF TInv, SharedTyped
<1>2. DOMAIN tokens = 1 .. Len(tokens) /\ Len(tokens) \in Nat
  BY <1>1
<1>3. \A k \in 1 .. Len(tokens) : tokens[k] \in Token
  BY <1>1
<1>4. \A q \in Requests : Holds(q) => request[q].token \in 1 .. Len(tokens)
  BY Facts DEF Holds, Fits
<1>5. QED
  BY <1>1, <1>2, <1>3, <1>4 DEF Live, Token

(* Tokens at most are revoked, and whoever holds one held it.              *)
Quieter == /\ Lessened /\ UNCHANGED <<logins, ended, shared, straddled>>
           /\ \A q \in Requests : Holds(q)' =>
                 /\ Holds(q) /\ request'[q].token = request[q].token
                 /\ At(q, "reissue")' => \/ At(q, "reissue")
                                         \/ tokens'[request'[q].token].revoked

(* That keeps what is known of sessions.                                   *)
LEMMA QuieterKeeps ==
    ASSUME TInv, TInv', ResetInv, LoginInv, Quieter
    PROVE  ResetInv' /\ LoginInv'
<1>1. /\ Len(tokens') = Len(tokens)
      /\ \A k \in 1 .. Len(tokens) :
            /\ tokens'[k].uid = tokens[k].uid /\ tokens'[k].login = tokens[k].login
            /\ tokens[k].revoked => tokens'[k].revoked
  BY DEF Quieter, Lessened
<1>2. UNCHANGED <<logins, ended, shared, straddled>>
  BY DEF Quieter
<1>3. Live' \subseteq Live
  <2>1. DOMAIN tokens = 1 .. Len(tokens) /\ DOMAIN tokens' = 1 .. Len(tokens)
    BY <1>1, TokenFacts DEF Quieter, Lessened
  <2>2. QED
    BY <1>1, <2>1 DEF Live
<1>4. \A q \in Requests : Holds(q)' =>
         /\ Holds(q) /\ request'[q].token = request[q].token
         /\ request[q].token \in 1 .. Len(tokens)
  BY TokenFacts DEF Quieter
<1>5. \A k \in 1 .. Len(tokens) : After(k) => After(k)'
  BY <1>1, <1>2 DEF After
<1>6. ResetInv'
  BY <1>2, <1>3, <1>4, <1>5, TokenFacts DEF ResetInv
<1>7. \A q \in Requests : Holds(q)' => Held(q)' = Held(q)
  BY <1>1, <1>4 DEF Held
<1>8. \A q \in Requests : At(q, "reissue")' => tokens'[request'[q].token].revoked
  <2> SUFFICES ASSUME NEW q \in Requests, At(q, "reissue")'
               PROVE  tokens'[request'[q].token].revoked
    OBVIOUS
  <2>1. Holds(q)'
    BY DEF At, Holds
  <2>2. CASE At(q, "reissue")
    BY <1>1, <1>4, <2>1, <2>2 DEF LoginInv
  <2>3. QED
    BY <2>1, <2>2 DEF Quieter
<1>9. \A k \in 1 .. Len(tokens') : tokens'[k].login <= logins'
  BY <1>1, <1>2 DEF LoginInv
<1>10. ~ shared' =>
          /\ \A j, k \in Live' : tokens'[j].login = tokens'[k].login => j = k
          /\ \A q, r \in Requests : Holds(q)' /\ Holds(r)' /\ Held(q)' = Held(r)' => q = r
          /\ \A q \in Requests, k \in Live' :
                Holds(q)' /\ Held(q)' = tokens'[k].login => k = request'[q].token
  <2>1. /\ shared' = shared
        /\ \A k \in Live' : k \in Live /\ tokens'[k].login = tokens[k].login
    BY <1>1, <1>2, <1>3, TokenFacts
  <2>2. QED
    BY <1>4, <1>7, <2>1 DEF LoginInv
<1>11. LoginInv'
  BY <1>8, <1>9, <1>10 DEF LoginInv
<1>12. QED
  BY <1>6, <1>11

(* A request is left without a token.                                      *)
Free(q) == \E r : Into(q, r) /\ r.pc \notin {"revoke", "reissue"}

(* Most steps leave it so.                                                 *)
LEMMA Frees ==
    ASSUME TInv, NEW q \in Requests
    PROVE  /\ Into(q, Idle) => Free(q)
           /\ \A step, uid : Begun(q, step, uid) /\ step \notin {"revoke", "reissue"} => Free(q)
           /\ \A step : Gone(q, step) /\ step \notin {"revoke", "reissue"} => Free(q)
           /\ \A uid, link, first : Mailed(q, uid, link, first) => Free(q)
<1>1. Into(q, Idle) => Free(q)
  BY IdleFits DEF Free
<1>2. ASSUME NEW step, NEW uid, Begun(q, step, uid), step \notin {"revoke", "reissue"}
      PROVE  Free(q)
  BY <1>2 DEF Free, Begun
<1>3. ASSUME NEW step, Gone(q, step), step \notin {"revoke", "reissue"}
      PROVE  Free(q)
  BY <1>3 DEF Free, Gone
<1>4. ASSUME NEW uid, NEW link, NEW first, Mailed(q, uid, link, first)
      PROVE  Free(q)
  BY <1>4 DEF Free, Mailed
<1>5. QED
  BY <1>1, <1>2, <1>3, <1>4

(* Whoever holds a token after such a step held it before.                 *)
LEMMA FreeHolds ==
    ASSUME TInv, NEW q \in Requests, Free(q)
    PROVE  \A d \in Requests : Holds(d)' => d # q /\ Holds(d) /\ request'[d] = request[d]
<1>1. PICK r : Into(q, r) /\ r.pc \notin {"revoke", "reissue"}
  BY DEF Free
<1>2. \A d \in Requests : request'[d] = IF d = q THEN r ELSE request[d]
  BY <1>1, IntoOne
<1>3. QED
  BY <1>1, <1>2 DEF Holds

(* Nothing else of sessions changes in most steps.                         *)
LEMMA FreeKeeps ==
    ASSUME TInv, TInv', ResetInv, LoginInv, NEW q \in Requests, Free(q), Lessened,
           UNCHANGED <<logins, ended, shared, straddled>>
    PROVE  ResetInv' /\ LoginInv'
<1>1. Quieter
  BY FreeHolds DEF Quieter, At
<1>2. QED
  BY <1>1, QuieterKeeps

(* A token that is added is the only one that is new.                      *)
LEMMA AddedFacts ==
    ASSUME TInv, TInv', NEW uid, NEW login, Added(uid, login), NEW q \in Requests, Free(q)
    PROVE  /\ \A k \in 1 .. Len(tokens) : tokens'[k] = tokens[k]
           /\ \A k \in 1 .. Len(tokens') : k \in 1 .. Len(tokens) \/ k = Len(tokens) + 1
           /\ \A k \in Live' : k \in Live \/ k = Len(tokens) + 1
           /\ tokens'[Len(tokens) + 1].uid = uid /\ tokens'[Len(tokens) + 1].login = login
           /\ \A d \in Requests : Holds(d)' =>
                 /\ d # q /\ Holds(d) /\ request'[d] = request[d] /\ Held(d)' = Held(d)
                 /\ request[d].token \in 1 .. Len(tokens)
                 /\ tokens'[request[d].token] = tokens[request[d].token]
<1>1. /\ Len(tokens') = Len(tokens) + 1 /\ Len(tokens) \in Nat
      /\ \A k \in 1 .. Len(tokens) : tokens'[k] = tokens[k]
      /\ tokens'[Len(tokens) + 1].uid = uid /\ tokens'[Len(tokens) + 1].login = login
  BY TokenFacts DEF Added
<1>2. \A k \in 1 .. Len(tokens') : k \in 1 .. Len(tokens) \/ k = Len(tokens) + 1
  BY <1>1
<1>3. /\ DOMAIN tokens = 1 .. Len(tokens)
      /\ DOMAIN tokens' = 1 .. Len(tokens')
  BY TokenFacts DEF Added
<1>4. \A k \in Live' : k \in Live \/ k = Len(tokens) + 1
  BY <1>1, <1>2, <1>3 DEF Live
<1>5. \A d \in Requests : Holds(d)' =>
         /\ d # q /\ Holds(d) /\ request'[d] = request[d]
         /\ request[d].token \in 1 .. Len(tokens)
  BY FreeHolds, TokenFacts
<1>6. QED
  BY <1>1, <1>2, <1>4, <1>5 DEF Held

(* A log-in makes a session of its own.                                    *)
LEMMA NewSessionKeeps ==
    ASSUME TInv, TInv', ResetInv, LoginInv, NEW q \in Requests, NewSession(q)
    PROVE  ResetInv' /\ LoginInv'
<1>1. UNCHANGED <<ended, shared, straddled>> /\ Free(q)
  BY NewSessionDoes, Frees DEF NewSession
<1>2. CASE UNCHANGED <<tokens, logins, answered>>
  BY <1>1, <1>2, UnchangedLessened, FreeKeeps
<1>3. CASE Added(request[q].uid, logins + 1) /\ logins' = logins + 1
  <2>1. PICK uid, login, new : /\ uid = request[q].uid /\ login = logins + 1
                               /\ new = Len(tokens) + 1
    OBVIOUS
  <2>2. Added(uid, login)
    BY <1>3, <2>1
  <2>3. uid \in Users
    BY <2>1, NewSessionDoes
  <2>4. /\ \A k \in 1 .. Len(tokens) : tokens'[k] = tokens[k]
        /\ \A k \in 1 .. Len(tokens') : k \in 1 .. Len(tokens) \/ k = new
        /\ \A k \in Live' : k \in Live \/ k = new
        /\ tokens'[new].uid = uid /\ tokens'[new].login = login
        /\ \A d \in Requests : Holds(d)' =>
              /\ d # q /\ Holds(d) /\ request'[d] = request[d] /\ Held(d)' = Held(d)
              /\ request[d].token \in 1 .. Len(tokens)
              /\ tokens'[request[d].token] = tokens[request[d].token]
    BY <1>1, <2>1, <2>2, AddedFacts
  <2>5. /\ login \in Nat /\ logins' = login /\ logins \in Nat /\ logins < login
        /\ \A k \in 1 .. Len(tokens) : tokens[k].login < login
        /\ \A u \in Users : ended'[u] \in Nat /\ ended'[u] < login
    BY <1>1, <1>3, <2>1, TokenFacts DEF LoginInv, ResetInv
  <2>6. After(new)'
    BY <2>3, <2>4, <2>5 DEF After
  <2>7. \A k \in 1 .. Len(tokens) : After(k) => After(k)'
    BY <1>1, <2>4 DEF After
  <2>8. ResetInv'
    BY <1>1, <2>4, <2>5, <2>6, <2>7, TokenFacts DEF ResetInv
  <2>9. \A k \in 1 .. Len(tokens') : tokens'[k].login <= logins'
    BY <2>4, <2>5, TokenFacts
  <2>10. \A d \in Requests : Holds(d)' => Held(d)' < login
    BY <2>4, <2>5 DEF Held
  <2>11. \A k \in Live : tokens'[k].login = tokens[k].login /\ tokens[k].login < login
    BY <2>4, <2>5, TokenFacts
  <2>12. \A k \in 1 .. Len(tokens) : tokens[k].login # login
    BY <2>5, TokenFacts
  <2>13. \A d \in Requests : Holds(d)' => Held(d)' # login
    BY <2>4, <2>12 DEF Held
  <2>14. ~ shared' => \A j, k \in Live' : tokens'[j].login = tokens'[k].login => j = k
    BY <1>1, <2>4, <2>12, TokenFacts DEF LoginInv
  <2>15. ~ shared' => \A d, r \in Requests :
                         Holds(d)' /\ Holds(r)' /\ Held(d)' = Held(r)' => d = r
    BY <1>1, <2>4 DEF LoginInv
  <2>16. ~ shared' => \A d \in Requests, k \in Live' :
                         Holds(d)' /\ Held(d)' = tokens'[k].login => k = request'[d].token
    BY <1>1, <2>4, <2>11, <2>13 DEF LoginInv
  <2>17. \A d \in Requests : At(d, "reissue")' => tokens'[request'[d].token].revoked
    BY <2>4 DEF LoginInv, At, Holds
  <2>18. QED
    BY <2>8, <2>9, <2>14, <2>15, <2>16, <2>17 DEF LoginInv
<1>4. QED
  BY <1>2, <1>3, NewSessionDoes

(* The token that takes the place of another is of its log-in.             *)
LEMMA ReissueKeeps ==
    ASSUME TInv, TInv', ResetInv, LoginInv, NEW q \in Requests, Reissue(q)
    PROVE  ResetInv' /\ LoginInv'
<1>1. UNCHANGED <<logins, ended, shared, straddled>> /\ Free(q)
  BY ReissueDoes, Frees
<1>2. CASE UNCHANGED tokens
  BY <1>1, <1>2, UnchangedLessened, FreeKeeps
<1>3. CASE Added(tokens[request[q].token].uid, tokens[request[q].token].login)
  <2>1. PICK old, uid, login, new :
           /\ old = request[q].token /\ uid = tokens[old].uid /\ login = tokens[old].login
           /\ new = Len(tokens) + 1
    OBVIOUS
  <2>2. Added(uid, login)
    BY <1>3, <2>1
  <2>3. /\ Holds(q) /\ Held(q) = login /\ At(q, "reissue")
        /\ old \in 1 .. Len(tokens) /\ tokens[old].revoked
    BY <2>1, ReissueDoes DEF Holds, Held, At, LoginInv
  <2>4. /\ \A k \in 1 .. Len(tokens) : tokens'[k] = tokens[k]
        /\ \A k \in 1 .. Len(tokens') : k \in 1 .. Len(tokens) \/ k = new
        /\ \A k \in Live' : k \in Live \/ k = new
        /\ tokens'[new].uid = uid /\ tokens'[new].login = login
        /\ \A d \in Requests : Holds(d)' =>
              /\ d # q /\ Holds(d) /\ request'[d] = request[d] /\ Held(d)' = Held(d)
              /\ request[d].token \in 1 .. Len(tokens)
              /\ tokens'[request[d].token] = tokens[request[d].token]
    BY <1>1, <2>1, <2>2, AddedFacts
  <2>5. ~ straddled => After(new)'
    <3>1. ~ straddled => After(old)
      BY <2>1, <2>3 DEF ResetInv
    <3>2. QED
      BY <1>1, <2>1, <2>4, <3>1 DEF After
  <2>6. \A k \in 1 .. Len(tokens) : After(k) => After(k)'
    BY <1>1, <2>4 DEF After
  <2>7. ResetInv'
    BY <1>1, <2>4, <2>5, <2>6, TokenFacts DEF ResetInv
  <2>8. \A k \in 1 .. Len(tokens') : tokens'[k].login <= logins'
    BY <1>1, <2>1, <2>3, <2>4 DEF LoginInv
  <2>9. ~ shared => \A k \in Live : tokens[k].login # login
    BY <2>1, <2>3, TokenFacts DEF LoginInv
  <2>10. ~ shared => \A d \in Requests : Holds(d)' => Held(d)' # login
    BY <2>3, <2>4 DEF LoginInv
  <2>11. \A k \in Live : tokens'[k].login = tokens[k].login
    BY <2>4, TokenFacts
  <2>12. ~ shared' => \A j, k \in Live' : tokens'[j].login = tokens'[k].login => j = k
    BY <1>1, <2>4, <2>9, <2>11 DEF LoginInv
  <2>13. ~ shared' => \A d, r \in Requests :
                         Holds(d)' /\ Holds(r)' /\ Held(d)' = Held(r)' => d = r
    BY <1>1, <2>4 DEF LoginInv
  <2>14. ~ shared' => \A d \in Requests, k \in Live' :
                         Holds(d)' /\ Held(d)' = tokens'[k].login => k = request'[d].token
    BY <1>1, <2>4, <2>10, <2>11 DEF LoginInv
  <2>15. \A d \in Requests : At(d, "reissue")' => tokens'[request'[d].token].revoked
    BY <2>4 DEF LoginInv, At, Holds
  <2>16. QED
    BY <2>7, <2>8, <2>12, <2>13, <2>14, <2>15 DEF LoginInv
<1>4. QED
  BY <1>2, <1>3, ReissueDoes

(* Whoever looks a token up holds it alone, or it is shared.               *)
LEMMA ReadTokenKeeps ==
    ASSUME TInv, TInv', ResetInv, LoginInv, NEW q \in Requests, ReadToken(q)
    PROVE  ResetInv' /\ LoginInv'
<1>0. PICK k \in Live : \E r : /\ Into(q, r) /\ r.pc = "revoke" /\ r.token = k
                               /\ shared' = (shared \/ Uses(k) # {})
  BY ReadTokenDoes
<1>1. PICK r : /\ Into(q, r) /\ r.pc = "revoke" /\ r.token = k
               /\ shared' = (shared \/ Uses(k) # {})
  BY <1>0
<1>2. UNCHANGED <<tokens, logins, ended, straddled>>
  BY ReadTokenDoes
<1>3. \A d \in Requests : request'[d] = IF d = q THEN r ELSE request[d]
  BY <1>1, IntoOne
<1>4. \A j \in 1 .. Len(tokens) : After(j)' <=> After(j)
  BY <1>2 DEF After
<1>5. Live' = Live
  BY <1>2 DEF Live
<1>6. \A d \in Requests : /\ d # q => (Holds(d)' <=> Holds(d))
                          /\ d # q => request'[d] = request[d] /\ Held(d)' = Held(d)
                          /\ d # q => (At(d, "reissue")' <=> At(d, "reissue"))
  BY <1>2, <1>3 DEF Holds, Held, At
<1>7. /\ request'[q].token = k /\ Held(q)' = tokens[k].login /\ ~ At(q, "reissue")'
      /\ k \in 1 .. Len(tokens)
  BY <1>1, <1>2, <1>3, TokenFacts DEF Held, At
<1>8. ResetInv'
  <2>1. \A u \in Users : ended'[u] <= logins'
    BY <1>2 DEF ResetInv
  <2>2. ~ straddled => \A j \in Live : After(j)'
    BY <1>4, TokenFacts DEF ResetInv
  <2>3. ~ straddled => \A d \in Requests : Holds(d)' => After(request[d].token)'
    BY <1>1, <1>4, <1>6, <1>7, <2>2, TokenFacts DEF ResetInv
  <2>4. QED
    BY <1>2, <1>5, <2>1, <2>2, <2>3 DEF ResetInv
<1>9. CASE shared'
  BY <1>2, <1>6, <1>7, <1>8, <1>9 DEF LoginInv
<1>10. CASE ~ shared'
  <2>1. ~ shared /\ \A d \in Requests : Holds(d) => request[d].token # k
    BY <1>1, <1>10 DEF Uses, Holds
  <2>2. \A d \in Requests : Holds(d) => Held(d) # tokens[k].login
    BY <1>1, <2>1 DEF LoginInv
  <2>3. \A d, p \in Requests : Holds(d)' /\ Holds(p)' /\ Held(d)' = Held(p)' => d = p
    BY <1>6, <1>7, <2>1, <2>2 DEF LoginInv
  <2>4. \A d \in Requests, j \in Live :
           Holds(d)' /\ Held(d)' = tokens[j].login => j = request'[d].token
    BY <1>1, <1>6, <1>7, <2>1 DEF LoginInv
  <2>5. \A d \in Requests : At(d, "reissue")' => tokens'[request'[d].token].revoked
    BY <1>2, <1>6, <1>7 DEF LoginInv
  <2>6. QED
    BY <1>2, <1>5, <1>8, <2>1, <2>3, <2>4, <2>5 DEF LoginInv
<1>11. QED
  BY <1>8, <1>9, <1>10

(* A reset ends what is there of its account, and takes none from others.  *)
LEMMA RevokeAllKeeps ==
    ASSUME TInv, TInv', ResetInv, LoginInv, NEW q \in Requests, RevokeAll(q)
    PROVE  ResetInv' /\ LoginInv'
<1>1. PICK uid : uid = request[q].uid
  OBVIOUS
<1>2. /\ Lessened /\ uid \in Users /\ UNCHANGED <<logins, shared>> /\ Free(q)
      /\ \A k \in 1 .. Len(tokens) : tokens[k].uid = uid => tokens'[k].revoked
      /\ ended' = [ended EXCEPT ![uid] = logins]
      /\ straddled' = (straddled \/ \E r \in Requests \ {q} :
                          request[r].pc \in {"session", "revoke", "reissue"})
  BY <1>1, RevokeAllDoes, Frees
<1>3. /\ Len(tokens') = Len(tokens)
      /\ \A k \in 1 .. Len(tokens) :
            /\ tokens'[k].uid = tokens[k].uid /\ tokens'[k].login = tokens[k].login
            /\ tokens[k].revoked => tokens'[k].revoked
  BY <1>2 DEF Lessened
<1>4. Live' \subseteq Live /\ \A k \in Live' : ~ tokens'[k].revoked
  <2>1. DOMAIN tokens = 1 .. Len(tokens) /\ DOMAIN tokens' = 1 .. Len(tokens)
    BY <1>2, TokenFacts DEF Lessened
  <2>2. QED
    BY <1>3, <2>1 DEF Live
<1>5. \A u \in Users : ended'[u] = IF u = uid THEN logins ELSE ended[u]
  BY <1>2 DEF TInv, SharedTyped
<1>6. \A u \in Users : ended'[u] <= logins'
  BY <1>2, <1>5, TokenFacts DEF ResetInv
<1>7. ~ straddled => \A k \in Live' : After(k)'
  <2>1. \A k \in Live' : /\ k \in 1 .. Len(tokens) /\ k \in Live /\ tokens[k].uid # uid
                         /\ tokens[k].uid \in Users
    BY <1>2, <1>4, TokenFacts
  <2>2. QED
    BY <1>3, <1>5, <2>1 DEF ResetInv, After
<1>8. \A d \in Requests : Holds(d)' => d # q /\ Holds(d) /\ request'[d] = request[d]
  BY <1>2, FreeHolds
<1>9. ~ straddled' => ~ straddled /\ \A d \in Requests : ~ Holds(d)'
  BY <1>2, <1>8 DEF Holds
<1>10. ResetInv'
  BY <1>6, <1>7, <1>9 DEF ResetInv
<1>11. \A d \in Requests : Holds(d)' =>
          Held(d)' = Held(d) /\ request[d].token \in 1 .. Len(tokens)
  BY <1>3, <1>8, TokenFacts DEF Held
<1>12. \A d \in Requests : At(d, "reissue")' => tokens'[request'[d].token].revoked
  BY <1>3, <1>8, <1>11 DEF LoginInv, At, Holds
<1>13. \A k \in 1 .. Len(tokens') : tokens'[k].login <= logins'
  BY <1>2, <1>3 DEF LoginInv
<1>14. \A k \in Live' : k \in Live /\ tokens'[k].login = tokens[k].login
  BY <1>3, <1>4, TokenFacts
<1>15. ~ shared' =>
          /\ \A j, k \in Live' : tokens'[j].login = tokens'[k].login => j = k
          /\ \A d, r \in Requests : Holds(d)' /\ Holds(r)' /\ Held(d)' = Held(r)' => d = r
          /\ \A d \in Requests, k \in Live' :
                Holds(d)' /\ Held(d)' = tokens'[k].login => k = request'[d].token
  BY <1>2, <1>8, <1>11, <1>14 DEF LoginInv
<1>16. QED
  BY <1>10, <1>12, <1>13, <1>15 DEF LoginInv

(* Every step keeps what is known of sessions.                             *)
LEMMA StepSessions ==
    ASSUME TInv, TInv', ResetInv, LoginInv, [Next]_vars
    PROVE  ResetInv' /\ LoginInv'
<1>1. ASSUME NEW q \in Requests, Handle(q)
      PROVE  ResetInv' /\ LoginInv'
  <2>0. Free(q) /\ UNCHANGED sessions => ResetInv' /\ LoginInv'
    BY UnchangedLessened, FreeKeeps DEF sessions
  <2>1. CASE ReadToRegister(q)
    <3>1. PICK step \in {"create", "reuse"} : Begun(q, step, user.uid)
      BY <2>1, ReadToRegisterDoes
    <3>2. QED
      BY <2>0, <2>1, <3>1, Frees DEF ReadToRegister
  <2>2. CASE Create(q)
    BY <2>0, <2>2, CreateDoes, Frees DEF Create
  <2>3. CASE Reuse(q)
    BY <2>0, <2>3, ReuseDoes, Frees DEF Reuse
  <2>4. CASE ReadToResend(q)
    <3>1. Begun(q, "renew", user.uid) /\ "renew" \notin {"revoke", "reissue"}
      BY <2>4, ReadToResendDoes
    <3>2. QED
      BY <2>0, <2>4, <3>1, Frees DEF ReadToResend
  <2>5. CASE Renew(q)
    BY <2>0, <2>5, RenewDoes, Frees DEF Renew
  <2>6. CASE SendMail(q)
    <3>1. "rollback" \notin {"revoke", "reissue"}
      OBVIOUS
    <3>2. QED
      BY <2>0, <2>6, <3>1, SendMailDoes, Frees DEF SendMail
  <2>7. CASE Rollback(q)
    BY <2>7, RollbackDoes, Frees, FreeKeeps DEF Rollback
  <2>8. CASE ReadLink(q)
    <3>1. Begun(q, "verify", user.uid) /\ "verify" \notin {"revoke", "reissue"}
      BY <2>8, ReadLinkDoes
    <3>2. QED
      BY <2>0, <2>8, <3>1, Frees DEF ReadLink
  <2>9. CASE Verify(q)
    BY <2>0, <2>9, VerifyDoes, Frees DEF Verify
  <2>10. CASE ReadOAuth(q)
    <3>1. "adopt" \notin {"revoke", "reissue"} /\ "session" \notin {"revoke", "reissue"}
      OBVIOUS
    <3>2. QED
      BY <2>0, <2>10, <3>1, ReadOAuthDoes, Frees DEF ReadOAuth
  <2>11. CASE AdoptOrCreate(q)
    <3>1. "activate" \notin {"revoke", "reissue"} /\ "session" \notin {"revoke", "reissue"}
      OBVIOUS
    <3>2. QED
      BY <2>0, <2>11, <3>1, AdoptOrCreateDoes, Frees DEF AdoptOrCreate
  <2>12. CASE Activate(q)
    <3>1. Gone(q, "session") /\ "session" \notin {"revoke", "reissue"}
      BY <2>12, ActivateDoes
    <3>2. QED
      BY <2>0, <2>12, <3>1, Frees DEF Activate
  <2>13. CASE ReadToLogin(q)
    <3>1. Begun(q, "session", user.uid) /\ "session" \notin {"revoke", "reissue"}
      BY <2>13, ReadToLoginDoes
    <3>2. QED
      BY <2>0, <2>13, <3>1, Frees DEF ReadToLogin
  <2>14. CASE Revoke(q)
    <3>1. /\ Lessened /\ Gone(q, "reissue") /\ Holds(q)
          /\ tokens'[request[q].token].revoked
          /\ UNCHANGED <<logins, ended, shared, straddled>>
      BY <2>14, RevokeDoes DEF Holds
    <3>2. PICK r : Into(q, r) /\ r.pc = "reissue" /\ r.token = request[q].token
      BY <3>1 DEF Gone
    <3>3. \A d \in Requests : request'[d] = IF d = q THEN r ELSE request[d]
      BY <3>2, IntoOne
    <3>4. Quieter
      BY <3>1, <3>2, <3>3 DEF Quieter, Holds, At
    <3>5. QED
      BY <3>4, QuieterKeeps
  <2>15. CASE ReadReset(q)
    <3>1. Begun(q, "password", user.uid) /\ "password" \notin {"revoke", "reissue"}
      BY <2>15, ReadResetDoes
    <3>2. QED
      BY <2>0, <2>15, <3>1, Frees DEF ReadReset
  <2>16. CASE ChangePassword(q)
    <3>1. Gone(q, "revokeAll") /\ "revokeAll" \notin {"revoke", "reissue"}
      BY <2>16, ChangePasswordDoes
    <3>2. QED
      BY <2>0, <2>16, <3>1, Frees DEF ChangePassword
  <2>17. QED
    BY <1>1, <2>1, <2>2, <2>3, <2>4, <2>5, <2>6, <2>7, <2>8, <2>9, <2>10, <2>11, <2>12,
       <2>13, <2>14, <2>15, <2>16, NewSessionKeeps, ReadTokenKeeps, ReissueKeeps,
       RevokeAllKeeps, Zenon DEF Handle
<1>2. CASE UNCHANGED vars
  <2>1. Quieter
    BY <1>2, UnchangedLessened DEF vars, Quieter, Holds, At
  <2>2. QED
    BY <2>1, QuieterKeeps
<1>3. CASE \E k \in DOMAIN tokens : Logout(k)
  <2>1. Quieter
    BY <1>3, LogoutDoes DEF Quieter, Holds, At
  <2>2. QED
    BY <2>1, QuieterKeeps
<1>4. CASE ForgotPassword
  <2>1. Quieter
    BY <1>4, ForgotPasswordDoes, UnchangedLessened DEF Quieter, Holds, At, sessions
  <2>2. QED
    BY <2>1, QuieterKeeps
<1>5. CASE Crash
  <2>1. Quieter
    BY <1>5, CrashDoes, IdleFits, UnchangedLessened DEF Quieter, Holds, At, sessions
  <2>2. QED
    BY <2>1, QuieterKeeps
<1>6. QED
  BY <1>1, <1>2, <1>3, <1>4, <1>5 DEF Next

(* There is no session at the start.                                       *)
LEMMA InitSessions == Init => ResetInv /\ LoginInv
<1> SUFFICES ASSUME Init PROVE ResetInv /\ LoginInv
  OBVIOUS
<1>1. /\ tokens = <<>> /\ logins = 0 /\ \A u \in Users : ended[u] = 0
      /\ \A q \in Requests : request[q] = Idle
  BY DEF Init
<1>2. Live = {} /\ Len(tokens) = 0
  BY <1>1 DEF Live
<1>3. \A q \in Requests : ~ Holds(q) /\ ~ At(q, "reissue")
  BY <1>1, IdleFits DEF Holds, At
<1>4. QED
  BY <1>1, <1>2, <1>3 DEF ResetInv, LoginInv

(* What is known of sessions holds always.                                 *)
LEMMA AlwaysSessions == Spec => [](ResetInv /\ LoginInv)
<1>1. Init => TInv /\ ResetInv /\ LoginInv
  BY InitTyped, InitSessions
<1>2. TInv /\ ResetInv /\ LoginInv /\ [Next]_vars => (TInv /\ ResetInv /\ LoginInv)'
  BY StepTyped, StepSessions
<1>3. QED
  BY <1>1, <1>2, PTL DEF Spec

(* A log-in has one live token, unless a token was used twice at once.     *)
THEOREM LoginsHaveOneToken == Spec => []OneTokenPerLogin
<1>1. LoginInv => OneTokenPerLogin
  BY DEF LoginInv, OneTokenPerLogin
<1>2. QED
  BY <1>1, AlwaysSessions, PTL

(* A reset ends the sessions before it, unless one was made meanwhile.     *)
THEOREM ResetsEndSessions == Spec => []ResetEndsSessions
<1>1. ResetInv => ResetEndsSessions
  BY DEF ResetInv, ResetEndsSessions, After
<1>2. QED
  BY <1>1, AlwaysSessions, PTL

-----------------------------------------------------------------------------
(* Accounts the user was told of.                                          *)

(* A registration whose account nobody else has taken up, and whose e-mail *)
(* is not in doubt.                                                        *)
Certain(q) == request[q].first /\ request[q].uid \notin doubtful

(* Its account is as it made it, and it is the only one to work on it,     *)
(* but for resets, which tell the user of nothing.                         *)
Alone(q) == /\ user.uid = request[q].uid /\ user.status = "pending"
            /\ user.link = request[q].link /\ user.link \notin mailed
            /\ user.uid \notin answered
            /\ \A r \in Requests \ {q} :
                  request[r].uid = user.uid => request[r].pc \in {"password", "revokeAll"}

(* Steps that lead to an e-mail, or to a verified account.                 *)
Telling == {"reuse", "renew", "mail", "verify"}

StayInv == /\ answered \ doubtful \subseteq {user.uid}
           /\ \A q \in Requests : Certain(q) => Alone(q)
           /\ \A q \in Requests : request[q].pc \in Telling /\ ~ request[q].first =>
                 request[q].uid = user.uid \/ request[q].uid \in doubtful
           /\ \A q, r \in Requests :
                 /\ request[q].pc \in {"mail", "rollback"}
                 /\ request[r].pc \in {"mail", "rollback"}
                 /\ request[q].link = request[r].link
                 => q = r

(* Whatever is told of is told of an account that is there, or in doubt.   *)
Told(q) == \/ answered' = answered
           \/ /\ answered' = answered \union {request[q].uid}
              /\ request[q].uid = user.uid \/ request[q].uid \in doubtful
              /\ request[q].pc \notin {"password", "revokeAll"}

(* A step that neither mails nor makes nor takes back an account.          *)
LEMMA AsideKeeps ==
    ASSUME TInv, StayInv, NEW q \in Requests, NEW n, Into(q, n), ~ n.first,
           n.pc \notin {"mail", "rollback"},
           n.pc \in Telling => n.uid = user.uid,
           \/ n.uid = request[q].uid /\ request[q].pc \notin {"password", "revokeAll"}
           \/ n.uid = 0
           \/ n.pc \in {"password", "revokeAll"}
           \/ \A d \in Requests : ~ Certain(d),
           user'.uid = user.uid,
           \A d \in Requests \ {q} : Certain(d) => user'.status = user.status
                                                   /\ user'.link = user.link,
           UNCHANGED <<mailed, doubtful>>, Told(q)
    PROVE  StayInv'
<1>1. \A d \in Requests : request'[d] = IF d = q THEN n ELSE request[d]
  BY IntoOne
<1>2. answered' \ doubtful' \subseteq {user'.uid}
  BY DEF StayInv, Told
<1>3. ASSUME NEW d \in Requests, Certain(d)'
      PROVE  Alone(d)'
  <2>1. d # q /\ request'[d] = request[d] /\ Certain(d)
    BY <1>1, <1>3 DEF Certain
  <2>2. /\ Alone(d) /\ user'.uid = user.uid /\ user'.status = user.status
        /\ user'.link = user.link
    BY <2>1 DEF StayInv
  <2>3. request[d].uid = user.uid /\ user.uid # 0
    BY <2>1, <2>2, Facts DEF Alone, Certain, Fits, OnAccount
  <2>4. user.uid \notin answered'
    BY <2>1, <2>2 DEF Alone, Told
  <2>5. \A r \in Requests \ {d} :
           request'[r].uid = user.uid => request'[r].pc \in {"password", "revokeAll"}
    BY <1>1, <2>1, <2>2, <2>3 DEF Alone
  <2>6. QED
    BY <2>1, <2>2, <2>4, <2>5 DEF Alone
<1>4. \A d \in Requests : request'[d].pc \in Telling /\ ~ request'[d].first =>
         request'[d].uid = user'.uid \/ request'[d].uid \in doubtful'
  BY <1>1 DEF StayInv
<1>5. \A d, r \in Requests :
         /\ request'[d].pc \in {"mail", "rollback"}
         /\ request'[r].pc \in {"mail", "rollback"}
         /\ request'[d].link = request'[r].link
         => d = r
  BY <1>1 DEF StayInv
<1>6. QED
  BY <1>2, <1>3, <1>4, <1>5 DEF StayInv

(* A request is over.                                                      *)
LEMMA OverKeeps ==
    ASSUME TInv, StayInv, NEW q \in Requests, Into(q, Idle), user' = user,
           UNCHANGED <<mailed, doubtful>>, Told(q)
    PROVE  StayInv'
<1>1. ~ Idle.first /\ Idle.uid = 0 /\ Idle.pc \notin {"mail", "rollback"} /\ Idle.pc \notin Telling
  BY IdleFits DEF Telling
<1>2. PICK n : n = Idle
  OBVIOUS
<1>3. QED
  BY <1>1, <1>2, AsideKeeps

(* A request begins with the account that is there.                        *)
LEMMA BegunKeeps ==
    ASSUME TInv, StayInv, NEW q \in Requests, NEW step, Begun(q, step, user.uid),
           step \notin {"mail", "rollback"}, user' = user,
           step \in {"password", "revokeAll"} \/ \A d \in Requests : ~ Certain(d),
           UNCHANGED <<mailed, doubtful, answered>>
    PROVE  StayInv'
<1>1. PICK n : Into(q, n) /\ n.pc = step /\ n.uid = user.uid /\ ~ n.first
  BY DEF Begun
<1>2. Told(q)
  BY DEF Told
<1>3. QED
  BY <1>1, <1>2, AsideKeeps

(* A request begins, and puts in doubt the registration it finds.          *)
LEMMA DoubtKeeps ==
    ASSUME TInv, StayInv, NEW q \in Requests, NEW step, Begun(q, step, user.uid),
           step \notin {"mail", "rollback"},
           UNCHANGED <<user, mailed, answered>>,
           doubtful' = IF Making(user.uid) THEN doubtful \union {user.uid} ELSE doubtful
    PROVE  StayInv'
<1>1. PICK n : Into(q, n) /\ n.pc = step /\ n.uid = user.uid /\ ~ n.first
  BY DEF Begun
<1>2. \A d \in Requests : request'[d] = IF d = q THEN n ELSE request[d]
  BY <1>1, IntoOne
<1>3. \A d \in Requests : ~ Certain(d)'
  <2> SUFFICES ASSUME NEW d \in Requests, Certain(d)'
               PROVE  FALSE
    OBVIOUS
  <2>1. d # q /\ request'[d] = request[d] /\ Certain(d)
    BY <1>1, <1>2 DEF Certain
  <2>2. request[d].first /\ request[d].uid = user.uid
    BY <2>1 DEF StayInv, Certain, Alone
  <2>3. Making(user.uid)
    BY <2>2 DEF Making
  <2>4. QED
    BY <2>1, <2>2, <2>3 DEF Certain
<1>4. \A d \in Requests : request'[d].pc \in Telling /\ ~ request'[d].first =>
         request'[d].uid = user'.uid \/ request'[d].uid \in doubtful'
  BY <1>1, <1>2 DEF StayInv
<1>5. \A d, r \in Requests :
         /\ request'[d].pc \in {"mail", "rollback"}
         /\ request'[r].pc \in {"mail", "rollback"}
         /\ request'[d].link = request'[r].link
         => d = r
  BY <1>1, <1>2 DEF StayInv
<1>6. QED
  BY <1>3, <1>4, <1>5 DEF StayInv

(* Nobody is certain where no account is, or one that is known.            *)
LEMMA NoneCertain ==
    ASSUME TInv, StayInv,
           user.uid = 0 \/ user.status # "pending" \/ user.link \in mailed
    PROVE  \A d \in Requests : ~ Certain(d)
<1> SUFFICES ASSUME NEW d \in Requests, Certain(d)
             PROVE  FALSE
  OBVIOUS
<1>1. Alone(d) /\ request[d].uid # 0
  BY Facts DEF StayInv, Certain, Fits, OnAccount
<1>2. QED
  BY <1>1 DEF Alone

(* An account made anew is of no request, and nobody was told of it.       *)
LEMMA FreshAccount ==
    ASSUME TInv, StayInv, user.uid = 0
    PROVE  /\ answered \ doubtful = {} /\ users + 1 \notin answered
           /\ links + 1 \notin mailed
           /\ \A d \in Requests : request[d].uid # users + 1 /\ request[d].link # links + 1
<1>1. answered \subseteq 1 .. users /\ mailed \subseteq 1 .. links
  BY DEF TInv, SharedTyped
<1>2. \A d \in Requests : request[d].uid <= users /\ request[d].link <= links
  BY Facts DEF Fits
<1>3. users \in Nat /\ links \in Nat
  BY Facts
<1>4. answered \ doubtful = {}
  BY <1>1 DEF StayInv
<1>5. QED
  BY <1>1, <1>2, <1>3, <1>4, Facts

(* A registration makes its account.                                       *)
LEMMA CreateStays ==
    ASSUME TInv, StayInv, NEW q \in Requests, Create(q)
    PROVE  StayInv'
<1>1. UNCHANGED <<mailed, answered, doubtful>>
  BY DEF Create, post, flags
<1>2. CASE Into(q, Idle) /\ UNCHANGED account
  BY <1>1, <1>2, OverKeeps DEF account, Told
<1>3. CASE /\ user.uid = 0
           /\ user'.uid = users + 1 /\ user'.status = "pending" /\ user'.link = links + 1
           /\ Mailed(q, users + 1, links + 1, TRUE)
  <2>1. PICK uid, link : uid = users + 1 /\ link = links + 1
    OBVIOUS
  <2>2. PICK n : /\ Into(q, n) /\ n.pc = "mail" /\ n.uid = uid /\ n.link = link
                 /\ n.first = TRUE
    BY <1>3, <2>1 DEF Mailed
  <2>3. \A d \in Requests : request'[d] = IF d = q THEN n ELSE request[d]
    BY <2>2, IntoOne
  <2>4. /\ answered \ doubtful = {} /\ uid \notin answered /\ link \notin mailed
        /\ \A d \in Requests : request[d].uid # uid /\ request[d].link # link
    BY <1>3, <2>1, FreshAccount
  <2>5. \A d \in Requests : ~ Certain(d)
    BY <1>3, NoneCertain
  <2>6. \A d \in Requests : Certain(d)' => d = q
    BY <1>1, <2>3, <2>5 DEF Certain
  <2>7. Alone(q)'
    BY <1>1, <1>3, <2>1, <2>2, <2>3, <2>4 DEF Alone
  <2>8. \A d \in Requests : request'[d].pc \in Telling /\ ~ request'[d].first =>
           request'[d].uid \in doubtful'
    <3> SUFFICES ASSUME NEW d \in Requests, request'[d].pc \in Telling, ~ request'[d].first
                 PROVE  request'[d].uid \in doubtful'
      OBVIOUS
    <3>1. d # q /\ request'[d] = request[d]
      BY <2>2, <2>3
    <3>2. CASE request[d].uid = user.uid
      BY <1>3, <3>1, <3>2, Facts DEF Telling, Fits, OnAccount
    <3>3. QED
      BY <1>1, <3>1, <3>2 DEF StayInv
  <2>9. \A d, r \in Requests :
           /\ request'[d].pc \in {"mail", "rollback"}
           /\ request'[r].pc \in {"mail", "rollback"}
           /\ request'[d].link = request'[r].link
           => d = r
    BY <2>2, <2>3, <2>4 DEF StayInv
  <2>10. QED
    BY <1>1, <2>4, <2>6, <2>7, <2>8, <2>9 DEF StayInv
<1>4. QED
  BY <1>2, <1>3, CreateDoes

(* Another link is mailed for an account that is taken up.                 *)
LEMMA MailedStays ==
    ASSUME TInv, StayInv, NEW q \in Requests, Mailed(q, request[q].uid, links + 1, FALSE),
           request[q].pc \in {"reuse", "renew"}, Kept(request[q].uid),
           UNCHANGED <<mailed, answered, doubtful>>
    PROVE  StayInv'
<1>1. PICK link : link = links + 1
  OBVIOUS
<1>2. PICK n : /\ Into(q, n) /\ n.pc = "mail" /\ n.uid = request[q].uid /\ n.link = link
               /\ ~ n.first
  BY <1>1 DEF Mailed
<1>3. \A d \in Requests : request'[d] = IF d = q THEN n ELSE request[d]
  BY <1>2, IntoOne
<1>4. \A d \in Requests : request[d].link # link
  <2>1. \A d \in Requests : request[d].link <= links /\ request[d].link \in Nat
    BY Facts DEF Fits
  <2>2. QED
    BY <1>1, <2>1, Facts
<1>5. /\ user'.uid = user.uid
      /\ user.uid # request[q].uid => user' = user
  BY DEF Kept
<1>6. ~ request[q].first /\ request[q].pc \in Telling
  BY Facts DEF Fits, Telling
<1>7. ASSUME NEW d \in Requests, Certain(d)'
      PROVE  Alone(d)'
  <2>1. d # q /\ request'[d] = request[d] /\ Certain(d)
    BY <1>2, <1>3, <1>7 DEF Certain
  <2>2. Alone(d)
    BY <2>1 DEF StayInv
  <2>3. request[q].uid # user.uid
    BY <2>1, <2>2 DEF Alone
  <2>4. QED
    BY <1>2, <1>3, <1>5, <2>1, <2>2, <2>3 DEF Alone
<1>8. \A d \in Requests : request'[d].pc \in Telling /\ ~ request'[d].first =>
         request'[d].uid = user'.uid \/ request'[d].uid \in doubtful'
  BY <1>2, <1>3, <1>5, <1>6 DEF StayInv
<1>9. \A d, r \in Requests :
         /\ request'[d].pc \in {"mail", "rollback"}
         /\ request'[r].pc \in {"mail", "rollback"}
         /\ request'[d].link = request'[r].link
         => d = r
  BY <1>2, <1>3, <1>4 DEF StayInv
<1>10. QED
  BY <1>5, <1>7, <1>8, <1>9 DEF StayInv

(* An e-mail tells the user, or is in doubt, or is not sent.               *)
LEMMA SendMailStays ==
    ASSUME TInv, StayInv, NEW q \in Requests, SendMail(q)
    PROVE  StayInv'
<1>1. /\ UNCHANGED user /\ request[q].pc = "mail" /\ request[q].pc \in Telling
      /\ request[q].uid # 0
  BY Facts DEF SendMail, account, At, Telling, Fits, OnAccount
<1>2. PICK n : /\ Into(q, n)
               /\ \/ n = Idle
                  \/ /\ n.pc = "rollback" /\ n.first /\ request[q].first
                     /\ n.uid = request[q].uid /\ n.link = request[q].link
               /\ Leave(q) => n = Idle
  <2>1. CASE Leave(q)
    <3>1. Idle \in Request
      BY IdleFits, Facts DEF Fits
    <3>2. QED
      BY <2>1, <3>1 DEF Leave, Into
  <2>2. CASE ~ Leave(q)
    <3>1. request[q].first /\ Gone(q, "rollback")
      BY <2>2, SendMailDoes DEF SendMail, NotSent, Into, Leave
    <3>2. PICK n : /\ Into(q, n) /\ n.pc = "rollback" /\ n.uid = request[q].uid
                   /\ n.link = request[q].link /\ n.first = request[q].first
      BY <3>1 DEF Gone
    <3>3. QED
      BY <2>2, <3>1, <3>2
  <2>3. QED
    BY <2>1, <2>2
<1>3. \A d \in Requests : request'[d] = IF d = q THEN n ELSE request[d]
  BY <1>2, IntoOne
<1>4. Idle.pc = "idle" /\ ~ Idle.first /\ Idle.uid = 0
  BY IdleFits
<1>5. request[q].uid = user.uid \/ request[q].uid \in doubtful
  <2>1. CASE request[q].first
    BY <2>1 DEF StayInv, Certain, Alone
  <2>2. CASE ~ request[q].first
    BY <1>1, <2>2 DEF StayInv
  <2>3. QED
    BY <2>1, <2>2
<1>6. /\ doubtful \subseteq doubtful'
      /\ mailed' \subseteq mailed \union {request[q].link}
      /\ answered' \subseteq answered \union {request[q].uid}
      /\ n = Idle \/ request[q].uid \in doubtful' \/ UNCHANGED <<mailed, answered>>
  BY <1>2 DEF SendMail, Sent, post
<1>7. answered' \ doubtful' \subseteq {user'.uid}
  BY <1>1, <1>5, <1>6 DEF StayInv
<1>8. ASSUME NEW d \in Requests, Certain(d)'
      PROVE  Alone(d)'
  <2>1. /\ Certain(d) /\ request'[d].uid = request[d].uid
        /\ request'[d].link = request[d].link
    BY <1>2, <1>3, <1>4, <1>6, <1>8 DEF Certain
  <2>2. Alone(d) /\ request[d].pc \in {"mail", "rollback"}
    BY <2>1, Facts DEF StayInv, Certain, Fits
  <2>3. \A r \in Requests \ {d} :
           request'[r].uid = user.uid => request'[r].pc \in {"password", "revokeAll"}
    <3>1. CASE d = q
      BY <1>3, <2>2, <3>1 DEF Alone
    <3>2. CASE d # q
      BY <1>1, <1>2, <1>3, <1>4, <2>2, <3>2, Facts DEF Alone, UserFits
    <3>3. QED
      BY <3>1, <3>2
  <2>4. user.link \notin mailed' /\ user.uid \notin answered'
    <3>1. CASE d = q
      BY <1>2, <1>3, <1>4, <1>6, <1>8, <2>2, <3>1 DEF Certain, Alone
    <3>2. CASE d # q
      <4>1. request[q].link # user.link
        BY <1>1, <2>2, <3>2 DEF StayInv, Alone
      <4>2. request[q].uid # user.uid
        BY <1>1, <2>2, <3>2 DEF Alone
      <4>3. QED
        BY <1>6, <2>2, <4>1, <4>2 DEF Alone
    <3>3. QED
      BY <3>1, <3>2
  <2>5. QED
    BY <1>1, <2>1, <2>2, <2>3, <2>4 DEF Alone
<1>9. \A d \in Requests : request'[d].pc \in Telling /\ ~ request'[d].first =>
         request'[d].uid = user'.uid \/ request'[d].uid \in doubtful'
  BY <1>1, <1>2, <1>3, <1>4, <1>6 DEF StayInv, Telling
<1>10. \A d, r \in Requests :
          /\ request'[d].pc \in {"mail", "rollback"}
          /\ request'[r].pc \in {"mail", "rollback"}
          /\ request'[d].link = request'[r].link
          => d = r
  BY <1>1, <1>2, <1>3, <1>4 DEF StayInv
<1>11. QED
  BY <1>7, <1>8, <1>9, <1>10 DEF StayInv

(* An account that is taken back is one nobody else works on, or in doubt. *)
LEMMA RollbackStays ==
    ASSUME TInv, StayInv, NEW q \in Requests, Rollback(q)
    PROVE  StayInv'
<1>1. /\ UNCHANGED <<mailed, answered, doubtful>> /\ Into(q, Idle)
      /\ request[q].first /\ request[q].pc = "rollback"
  BY RollbackDoes DEF Rollback, post, flags, At
<1>2. CASE user' = user
  BY <1>1, <1>2, OverKeeps DEF Told
<1>3. CASE user.uid = request[q].uid /\ user' = NoUser
  <2>1. \A d \in Requests : request'[d] = IF d = q THEN Idle ELSE request[d]
    BY <1>1, IntoOne
  <2>2. NoUser.uid = 0 /\ Idle.pc = "idle" /\ ~ Idle.first
    BY IdleFits DEF NoUser
  <2>3. answered \ doubtful = {}
    BY <1>1, <1>3 DEF StayInv, Certain, Alone
  <2>4. \A d \in Requests : ~ Certain(d)'
    <3> SUFFICES ASSUME NEW d \in Requests, Certain(d)'
                 PROVE  FALSE
      OBVIOUS
    <3>1. d # q /\ Certain(d)
      BY <1>1, <2>1, <2>2 DEF Certain
    <3>2. Alone(d)
      BY <3>1 DEF StayInv
    <3>3. QED
      BY <1>1, <1>3, <3>1, <3>2 DEF Alone
  <2>5. \A d \in Requests : request'[d].pc \in Telling /\ ~ request'[d].first =>
           request'[d].uid \in doubtful'
    <3> SUFFICES ASSUME NEW d \in Requests, request'[d].pc \in Telling, ~ request'[d].first
                 PROVE  request'[d].uid \in doubtful'
      OBVIOUS
    <3>1. d # q /\ request'[d] = request[d]
      BY <2>1, <2>2 DEF Telling
    <3>2. request[d].uid = user.uid \/ request[d].uid \in doubtful
      BY <3>1 DEF StayInv
    <3>3. CASE request[d].uid = user.uid /\ user.uid \notin doubtful
      BY <1>1, <1>3, <3>1, <3>3 DEF StayInv, Certain, Alone, Telling
    <3>4. QED
      BY <1>1, <3>1, <3>2, <3>3
  <2>6. \A d, r \in Requests :
           /\ request'[d].pc \in {"mail", "rollback"}
           /\ request'[r].pc \in {"mail", "rollback"}
           /\ request'[d].link = request'[r].link
           => d = r
    BY <2>1, <2>2 DEF StayInv
  <2>7. QED
    BY <1>1, <2>3, <2>4, <2>5, <2>6 DEF StayInv
<1>4. QED
  BY <1>2, <1>3, RollbackDoes

(* A request goes on with the account it has.                              *)
LEMMA GoneKeeps ==
    ASSUME TInv, StayInv, NEW q \in Requests, NEW step, Gone(q, step),
           step \in {"activate", "session", "reissue"},
           request[q].pc \notin {"mail", "rollback", "password", "revokeAll"},
           Kept(request[q].uid), UNCHANGED <<mailed, doubtful, answered>>
    PROVE  StayInv'
<1>1. PICK n : Into(q, n) /\ n.pc = step /\ n.uid = request[q].uid /\ n.first = request[q].first
  BY DEF Gone
<1>2. ~ n.first /\ n.pc \notin {"mail", "rollback"} /\ n.pc \notin Telling
  BY <1>1, Facts DEF Fits, Telling
<1>3. \A d \in Requests \ {q} : Certain(d) => user' = user
  <2> SUFFICES ASSUME NEW d \in Requests \ {q}, Certain(d)
               PROVE  user' = user
    OBVIOUS
  <2>1. Alone(d)
    BY DEF StayInv
  <2>2. request[q].uid # user.uid
    BY <2>1 DEF Alone
  <2>3. QED
    BY <2>2 DEF Kept
<1>4. Told(q) /\ user'.uid = user.uid
  BY DEF Told, Kept
<1>5. QED
  BY <1>1, <1>2, <1>3, <1>4, AsideKeeps

(* An account found by OAuth is adopted, or one is made that is verified.  *)
LEMMA AdoptOrCreateStays ==
    ASSUME TInv, StayInv, NEW q \in Requests, AdoptOrCreate(q)
    PROVE  StayInv'
<1>1. UNCHANGED <<mailed, answered, doubtful>> /\ request[q].pc = "adopt"
  BY DEF AdoptOrCreate, post, flags, At
<1>2. CASE Kept(request[q].uid) /\ (Gone(q, "activate") \/ Gone(q, "session"))
  <2>1. PICK step \in {"activate", "session"} : Gone(q, step)
    BY <1>2
  <2>2. QED
    BY <1>1, <1>2, <2>1, GoneKeeps
<1>3. CASE Into(q, Idle) /\ UNCHANGED <<user, users, orgs, wallets>>
  BY <1>1, <1>3, OverKeeps DEF Told
<1>4. CASE user.uid = 0 /\ Begun(q, "session", users + 1)
  <2>1. PICK n : Into(q, n) /\ n.pc = "session" /\ ~ n.first
    BY <1>4 DEF Begun
  <2>2. \A d \in Requests : request'[d] = IF d = q THEN n ELSE request[d]
    BY <2>1, IntoOne
  <2>3. answered \ doubtful = {} /\ \A d \in Requests : ~ Certain(d)
    BY <1>4, FreshAccount, NoneCertain
  <2>4. \A d \in Requests : ~ Certain(d)'
    BY <1>1, <2>1, <2>2, <2>3 DEF Certain
  <2>5. \A d \in Requests : request'[d].pc \in Telling /\ ~ request'[d].first =>
           request'[d].uid \in doubtful'
    <3> SUFFICES ASSUME NEW d \in Requests, request'[d].pc \in Telling, ~ request'[d].first
                 PROVE  request'[d].uid \in doubtful'
      OBVIOUS
    <3>1. d # q /\ request'[d] = request[d]
      BY <2>1, <2>2 DEF Telling
    <3>2. request[d].uid # 0
      BY <3>1, Facts DEF Telling, Fits, OnAccount
    <3>3. QED
      BY <1>1, <1>4, <3>1, <3>2 DEF StayInv
  <2>6. \A d, r \in Requests :
           /\ request'[d].pc \in {"mail", "rollback"}
           /\ request'[r].pc \in {"mail", "rollback"}
           /\ request'[d].link = request'[r].link
           => d = r
    BY <2>1, <2>2 DEF StayInv
  <2>7. QED
    BY <1>1, <2>3, <2>4, <2>5, <2>6 DEF StayInv
<1>5. QED
  BY <1>2, <1>3, <1>4, AdoptOrCreateDoes

(* A link that works verifies an account that is there, or in doubt.       *)
LEMMA VerifyStays ==
    ASSUME TInv, StayInv, NEW q \in Requests, Verify(q)
    PROVE  StayInv'
<1>1. /\ UNCHANGED <<mailed, doubtful>> /\ request[q].pc = "verify"
      /\ answered' = answered \union {request[q].uid}
      /\ Into(q, Idle) /\ Kept(request[q].uid)
  BY VerifyDoes DEF Verify, flags, At
<1>2. request[q].uid = user.uid \/ request[q].uid \in doubtful
  BY <1>1, Facts DEF StayInv, Telling, Fits
<1>3. Told(q) /\ user'.uid = user.uid
  BY <1>1, <1>2 DEF Told, Kept
<1>4. \A d \in Requests \ {q} : Certain(d) => user' = user
  <2> SUFFICES ASSUME NEW d \in Requests \ {q}, Certain(d)
               PROVE  user' = user
    OBVIOUS
  <2>1. Alone(d)
    BY DEF StayInv
  <2>2. request[q].uid # user.uid
    BY <1>1, <2>1 DEF Alone
  <2>3. QED
    BY <1>1, <2>2 DEF Kept
<1>5. PICK n : n = Idle
  OBVIOUS
<1>6. /\ Into(q, n) /\ ~ n.first /\ n.uid = 0 /\ n.pc \notin {"mail", "rollback"}
      /\ n.pc \notin Telling
  BY <1>1, <1>5, IdleFits DEF Telling
<1>7. QED
  BY <1>1, <1>3, <1>4, <1>6, AsideKeeps

(* A session is made of an account that is there.                          *)
LEMMA NewSessionStays ==
    ASSUME TInv, StayInv, NEW q \in Requests, NewSession(q)
    PROVE  StayInv'
<1>1. UNCHANGED <<user, mailed, doubtful>> /\ request[q].pc = "session"
  BY DEF NewSession, account, flags, At
<1>2. Into(q, Idle) /\ Told(q)
  BY <1>1, NewSessionDoes DEF Told
<1>3. QED
  BY <1>1, <1>2, OverKeeps

(* A reset writes its own part of the row.                                 *)
LEMMA ChangePasswordStays ==
    ASSUME TInv, StayInv, NEW q \in Requests, ChangePassword(q)
    PROVE  StayInv'
<1>1. /\ UNCHANGED <<mailed, answered, doubtful>>
      /\ user' = [user EXCEPT !.reset = FALSE] \/ user' = user
  BY DEF ChangePassword, post, flags, Update
<1>2. user'.uid = user.uid /\ user'.status = user.status /\ user'.link = user.link
  BY <1>1, Facts DEF User
<1>3. PICK n : /\ Into(q, n) /\ n.pc = "revokeAll" /\ n.first = request[q].first
  BY ChangePasswordDoes DEF Gone
<1>4. ~ n.first /\ n.pc \notin Telling /\ n.pc \in {"password", "revokeAll"}
  BY <1>3, Facts DEF ChangePassword, At, Fits, Telling
<1>5. Told(q)
  BY <1>1 DEF Told
<1>6. QED
  BY <1>1, <1>2, <1>3, <1>4, <1>5, AsideKeeps

(* Nothing of it changes but the row, in what no one looks at.             *)
LEMMA SameStays ==
    ASSUME StayInv, UNCHANGED <<mailed, answered, doubtful, request>>,
           user'.uid = user.uid, user'.status = user.status, user'.link = user.link
    PROVE  StayInv'
<1>1. \A d \in Requests : Certain(d)' => Certain(d)
  BY DEF Certain
<1>2. \A d \in Requests : Alone(d) => Alone(d)'
  BY DEF Alone
<1>3. QED
  BY <1>1, <1>2 DEF StayInv

(* Every step keeps what is known of them.                                 *)
LEMMA StepStays == ASSUME TInv, StayInv, [Next]_vars PROVE StayInv'
<1>1. ASSUME NEW q \in Requests, Handle(q)
      PROVE  StayInv'
  <2>1. CASE ReadToRegister(q)
    <3>1. PICK step \in {"create", "reuse"} : Begun(q, step, user.uid)
      BY <2>1, ReadToRegisterDoes
    <3>2. step \notin {"mail", "rollback"}
      OBVIOUS
    <3>3. QED
      BY <2>1, <3>1, <3>2, DoubtKeeps DEF ReadToRegister, account, post
  <2>2. CASE Reuse(q)
    BY <2>2, ReuseDoes, MailedStays DEF Reuse, post, flags, At
  <2>3. CASE ReadToResend(q)
    <3>1. Begun(q, "renew", user.uid) /\ "renew" \notin {"mail", "rollback"}
      BY <2>3, ReadToResendDoes
    <3>2. QED
      BY <2>3, <3>1, DoubtKeeps DEF ReadToResend, account, post
  <2>4. CASE Renew(q)
    BY <2>4, RenewDoes, MailedStays DEF Renew, post, flags, At
  <2>5. CASE ReadLink(q)
    <3>1. Begun(q, "verify", user.uid) /\ "verify" \notin {"mail", "rollback"}
      BY <2>5, ReadLinkDoes
    <3>2. \A d \in Requests : ~ Certain(d)
      BY <2>5, NoneCertain DEF ReadLink
    <3>3. QED
      BY <2>5, <3>1, <3>2, BegunKeeps DEF ReadLink, account, post, flags
  <2>6. CASE ReadOAuth(q)
    <3>1. PICK step \in {"adopt", "session"} : Begun(q, step, user.uid)
      BY <2>6, ReadOAuthDoes
    <3>2. step \notin {"mail", "rollback"}
      OBVIOUS
    <3>3. QED
      BY <2>6, <3>1, <3>2, DoubtKeeps DEF ReadOAuth, account, post
  <2>7. CASE Activate(q)
    <3>1. /\ Gone(q, "session") /\ Kept(request[q].uid)
          /\ request[q].pc \notin {"mail", "rollback", "password", "revokeAll"}
          /\ UNCHANGED <<mailed, doubtful, answered>>
      BY <2>7, ActivateDoes DEF Activate, At, post, flags
    <3>2. "session" \in {"activate", "session", "reissue"}
      OBVIOUS
    <3>3. QED
      BY <3>1, <3>2, GoneKeeps
  <2>8. CASE ReadToLogin(q)
    <3>1. Begun(q, "session", user.uid) /\ "session" \notin {"mail", "rollback"}
      BY <2>8, ReadToLoginDoes
    <3>2. \A d \in Requests : ~ Certain(d)
      BY <2>8, NoneCertain DEF ReadToLogin
    <3>3. QED
      BY <2>8, <3>1, <3>2, BegunKeeps DEF ReadToLogin, account, post, flags
  <2>9. CASE ReadToken(q)
    <3>1. PICK n : Into(q, n) /\ n.pc = "revoke" /\ n.uid = 0 /\ ~ n.first
      BY <2>9, ReadTokenDoes
    <3>2. UNCHANGED <<user, mailed, doubtful, answered>> /\ n.pc \notin Telling
      BY <2>9, <3>1 DEF ReadToken, account, post, flags, Telling
    <3>3. Told(q)
      BY <3>2 DEF Told
    <3>4. QED
      BY <3>1, <3>2, <3>3, AsideKeeps
  <2>10. CASE Revoke(q)
    <3>1. /\ Gone(q, "reissue")
          /\ request[q].pc \notin {"mail", "rollback", "password", "revokeAll"}
          /\ UNCHANGED <<user, mailed, doubtful, answered>>
      BY <2>10, RevokeDoes DEF Revoke, At, account, post, flags
    <3>2. "reissue" \in {"activate", "session", "reissue"} /\ Kept(request[q].uid)
      BY <3>1 DEF Kept
    <3>3. QED
      BY <3>1, <3>2, GoneKeeps
  <2>11. CASE Reissue(q)
    BY <2>11, ReissueDoes, OverKeeps DEF Reissue, account, post, flags, Told
  <2>12. CASE ReadReset(q)
    <3>1. Begun(q, "password", user.uid) /\ "password" \notin {"mail", "rollback"}
      BY <2>12, ReadResetDoes
    <3>2. "password" \in {"password", "revokeAll"}
      OBVIOUS
    <3>3. QED
      BY <2>12, <3>1, <3>2, BegunKeeps DEF ReadReset, account, post, flags
  <2>13. CASE RevokeAll(q)
    BY <2>13, RevokeAllDoes, OverKeeps DEF RevokeAll, Ended, account, post, flags, Told
  <2>14. QED
    BY <1>1, <2>1, <2>2, <2>3, <2>4, <2>5, <2>6, <2>7, <2>8, <2>9, <2>10, <2>11, <2>12,
       <2>13, CreateStays, SendMailStays, RollbackStays, VerifyStays, AdoptOrCreateStays,
       NewSessionStays, ChangePasswordStays, Zenon DEF Handle
<1>2. CASE UNCHANGED vars
  BY <1>2, SameStays DEF vars
<1>3. CASE \E k \in DOMAIN tokens : Logout(k)
  BY <1>3, SameStays DEF Logout, account, post, flags
<1>4. CASE ForgotPassword
  BY <1>4, ForgotPasswordDoes, SameStays DEF post, flags
<1>5. CASE Crash
  <2>1. /\ UNCHANGED <<user, mailed, answered, doubtful>>
        /\ \A d \in Requests : request'[d] = Idle
    BY <1>5, CrashDoes DEF account, post, flags
  <2>2. Idle.pc = "idle" /\ ~ Idle.first
    BY IdleFits
  <2>3. \A d \in Requests : ~ Certain(d)'
    BY <2>1, <2>2 DEF Certain
  <2>4. QED
    BY <2>1, <2>2, <2>3 DEF StayInv, Telling
<1>6. QED
  BY <1>1, <1>2, <1>3, <1>4, <1>5 DEF Next

(* Nobody was told of anything at the start.                               *)
LEMMA InitStays == Init => StayInv
<1> SUFFICES ASSUME Init PROVE StayInv
  OBVIOUS
<1>1. answered = {} /\ \A q \in Requests : request[q] = Idle
  BY DEF Init
<1>2. Idle.pc = "idle" /\ ~ Idle.first
  BY IdleFits
<1>3. QED
  BY <1>1, <1>2 DEF StayInv, Certain, Telling

(* An account the user has been told of stays, unless it was in doubt.     *)
THEOREM AnsweredAccountsStay == Spec => []AnsweredAccountStays
<1>1. Init => TInv /\ StayInv
  BY InitTyped, InitStays
<1>2. TInv /\ StayInv /\ [Next]_vars => (TInv /\ StayInv)'
  BY StepTyped, StepStays
<1>3. StayInv => AnsweredAccountStays
  BY DEF StayInv, AnsweredAccountStays
<1>4. QED
  BY <1>1, <1>2, <1>3, PTL DEF Spec
==============================================================================
