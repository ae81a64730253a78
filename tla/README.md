# Nyife: formal models of its money, its messages and its accounts

Nyife is a multi-tenant WhatsApp marketing platform: Node.js services behind an
API gateway, MySQL, Redis and Kafka between them, a React frontend, and Meta's
WhatsApp API and Razorpay outside. This directory holds TLA+ models of the parts
whose correctness depends on interleavings, failures and repeated calls, the TLC
configurations that check them on small instances, and TLAPS proofs.

To check a run, e.g. the wallet: `tlc -config Wallet.cfg MCWallet.tla`.
To check the proofs: `tlapm WalletProofs.tla` (and the other `*Proofs.tla`). `PROJECT.json` is the index:
every definition with the lines it models, every run, its properties, and for
each property a plausible bug of the code (a "mutant") that TLC finds by it.
The mutants whose bodies are longer than an expression stand in the modules,
before the action they replace, and say "Mutant".

## 1. Inventory

| Component | State | Operations that change it | Interacts with | Hard behaviour | Correct when | Module |
| --- | --- | --- | --- | --- | --- | --- |
| wallet-service | wallets, postings, invoices (MySQL), cached balances (Redis) | recharge, verify, debit, credit, admin credit and debit | Razorpay; called by whatsapp-, subscription-, admin-service; topic `wallet.transaction` | concurrent charges, retried keys, crash before the answer, late cache fills, rollback | the balance is what the postings add up to; a key charges once; answers and events tell postings of the book | `Wallet` |
| campaign-service | campaigns with counters, one row per message (MySQL) | create, update, delete, start, pause, resume, cancel, retry; consumer of `campaign.status` | contact-, template-, wallet-, subscription-service (HTTP), whatsapp-service (Kafka and dispatch-state call) | reordered and repeated statuses, two writes per status, snapshots written back, operator racing consumers | counters follow rows; a campaign ends when, and only when, its messages are resolved; cancelled is final | `Campaign` |
| whatsapp-service, messages | wa_messages with billing state | consumer of `campaign.execute`, direct sends, status webhooks, reconciliation | Meta, wallet-, subscription-, campaign-service | crash after Meta's acceptance, webhook before the id is stored, refund after a lost answer, repeated reconciliation | a message is charged at what it cost, nothing goes out unpaid, and a campaign message is sent as often as it was asked for | `Messaging`, `Campaign` |
| subscription-service | plans, subscriptions, coupons, usage | checkout (Razorpay or wallet), change, cancel, renew, expire, count usage | wallet-service with idempotency keys, Razorpay | pending checkout resumed, charge whose answer is lost, overlapping renewal sweeps, usage read-modify-write | no plan without a payment, no wallet charge lost, a cycle renewed once, what is due does not stay active | `Subscription`, usage in `Messaging` |
| chat-service | conversations, messages | inbound and status events, send, read, close, assign | whatsapp-service, automation-service | duplicate events on two consumers, status before message, crash between row and count | each message once, counted once, a status that only moves forward | `Chat` |
| auth-service | users, refresh tokens, one-time links | register, verify, OAuth, login, refresh, logout, reset | user-, organization-, email-service | find/revoke/create of a refresh token in three statements, rollback of a registration whose e-mail failed | an account is whole, is not taken back from under its user; a log-in is one session; a reset ends sessions | `Accounts` |
| automation-service | automations, the waiting step of a contact in Redis (30 min) | match messages and forms, run and continue flows | whatsapp-, contact-service | replies and forms of one contact over one waiting step, failures and deaths between an action and its state, flows drawn as loops | a reply moves its flow on; a flow lets the messages behind it pass | `Automation` |
| whatsapp-service, accounts | WhatsApp accounts and credentials | onboarding, refresh, lifecycle webhooks | Meta | partial onboarding | one active account per number | - |
| user-, organization-, contact-, template-, support-, notification-, admin-service | rows of their own | mostly single-row reads and writes with validation | each other by HTTP, Kafka for notifications | imports and fan-out | - | - |
| email-, media-, analytics-service, api-gateway, shared, frontend, docker, scripts | little or none | I/O, rendering, routing, aggregated reads | all | - | - | - |

Main flow: an operator starts a campaign; campaign-service inserts a row per
contact, marks the campaign running and publishes one `campaign.execute` event
per row. whatsapp-service asks campaign-service whether the row may still be
sent, debits the wallet, calls Meta, stores Meta's id, counts the message in the
subscription's usage and publishes `queued` or `failed` on `campaign.status`.
Meta's webhooks move the row of wa_messages, settle its price, and become further
events of `campaign.status` and of chat-service's topics. campaign-service's
consumer writes the row, then the counters, and closes the campaign when no
message is unresolved. Beside it, a user registers (auth-service makes the
organization and wallet in the same transaction), recharges the wallet, and buys
plans that a timer renews from the wallet.

The hazards found in the code, each at its line, are in `PROJECT.json`; a hazard
that no property covers says why.

## 2. Plan

| # | Module | About | Uses | State |
| --- | --- | --- | --- | --- |
| 1 | `Ledger` | abstract: atomic postings with unique keys | - | done |
| 2 | `Wallet`, `MCWallet` | wallet-service in detail; implements `Ledger` | `Ledger` | done |
| 3 | `WalletProofs` | theorems about `Wallet` | `Wallet` | five theorems |
| 3 | `WalletAnswerProofs` | theorems about answers, invoices, events and the cache | `WalletProofs` | four theorems |
| 4 | `Campaign`, `MCCampaign` | campaign-service, the execution worker and the webhooks of one campaign | - | requests one at a time, but for one run |
| 5 | `Messaging`, `MCMessaging` | performAccountedSend, status webhooks, reconciliation, usage | the wallet as what `Ledger` promises: one posting or none | done |
| 6 | `MessagingProofs` | theorems about `Messaging` | `Messaging` | five theorems |
| 7 | `Subscription`, `MCSubscription` | checkout, renewal, cancellation for one user | the wallet's keys, as `KeyChargedOnce` proves them | done |
| 7 | `SubscriptionProofs` | theorems about `Subscription` | `Subscription` | five theorems |
| 8 | `Chat`, `MCChat` | inbound, outbound and status events of a contact | - | done |
| 9 | `ChatProofs` | theorems about `Chat` | `Chat` | five theorems |
| 10 | `Accounts`, `MCAccounts` | registration, verification, sessions of one address | - | done |
| 10 | `AccountsProofs` | theorems about `Accounts` | `Accounts` | five theorems |
| 11 | `Automation`, `MCAutomation` | flows of one contact, their waiting step, two partitions | - | done |
| 11 | `AutomationProofs` | theorems about `Automation` | `Automation` | two theorems |
| 12 | `CampaignProofs` | theorems about `Campaign` | `Campaign` | six theorems |
| - | runs of 4 with two request slots | concurrent starts, cancels and resumes | | one of them (`campaign_retries`) |

A module that meets another service through calls alone takes that service at
what its own module shows: a debit is one posting or none and its answer may be
lost (`Ledger`, `Wallet`), a key is charged once (`KeyChargedOnce`), a balance
that is read may be an old one of the cache (`CachedBalanceWasReal`).

## 3. What is modelled

In every module each `await` ends a step, so that handlers interleave there, and
a MySQL transaction that locks what it reads, or a statement, is one step. The
variables called "history" at their declaration are not in the code: they record
what a property has to know of the past.

### Ledger
What wallet-service promises: per owner a balance and an append-only list of
postings; `Post` appends one and moves the balance, all or nothing, never below
zero, and never with a key that is in the book.

### Wallet
`src/services/wallet-service/src/services/wallet.service.js`. State: the tables
(`wallets`, `balance`, `ledger`, `invoices`), Razorpay's `orders`, the Redis
`cache`, the announced `events`, and per handler in flight its program counter,
request, carried number and answer. A MySQL transaction that begins with
`FOR UPDATE` on the wallet row is one step, because the row lock serialises it
with every other transaction of that owner.

| Code | Actions |
| --- | --- |
| `debitWallet`, `creditWallet` | `ChargeRequest`, `LookupKey`, `Charge` (refused, key taken, or `Commit`), `RelookupKey`, `Invalidate`, `Announce` |
| `adminCredit` | `AdminCreditRequest`, `FindWallet`, `CreateWallet`, then as a credit without key; `adminDebit` is a debit without key |
| `getBalance` | `BalanceRequest`, `ReadCache`, `FindWallet`, `CreateWallet`, `FillCache` |
| `initiateRecharge` | `RechargeRequest`, `FindWallet`, `CreateWallet`, `CreateOrder` |
| `verifyRechargePayment` | `VerifyRequest`, `FetchOrder`, `CreditRecharge`, `Invalidate`, `Announce` |
| outside | `Pay` (Razorpay), `OrderElsewhere` (an order of the same key that subscription-service makes), `Expire` (the 60 s of the cache), `Crash` |

Redis and Kafka may fail at every use, as the `try` blocks expect. A key always
comes with the same charge (`KeyCharge`), as its callers build it from the id of
what they charge for. Signatures, formatting, listings and pagination are left
out. `verifyRechargePayment` looks at the signature, at whether Razorpay says
`paid`, and at the order's notes, for which it takes the total when they name no
base (line 253); it does not compare the caller with the notes, and keeps no record
of the orders it credited. So `VerifyRequest` lets any user verify any order of the
key, a subscription's too, and again; `Credited` is what is credited then.

### Campaign
`campaign.service.js` and `server.js` of campaign-service,
`campaignExecution.service.js`, `message.service.js`, `webhook.service.js` and
`server.js` of whatsapp-service, for one campaign. State: the campaign's `status`
and `counts`, its `row`s, the operator requests in flight (`op`), the backlog of
`campaign.execute` per row (`execute`), the worker's position per row (`worker`),
Meta's acceptances (`sends`) and outstanding reports (`due`), the ids stored in
wa_messages (`recorded`), and `campaign.status` with its consumers (`topic`,
`handler`), one queue per message key as Kafka orders events by key only.

| Code | Actions |
| --- | --- |
| `startCampaign` | `Request`, `Reject`, `InsertRows`, `MarkRunning`, `Publish` |
| `pauseCampaign` | `Request`, `Pause` |
| `resumeCampaign` | `Request`, `Reject`, `FindPending`, then `TallyFailed`, `Conclude` or `MarkRunning`, `Publish` |
| `cancelCampaign` | `Request`, `FailRows`, `Cancel` |
| `retryCampaign` | `Request`, `Reject`, `SelectFailed`, `ResetRows`, `Rerun`, `Publish` |
| `processCampaignExecuteMessage`, `getCampaignExecutionDispatchState`, `performAccountedSend` | `Dispatch`, `Accept`, `Refuse`, `Record`, `Tell` |
| whatsapp-service `handleStatusUpdate` | `Webhook` |
| campaign-service `handleStatusUpdate`, `processStatusUpdate` | `ReadRow`, `WriteRow`, `WriteCounters`, `Reload`, `Finalise` |
| faults | `CampaignServiceCrash`, `WhatsAppServiceCrash`, `HandlerError`, and alternatives of `Publish`, `Accept`, `Record`, `Tell`, `Webhook` |

`instance.update` of Sequelize writes the columns that differ from the snapshot
the handler read; `Assigned` models this, which is why snapshots are kept. SQL
expressions (`failed_count + n`, `GREATEST(...)`) act on the current row. The
validation of account, template, limits and prices is the choice of `Reject` and
`Refuse`.

### Messaging
What a message costs: `performAccountedSend`, `updateMessageStatus` and
`reconcileMessageBilling` of `message.service.js` in whatsapp-service, the status
part of `webhook.service.js`, and `incrementUsage` of
subscription-service. State: the `row`s of wa_messages with their billing
columns, one owner's wallet (`balance`), its postings per message (`book`) and what
they add up to (`paid`, a history variable that only a posting moves),
the active `plan`, the subscription's `usage`, Meta's acceptances with the pricing it will report
(`accepted`), the sends in flight (`sender`) and the webhook statuses in flight
(`hook`).

| Code | Actions |
| --- | --- |
| `getMessageLimitState`, `getWalletBalance`, `WaMessage.create` | `Begin` |
| debit of the estimate, its failure | `Debit`, `MarkDebited` |
| `axios.post` to Meta | `CallMeta` (refused, accepted, accepted with the answer lost) |
| storing Meta's id, `incrementUsage`, `usage_applied` | `Record`, `ReadUsage`, `WriteUsage`, `Apply` |
| the `catch` block | `Refund`, `Fail` |
| `handleStatusUpdate`, `updateMessageStatus` | `FindRow`, `UpdateStatus` |
| `reconcileMessageBilling` | `SettleFree`, `Reconcile`, `WriteBilling` |
| outside | `ChangePlan`: another plan, or another price list of it, becomes active |
| faults | alternatives of `Debit`, `CallMeta`, `ReadUsage`, `WriteUsage`, `Refund`, `Reconcile`; `Crash` |

A webhook that does not name a category is settled at the estimated one, and each
settlement takes the price from the plan that is active then
(`message.service.js:1171-1203`), which `ChangePlan` may have changed since the
estimate or since the last webhook. The usage is not reset at the turn of a month.

### Subscription
`subscription.service.js` of subscription-service, for one user: the user's
subscription `rows`, the keys of posted debits (`book`), Razorpay orders and
payments (`ordered`, `paid`), the coupon's `used` count, the clock (`now`), the
requests in flight and the sweeps of `checkAndExpireSubscriptions`.

| Code | Actions |
| --- | --- |
| `subscribe`, `changePlan` | `Subscribe`, `ChangePlan`, then the checkout |
| `resumePendingWalletCheckout`, `removePendingSubscriptions` | `FindPending`, `RemovePending` |
| `validateCouponInternal`, `createPendingSubscription` | `RefuseCoupon`, `CreatePending` |
| `finalizeWalletPendingSubscription` | `Debit`, `Activate`, and `Fallback` where Razorpay is allowed |
| `createRazorpayOrderForSubscription`, `verifyPayment` | `Order`, `VerifyPayment`; `Pay` is the user's |
| `activateCheckoutSubscription` | `ActivateCheckout`, in `Activate` and `VerifyPayment` |
| `cancelSubscription`, `updateAutoRenew` | `ReadToCancel`, `Cancel`, `ReadToSwitch`, `SwitchAutoRenew` |
| `checkAndExpireSubscriptions`, `processRenewalCandidate`, `ensureRenewalAttempt`, `finalizeRenewalSuccess`, `handleRenewalFailure` | `BeginSweep`, `ProcessCandidate` (`Expire`, `Wait`, `Withdrawn`, `EnsureAttempt`), `Charge`, `Renew`, `RenewalFailed` |
| outside | `Tick`, `Crash` |

What the wallet holds depends on everything else it pays for, so that a debit may
be refused at any time. `verifyPayment` checks the signature over the order and
payment ids the client sends, and no more: neither that they are of the row it is
asked to activate, nor their amount, nor that they were not used before
(lines 634-671). `VerifyPayment` therefore activates any pending row once the key has
some payment; `Elsewhere` says whether it had one from the start, of an earlier
subscription or a recharge.

### Chat
`chat.service.js` and the consumers in `server.js` of chat-service, for one
contact and one WhatsApp account: `conversations` with their unread count,
`messages` with the Meta id and status, the messages of agents Meta `accepted`,
and the handlers in flight. Kafka delivers at least once; one partition per
account for inbound messages, one per message for statuses; a partition that is
reassigned may be handled by two consumers for a while. A statement of a handler
may fail at any step: the consumer logs it and the offset is committed
(`server.js:59-71`). A conversation that was just opened holds `unread_count` 1 from
its creation, and the update after its first message sets the same 1, which Sequelize
does not write: whoever has read the conversation in between keeps his 0 (`Count`,
and `hasty`, which records it).

| Code | Actions |
| --- | --- |
| the consumers | `DeliverInbound`, `DeliverStatus` |
| `handleInboundMessage`, `syncCampaignOutboundMessage` | `FindConversation`, `OpenConversation`, `Lookup`, `Insert`, `Count` |
| `handleStatusUpdate` | `FindMessage`, `Move` |
| `sendMessage` | `BeginSend`, `CallWhatsapp`, `Link` |
| `markAsRead`, `updateConversationStatus` | `MarkAsRead`, `UpdateConversationStatus` |
| faults | the alternative of `Deliver` (a partition reassigned), of `CallWhatsapp` (answer lost), `HandlerFails`, `Crash` |

### Accounts
`auth.service.js` of auth-service, for one e-mail address: the `user` row with
that address, the organizations and wallets made for it, verification links made
and `mailed`, refresh `tokens`, and the requests in flight.

| Code | Actions |
| --- | --- |
| `register` | `ReadToRegister`, `Create` or `Reuse`, `SendMail`, `Rollback` |
| `resendVerificationEmail`, `verifyEmail` | `ReadToResend`, `Renew`, `SendMail`; `ReadLink`, `Verify` |
| `findOrCreateOAuthUser` | `ReadOAuth`, `AdoptOrCreate`, `Activate` |
| `login`, `refreshAccessToken`, `logout` | `ReadToLogin`, `NewSession`; `ReadToken`, `Revoke`, `Reissue`; `Logout` |
| `forgotPassword`, `resetPassword` | `ForgotPassword`; `ReadReset`, `ChangePassword`, `RevokeAll` |
| faults | alternatives of `SendMail` and `Rollback`, `Crash` |

### Automation
`automation.service.js`, `flowEngine.js` and the consumer in `server.js` of
automation-service, for one contact: the `automation`s and the flows drawn in
them, the flow that is `waiting` in Redis, the offsets `committed` of the two
partitions, and for each `consumer` the event in its hands and whether it still is
the partition's `member`. A flow is a graph of steps that send, wait for a reply or
decide.

A handler sends no heartbeat (`server.js:46-60`), each delay of a flow may last 30 s
(`automation.service.js:967-972`), and the session ends after 30 s
(`kafka.js:165`): `SessionEnds` expels a consumer while it performs a step that
sends, calls or waits. Kafka then gives its partition to another consumer, or to
itself when it is done (`Take`), and refuses its offset (`Refused`), so that the event
is delivered again; this is no fault and has no bound. A partition taken from a
consumer within its session, as when another joins the group, is a fault.

| Code | Actions |
| --- | --- |
| `eachMessage` | `Take`, `Commit`, `SessionEnds`; `Drop` for what is caught and logged |
| `processInboundMessage`, `processFlowSubmission` | `ReadState` (replies only), `Match` |
| `continueFlow` | `Load`, `Perform`, `Save`, `Clear` |
| `executeAutomation`, `executeAdvancedFlow`, `executeFlowAction`, `processFlowStep` | `Perform`, `Save` |
| `updateAutomation`, `updateAutomationStatus`, `deleteAutomation` | `Edit` |
| outside | `Expire` (`FLOW_TTL`), `Crash`, the fault of `Take` (a partition given away) |

Which automation a message matches is a choice among the active ones; the branch
a condition takes is a choice among those drawn. Automations that are no flows are
flows of one step. The limit of 50 steps is a constant. kafkajs commits after a batch,
the model after each event: a batch redelivered is a sequence of events redelivered.
All replies of the contact come on one partition: `webhook.inbound` is keyed by the
WhatsApp account (`webhook.service.js:323`) while the key in Redis is of user and
contact, so that a user with two accounts, to whom one contact writes on both, is
outside the model.

## 4. What is checked

All properties are stated, with the behaviour of the code they are about, at the
end of their module. Every module's type invariant is checked too.

| Run | Shows | Bounds |
| --- | --- | --- |
| `wallet` | eight invariants and the refinement of `Ledger`: the book explains the balance (`LedgerExplainsBalance`), a key charges once (`KeyChargedOnce`), an answer names a posting of that very charge (`AnswerIsPosted`), invoices and verified payments are one to one and credit what the order says (`InvoicePerRecharge`), tax at the rate (`TaxFollowsRate`), the cache holds a balance the account really had (`CachedBalanceWasReal`), events tell each posting at most once (`PostingToldOnce`) | one owner, two handlers, one keyed debit, one order, one amount that rounds down when it includes the tax and up when it does not, unkeyed requests begin while the account has fewer than `MaxPostings` rows |
| `campaign_delivery` | `CountersMatchRows`, `OverMeansResolved`, `StatusMovesForward` under early, repeated and reordered webhooks; under fairness `StartedIsOver`: a campaign comes to its end unless a report found no row | two messages, one start, one repeated webhook, no fault |
| `campaign_operator` | `SendsWithinPublications`, `CancelledIsFinal` with all five requests and all faults | one message, three requests one after the other, two acceptances of it, one retry, two faults |
| `campaign_resume` | a violation: see findings | two messages, start, pause, resume |
| `campaign_crash` | a violation: see findings | one message, one crash |
| `campaign_retries` | a violation: see findings | one message, two request slots, start and two retries, one retry allowed |
| `messaging` | `ChargedAsReported`: a settled message cost what its row says, which is Meta's pricing in one of the plans; `SentIsPaid`: no accepted message without its debit; `RowNamesItsPostings`: what a row says of the wallet was posted; `QuotaNotOvercharged`: the usage never exceeds what Meta accepted | two messages, two sends and two webhook statuses in flight, two reports, one fault, a change of plan counted as a fault, two plans (two categories at 2 and 0 paise, and at 1 and 1), a limit of one message, a wallet of 3 paise |
| `checkout` | `ActiveIsPaid`: no plan without a payment; `ChargedCheckoutSurvives`: what was charged is found again | two requests and a sweep, two checkouts, a monthly plan and a lifetime plan that a coupon makes free, a coupon for one use, one unit of time, after which a monthly plan is due, without grace, one change of auto-renewal, one fault, no payment from elsewhere |
| `renewal` | `RenewedOncePerCycle`, `RenewalChargedOnce`, and under fairness `DueIsResolved`: what is due does not stay active | one request, two sweeps, one checkout of a monthly plan (two units), four units of time, grace and retry of one, one change of auto-renewal, one fault |
| `chat` | `MessageStoredOnce`, `CountedOnce`, `UnreadNotLost`, `StatusNeverMovesBack` | two inbound messages, an agent's and a campaign's, two handlers, statuses `queued`, `read` and `failed`, three deliveries, two faults |
| `accounts` | `AccountIsWhole`, `AnsweredAccountStays`, `OneTokenPerLogin`, `ResetEndsSessions` | two requests, two accounts, two links, two tokens, one fault |
| `automation` | `ReplyMovesFlow`: no reply leaves the flow at the step it answered; under fairness `EventsArePassed`: every event is passed, unless handlings outlive their session again and again | one automation, two flows (one a question whose continuation was removed, one of conditions that may go round for ever), two consumers, two messages and a form, a limit of two steps, one edit, one fault, any number of sessions that end |

**Why the bounds are enough.** Wallet: a handler meets others only through the
row of one owner, a key or the cache; two handlers give every pairwise race, the
crash and later requests of the same slots give the third party. The unkeyed
amount covers the keyed one once but not for ever, so refusal and success both
happen. `MaxPostings` bounds when a request begins, so handlers already begun
post beyond it. Campaign: two messages are the least at which a campaign can end
too early; one message and one slot suffice for properties of a single row and of
the status against both consumers. Requests are made one at a time, except in
`campaign_retries`: what else two concurrent ones do is listed under the hazards.
Messaging: sends of different messages meet in the balance and the usage only,
and two of them race for both; a plan of one message and a wallet for one message
make the limit and the refusal happen; the second report repeats the first, or
settles what the first could not. Subscription: one checkout that is resumed by
the next one is the least that tells the keys apart, and a due row, its renewal
and the next due date fit in four units. Chat: three deliveries let one of two inbound
messages come twice and the other between, or the three statuses of one message come
in any order, two at a time; two faults let a partition be reassigned and a handler
fail or die as well. Accounts: the second account of an address is the one made
after a rollback; two tokens of one log-in are what a refresh could leave.

**Deadlock** is checked for the wallet. The other runs switch it off: a campaign
whose messages are resolved is at rest, and in the other models a user who has
used up the bounds on requests, time or deliveries makes no further one.

**Fairness** is assumed by three runs. `campaign_delivery`: a request under way
continues (Node's event loop runs each continuation), both Kafka consumers keep
consuming (they run while their service does) and Meta reports what it owes. A
report that finds no row is dropped (`webhook.service.js:657`) and may leave its
campaign running for ever; `missed` records that this happened. `renewal`: time
passes, `setInterval` starts a sweep again and again
(`subscription-service/src/server.js:38`), and a sweep under way goes on to the
end of its list. `automation`: a handler that was begun goes on, and some consumer
takes the next event (a consumer that was expelled joins again; `FairSpec` does not
ask for the reassignments that are faults). Calls of other services have a timeout
(5 to 10 s), a delay at most 30 s. Commands of Redis have no timeout of their own
(`redis.js:25`, `maxRetriesPerRequest: null`): while the server is away they wait, so
that the run assumes that Redis answers or fails in the end. No request of a user is fair: nobody
has to make one.

### Findings

- `campaign_resume`: `resumeCampaign` sets `pending_count` to the rows still
  `pending` and forgets the `queued` ones (`campaign.service.js:1214`), against
  the comment at line 1759. The campaign can then be declared over while a message
  is still on its way.
- `campaign_crash`: `processStatusUpdate` is said to update the row and the
  counters atomically (line 1695), but writes them in two statements (1754 and
  1785). A crash between them loses the count for good, as the redelivered event
  is taken for a repetition.
- `campaign_retries`: `retryCampaign` "only retries messages where retry_count <
  max_retries" (line 1300), but increments the rows it selected by id alone (1372);
  two requests at the same time raise one row above the limit.

### What the properties leave out, because it does not hold

The models contain the following behaviours of the code. No comment or test
promises otherwise, so they are not findings; the property names the case it
excepts, by a variable that records that it happened.

| Behaviour | Excepted by |
| --- | --- |
| A count of the usage that fails after Meta accepted refunds the message and fails its row; a later webhook settles it against the estimate although the debit is back (`message.service.js:597`) | `doubtful` in `ChargedAsReported` |
| Two webhooks of one message handled at once both make the adjustment (`message.service.js:1205`) | the same |
| A message settled with a difference to its estimate is settled again when the plan has changed between two of its webhooks: the difference is computed from the estimate again and moves a second time (`message.service.js:1193-1222`) | the same (`Repriced`) |
| A paid order is credited to whoever sends it with its signature, not only to the user in its notes, and again whenever it is sent again; an order that is no recharge is credited at its total (`wallet.service.js:225-254`) | `InvoicePerRecharge` asks for a paid order and its amount, not for its user or its first use |
| A payment is verified for any pending row: the order is not compared with the row, its amount, or earlier uses (`subscription.service.js:634-671`) | `ActiveIsPaid` asks for some payment of the key |
| A Razorpay payment whose row another checkout removes before it is verified finds no row (`subscription.service.js:281`) | `ChargedCheckoutSurvives` is of wallet checkouts |
| A debit that was posted and whose answer is lost leaves a row `debit_failed` and is never given back (`message.service.js:557`) | `SentIsPaid` asks for the debit of what was sent, not for the reverse |
| Overlapping checkouts: `removePendingSubscriptions` deletes the row another request has charged, both may become active, and a plan change verified after a renewal leaves the old plan active beside the new | `overlapped` in `ChargedCheckoutSurvives`; that one plan is active at a time is not stated |
| Sweeps that overlap number two attempts, with two keys, and charge one cycle twice; an attempt whose answer is lost is charged again under the next key (`subscription.service.js:932`) | `crowded` and `faults` in `RenewalChargedOnce` |
| A cancellation during the charge of a renewal: charged, not renewed; one read before a renewal cancels the row the renewal has ended | `RenewedOncePerCycle` speaks of rows, not of charges |
| `max_uses` of a coupon is checked at the checkout and counted at the activation | not stated |
| Concurrent counts of the usage overwrite one another, in the user's favour (`subscription.service.js:878`) | `QuotaNotOvercharged` is an upper bound |
| A crash between a chat message's insertion and the count, or a statement that fails there and is logged, loses the count (`chat.service.js:704-727`, `server.js:59-71`) | `doubtful` in `CountedOnce` |
| A conversation that is read between its creation and the count of its first message keeps a badge of 0 although that message is unseen (`chat.service.js:648`, `713`, `726`), and is one short until it is read again | `hasty` in `UnreadNotLost` |
| A partition of chat-service handled twice at once opens two conversations | not stated |
| A status that comes before an agent's message has its Meta id is dropped | `StatusNeverMovesBack` allows it to stay behind |
| `rollbackPendingRegistration` removes an account that has been verified or adopted by an OAuth log-in meanwhile; a registration that takes the row up during the rollback leaves an organization and a wallet of nobody (`auth.service.js:220`) | `doubtful`, `raced` in `Accounts` |
| The waiting step of a contact is one key for all flows: a form that starts a flow puts its waiting step over another's, and a flow that ends clears it (`automation.service.js:494`, `flowEngine.js:32`) | `ReplyMovesFlow` asks that no step is answered twice, not that each is answered |
| A reply delivered again after a crash is the answer to the next question; a partition given away while delays run lets one reply answer two | `overlapped` in `ReplyMovesFlow` |
| A flow whose delays and calls take longer than the session loses its offset whenever it is run, also with a single consumer: its event is delivered again for ever, its messages are sent again, and the events behind it wait (`kafka.js:165`, `automation.service.js:967`) | the second disjunct of `EventsArePassed` |
| One refresh token used twice at once becomes two; a refresh in flight outlives a password reset; a crash between revoking and creating logs the user out (`auth.service.js:471`) | `shared`, `straddled`; `OneTokenPerLogin` allows none |
| A refresh in flight outlives a log-out (`auth.service.js:471-506`) | not stated: `OneTokenPerLogin` counts tokens, whatever was logged out |
| Two events of one campaign message on different keys (`campaign.service.js:1698`), and a status whose handler fails (`server.js:84`), leave the counters apart | not stated: `CountersMatchRows` is for runs without them |

## 5. What is proved

Each proof module proves theorems of the specification for every value of the
constants that satisfies the named ASSUMEs of its module; TLC evaluates the ASSUMEs
in the runs. Nothing bounds the number of messages, handlers, faults or steps.

### WalletProofs

| Theorem | Statement |
| --- | --- |
| `TypeCorrect` | `Spec => []TypeOK`, in particular no balance is negative |
| `LedgerAlwaysExplainsBalance` | `Spec => []LedgerExplainsBalance` |
| `KeyAlwaysChargedOnce` | `Spec => []KeyChargedOnce` |
| `WalletImplementsLedger` | `Spec => ImplementsLedger`, the refinement |
| `TaxAlwaysFollowsRate` | `Spec => []TaxFollowsRate` |
Assumed: there is an owner, amounts are positive, the rate is a percentage, tax is
within the amount or on top, "no key" is not a key, and a key comes with one charge.

`TypeOK` is not inductive: `Announce` answers with the posting at the position
the handler carries, and the refinement needs that what a handler is about to
post is one of the ledger's amounts. The invariant `IInv` adds `HeldIsPosting` (a
handler past its commit holds the position of a row of its owner) and
`AmountsAreMoved` (requests and orders carry amounts that may move, and each
program counter belongs to the requests that can reach it). `StepHolds` proves it
inductive, one lemma per kind of step. `StepPosts` then reduces every step of the
service to one whole posting or no change of any account; the book, the keys and
the refinement follow from that lemma alone. The tax theorem rests on
`RoundingError`: Math.round is off by half the divisor at most.

### WalletAnswerProofs

| Theorem | Statement |
| --- | --- |
| `InvoicesMatchRecharges` | `Spec => []InvoicePerRecharge` |
| `PostingsToldOnce` | `Spec => []PostingToldOnce` |
| `AnswersArePosted` | `Spec => []AnswerIsPosted` |
| `CacheWasReal` | `Spec => []CachedBalanceWasReal` |

`RequestsFit` says that a handler serves a request a caller could make, and that
an order about to be credited is paid; it lasts because orders keep what they are
credited with and are paid for good (`OrdersStay`). `StepKinds` then reduces
every step to one of five kinds: a request `Starts`, a handler `Commits` a row,
`Tells` it, is `Quiet`, or the step is `Outside`. Each theorem has one further
invariant, shown to last kind by kind: no two handlers hold the same row and none
holds an announced one (`HeldIsUntold`), a keyed row is that of its key's charge
(`KeysFit`) and a handler past its commit holds the row of its request (`HeldFits`),
and what a reader is about to put in the cache was a balance (`FillIsReal`, which
rests on `LedgerExplainsBalance`).

### MessagingProofs

| Theorem | Statement |
| --- | --- |
| `TypeCorrect` | `Spec => []TypeOK` |
| `SendsArePaid` | `Spec => []SentIsPaid` |
| `RowsNameTheirPostings` | `Spec => []RowNamesItsPostings` |
| `QuotaCountsAcceptedOnce` | `Spec => []QuotaNotOvercharged` |
| `SettledAsReported` | `Spec => []ChargedAsReported` |

Assumed: there is a plan, prices are natural numbers, Meta's pricings are of the plans' categories or name none,
"none" is no value, and there are finitely many messages and sends.

The strengthening `TInv` adds to the types that a handler in hand of a message
holds one, and that the copy a webhook carries is a row. For `SentIsPaid`,
`SendStages` says which stage of a send belongs to which row (a send past the debit
has a marked row or nothing to pay; one send per message), and `PaidSends` that the
first posting of a marked row is its debit. `NamesInv` says the same of what a
webhook is about to write, so that a stale copy written back names only postings
that exist. `UsageBounded` bounds what senders hold: a send between its read and
its write carries a usage of at most the accepted messages that are not its own.
For `ChargedAsReported`, `ChargeInv` follows each message that is not in doubt
through two stages. `Outgoing`, before Meta's id is stored: the send has paid the
estimate from its debit to its refund, and nothing is settled while it is under
way. `Incoming`, after: at most one webhook holds the message and its copy agrees
with the row in every column the price depends on (`SamePrice`), so that the
message has cost the estimate until the adjustment, and from then on what the row
says, which is Meta's pricing in one of the plans (`Asked`), whichever is active;
a webhook about to write (`Settling`) has moved the difference between the estimate
and the price it carries (`cost`), owes none, or says that the adjustment failed. A
second settlement keeps this as long as the first moved nothing, which is what
`doubtful` excepts otherwise. `OthersKeepPrice` is the frame of every step of others.

### SubscriptionProofs

| Theorem | Statement |
| --- | --- |
| `TypeCorrect` | `Spec => []TypeOK` |
| `CycleRenewedOnce` | `Spec => []RenewedOncePerCycle` |
| `ActiveRowsArePaid` | `Spec => []ActiveIsPaid` |
| `CycleChargedOnce` | `Spec => []RenewalChargedOnce` |
| `ChargedCheckoutIsKept` | `Spec => []ChargedCheckoutSurvives` |

Assumed: plans have a term, what is free is a plan with or without the coupon, the
grace period and the retry interval are natural numbers.

`TInv` adds to the types that requests and sweeps work on rows that exist
(`RequestFits`, `SweepFits`) and that a pending row was never tried (`Fresh`).
`RowsKept` says what any step may do to any row (`MayBecome`: plan, coupon and what it
replaces stay, attempts are not forgotten, an ended row does not come back);
`CycleRenewedOnce` follows from it and from `StepAdds`, by which only checkouts and
renewals add rows. For `ActiveRowsArePaid` the invariant `PInv` adds that whoever is
about to write holds a paid row: a request about to activate (`Bought`), to cancel, a
sweep its whole list and its renewal (`Covered`), although these were read many steps
earlier; `PaidStays` carries each of them over every step of anyone else. "Paid" is,
for Razorpay, what the code asks: that there was some payment with the key.

For `RenewalChargedOnce`, `Numbered` bounds the keys in the book by the attempts of
their row, and `OnceInv` says, while sweeps have not overlapped: one sweep works;
what a cycle was charged beyond one charge is paid for by faults; an active row has
not been charged at all but for faults, unless a sweep holds its charge and is about
to renew it; and neither has a row about to be charged. For
`ChargedCheckoutSurvives`, `SurvivalInv` says, while checkouts have not overlapped:
one is under way, one row is pending, a charged checkout's row is a wallet row or
was begun (`Held`), and what each step of a checkout relies on (`CheckoutSafe`): it
removes rows only when none is of the wallet, creates one only when none is pending,
debits a row that is there, and turns to Razorpay only when nothing was charged.

### ChatProofs

| Theorem | Statement |
| --- | --- |
| `TypeCorrect` | `Spec => []TypeOK` |
| `StoredOnce` | `Spec => []MessageStoredOnce` |
| `UnreadOnce` | `Spec => []CountedOnce` |
| `BadgeShowsAll` | `Spec => []UnreadNotLost` |
| `StatusForward` | `Spec => StatusNeverMovesBack` |

Assumed: ids of the three kinds of messages are different, and Meta's statuses are
among the five.

`TInv` adds to the types that a handler's step fits its message (`HandlersHold`)
and that no two rows have one id (`RowsAreUnique`, which the unique index and the
test in `BeginSend` give). `CountingOnce` relates the tally to the handler that
stands between the insertion and the count: one such handler at most, and none once
the message is counted. `SerialInv` is the order Kafka gives while no partition is
consumed twice: one handler per partition, so that the status a handler copied is
still the row's (`Sending` adds an agent's message, which has no other handler
before its id is linked). `Fresh` and `BadgeHolds` bound the badge from below by
what was counted since the last reading: it is ahead by one while the message that
opened the conversation is not counted yet (`Owed`), and behind by one when the
conversation was read meanwhile (`Short`); this needs no order of the partitions.

### AccountsProofs

| Theorem | Statement |
| --- | --- |
| `TypeCorrect` | `Spec => []TypeOK` |
| `AccountsAreWhole` | `Spec => []AccountIsWhole` |
| `LoginsHaveOneToken` | `Spec => []OneTokenPerLogin` |
| `ResetsEndSessions` | `Spec => []ResetEndsSessions` |
| `AnsweredAccountsStay` | `Spec => []AnsweredAccountStays` |

`TInv` adds to the types that the account, link or token a request works on exists,
that a step on an account has one, and that only a registration at its e-mail or its
rollback is the maker of its account (`Fits`, `UserFits`). The lemmas called "Does"
reduce every step to what it does to the request (begun, gone, mailed, at another
step) and to the account (kept, lessened, added), so that each invariant is shown
once per kind. `WholeInv`: organizations and wallets are equally many, and while
registrations do not overlap, at most one is under way, a reused account is there
and a rollback leaves nothing. `LoginInv`: the token a request is about to replace is
revoked, a log-in has at most one holder and one live token, and where it has both
they agree, unless a token was used twice at once. `ResetInv`: tokens that are live
or held are of log-ins after the last reset that ended, unless one was made across
it. `StayInv`: a registration whose outcome is certain (`Certain`) is `Alone` with its
account, whose link was never mailed, so that its rollback takes nothing away that
anyone was told of.

### AutomationProofs

| Theorem | Statement |
| --- | --- |
| `TypeCorrect` | `Spec => []TypeOK` |
| `RepliesMoveFlows` | `Spec => []ReplyMovesFlow` |

`TInv` adds that a consumer at work has an event and a flow with the step it is about
to perform, although the automation may be redrawn between two steps (`Fits`).
`Serial` is the order Kafka gives while no partition is handled twice: a consumer at
work is `Alone` with its partition, whether or not its session has ended, and its event
is the one after the committed offset (`Mine`); and one that is past looking for the waiting flow or, when it resumed it, past saving
or clearing it (`Past`) has its reply `Answered`: nothing waits for it, or it is lost. `Handled` reduces the many steps of a handler to one kind, so
that `Serial` and the property are shown once for all of them.

### CampaignProofs

| Theorem | Statement |
| --- | --- |
| `TypeCorrect` | `Spec => []TypeOK` |
| `SendsAsPublished` | `Spec => []SendsWithinPublications` |
| `CancelledStays` | `OneRequestAtATime` implies `Spec => CancelledIsFinal` |
| `CountersFollowRows` | `PlainDelivery` implies `Spec => []CountersMatchRows` |
| `OverIsResolved` | `PlainDelivery` implies `Spec => []OverMeansResolved` |
| `MessagesMoveForward` | `PlainDelivery` implies `Spec => StatusMovesForward` |

The first two hold with any number of requests under way at once, which the runs
but one leave out. Assumed: the bounds are natural numbers, the requests are the
five, Meta reports its four statuses, "no value" is no id of Meta's, and there are
finitely many recipients.

`OneRequestAtATime` says that there is one request slot, so that a request ends
before the next begins. Without it `CancelledIsFinal` fails: a start under way marks
the campaign running over a cancellation made meanwhile. `PlainDelivery` adds
what else the counters do not survive, each for a reason in the code. Requests are
starts and pauses: a resume forgets the queued messages (finding
`campaign_resume`), a cancellation and a retry rewrite rows and counters while
handlers hold earlier copies of them. The faults are a crash of whatsapp-service, a
publication that fails and an answer of Meta's that is lost: a crash of
campaign-service or a failed write between row and counters loses a count (finding
`campaign_crash`). And Meta does not report a message both as read and as failed: a
failure is taken after a reading, and `read_count` is never given back. The run
`campaign_delivery` is an instance; the theorems add every number of recipients,
pauses, redelivered events, lost publications and lost answers.

`TInv` adds that whatever is under way is about a row that was inserted: the rows a
request carries (`OpsTyped`), the events of `campaign.execute`, the ids recorded in
`wa_messages` and the statuses in Kafka (`Heard`); rows stay (`Grows`). It also says
that a worker past its first step has an event that is not committed (`Working`).
The bound on sends is not inductive: `Within` counts, for each row, what Meta has
accepted and what waits in Kafka, less the event that was acted on and is not
committed yet, against what was published or delivered again. A crash puts that
event back, which is where `redelivered` pays for it.

For `CancelledIsFinal`, `CancelInv` says that no request is under way while the
campaign is cancelled; the consumers' last update looks at the status itself. For the counters, `DInv` has these parts. `SaidInv`: what Meta says is
of an acceptance that happened, and is never both read and failed. `ToldInv`: an
event is published once, and the worker tells the outcome of a row under one key at
most (`Live`), after it has consumed the event, so that one partition of
`campaign.status` has all that is said of a row. `HandledInv`: a consumer about to
write a row holds its present status and moves it on (`Moves`); one about to count
has written the status at the head of its queue. `LifeInv`: nothing is published or
counted before the campaign runs. `CountInv`: each counter is the number of rows
that show its status when every update written and not yet counted is taken back
(`SeenIn`). This, rather than the property itself, is inductive: a step changes the
rows as they show and the counters together, or neither.

### Only model-checked

Every invariant and action property of the passing runs is stated by a theorem.
Liveness (`StartedIsOver`, `DueIsResolved`, `EventsArePassed`) stays with TLC, as
fairness and ENABLED are outside what TLAPS proves here, and so do the violations of
the findings. Of campaigns, `OverMeansResolved`, `CountersMatchRows` and
`StatusMovesForward` are neither proved nor checked with cancellations, retries and
faults of campaign-service's own writes, for the reasons above.

## 6. What is not modelled

- The wallet's listings and the legacy wallet migration; integer overflow of the
  32-bit `balance` column (MySQL refuses the statement, which is the rollback
  already modelled for recharges; amounts of that size are not in the runs).
- In campaigns: creating, editing and deleting drafts, the `scheduled` status
  (nothing in the code sets it), pricing, the live counters sent to browsers.
- In messaging: the composition of payloads, inbound messages' storage, webhooks
  about accounts and templates, the exchange of flow data. The order of statuses is not stated there: the same
  comparison is checked where it matters, in `Campaign` and `Chat`.
- In subscriptions: the monthly reset of usage (a count in flight writes the old
  month back over it), the maintenance of plans and coupons, admin's plan
  assignments, the listings.
- In chat: assignment, access checks, sockets, previews.
- In accounts: the uniqueness of phone numbers, expiry of links and tokens, log-in
  metadata, the user cache.
- In automations: which automation a message matches, the data a flow collects, logs,
  statistics and outgoing webhooks; what a flow sends goes through
  `performAccountedSend` and is in `Messaging`.
- whatsapp-service's onboarding: a sequence of calls whose order and errors are
  Meta's.
- user-, organization-, contact-, template-, support-, notification-,
  admin-service: single-row reads and writes with validation, where a model would
  repeat the code; email-, media-, analytics-service, api-gateway, shared packages:
  I/O, routing and reads; the frontend and the deployment.
