# Formal model of the card shop back end

TLA+ specifications of the back end of a shop for collectible cards (TypeScript,
Express, Prisma over SQLite), with the TLC configurations that check them and
TLAPS proofs. Paths below are relative to the repository; short names are used
for the files that matter most:

| short | file |
| --- | --- |
| orders | `src/modules/orders/orders.ts` |
| marketplace | `src/modules/affiliates/affiliate-marketplace-service.ts` |
| affiliates | `src/modules/affiliates/index.ts` |
| store | `src/modules/backoffice/infrastructure/prisma-admin-cms-transaction-store.ts` |
| loyalty | `src/modules/loyalty/loyalty.ts` |
| expiry | `src/modules/inventory/application/expire-reservations.ts` |
| worker | `src/modules/payments/mercado-pago-webhook-worker.ts` |
| support, hub | `src/modules/support/support.ts`, `support-realtime.ts` |
| sessions, auth | `src/infrastructure/sessions.ts`, `src/modules/auth/auth.ts` |

## 1. Inventory of the system

One Node process serves HTTP requests and runs four timers (`src/server.ts`):
order expiry and seller-order completion every minute, the Mercado Pago webhook
worker every five seconds, retired-image cleanup every five minutes. All state is
in one SQLite database and in the storage directory. Most writes go through a
`WriteCoordinator` (`src/infrastructure/prisma.ts`), a promise chain that runs one
operation at a time, and each operation is one database transaction: a throw
rolls it back. The affiliate's routes, the completion job, payouts and the
command-line tools do not use the coordinator and rely on version columns and on
SQLite's single writer.

| component | state | operations | talks to | what is hard | what makes it correct |
| --- | --- | --- | --- | --- | --- |
| Stock | `Inventory.onHand/reserved`, `InventoryReservation` | reserve, release, consume, reacquire late, restock, adjust, affiliate edit | orders, payments, refunds | counters beside rows, changed from five handlers | counter = active rows; nothing promised twice; sold stays sold |
| Loyalty | `LoyaltyAccount`, `LoyaltyTransaction`, `Order.loyaltyRedemptionStatus` | quote, reserve, release, settle, reverse | orders, payments, refunds | retries, late settlement of released points, clawback | each movement once; reserved = open redemptions |
| Orders and payments | `Order`, `Payment`, `TransferReceipt`, `RefundRecord` | quote, checkout, session, receipt, review, cancel, expire, apply provider state, fulfil late, record refund | all of the above | provider answers out of order, closing races, deadlines, previews that age | one outcome, at the price shown; expired holds nothing; every order leaves payment |
| Seller orders | `SellerOrder`, `AffiliateIssue`, `AffiliateCancellationRequest`, `AffiliateLedgerEntry` | transitions of four actors, issues and cancellations with their decisions, refunds, reconciliation of the parent | orders, stock, ledger | overlapping requests that restore saved statuses | affiliate never above the net of the sale; closed stays closed |
| Payouts | `AffiliatePayoutRequest`, ledger | request, process, pay, reject, adjust | ledger | outside the write queue | balance never spent twice |
| Reconciliation command | reads ledger and orders | list, diagnose, `--apply` | runs beside the server | a stale listing | a sale is repaired once |
| Webhook inbox | `WebhookEvent` | receive, claim, ask, apply, mark, retry, give up | payments | redelivery, crash with a claim held, ten attempts | no change lost, every event ends |
| Server lifecycle | `app.lock`, timers | start, take over a stale lock, stop | storage | crash, two starts | one process |
| Images | files, `StoredFile`, `ProductImage`, `FileCleanupJob` | upload, attach, retire, replace, delete, clean up | products, news, orders | disk and database share no transaction | a file in use stays; an unused one goes |
| Listings and products | `Product`, `AffiliateListing`, versions | create, edit, submit, review, archive, delete, images | stock, orders | read and write in separate steps | what is sold was reviewed; stock is explained |
| Back office, settings, news | versioned rows, zones, points | versioned updates | checkout reads them | stale pages | no lost update; disjoint zones |
| Exchange rate | snapshots | look up, fetch, expire | checkout | shared by requests, house changes | the buyer pays the rate shown |
| Support chat | conversations, messages, read pointers, notifications | open, send, read, close, push counts | hub | one millisecond, retries, overlapping pushes | counts match |
| Hub | sockets of actors and sessions | upgrade, register, activate, validate, close | sessions | every await | no events to a dead session |
| Sessions | rows with expiry and activity | create, touch, revoke one or all | all routes | read now, write later | revoked stays revoked, idle ends |
| Card look-up, HTTP shell, tools | caches, none | read | none | none | not modelled |

## 2. Modules

```
Shop ── Stock ───┐
   └─── Loyalty ─┴─ SellerOrders ── OrderPayments ── MCOrderPayments (+ ProviderReports)
Earnings ───────────┴─ AffiliateAccount ── MCAffiliateAccount
                            └ INSTANCE Wallet WITH ...
AppLock ── WebhookInbox ── MCWebhookInbox        Media
Sessions ── SupportHub ── MCSupportHub           Support ── MCSupport
Quotes ── BackOffice ── MCBackOffice ┐           Listings ── MCListings
              └─── Checkout ─────────┴─ MCCheckout
```

* **Shop** declares the fixed data: orders, customers, products, sellers.
* **Stock** has the counters and the rows, and one operator per loop the handlers
  run over the rows of an order. `StockSpec` is the protocol these loops promise,
  in any order, for any order: the abstract specification the shop refines.
* **Loyalty** is the same for points: `LoyaltySpec`.
* **Earnings** is the ledger of one sale: pending, available, what was reversed
  and the dedupe keys that a second attempt meets.
* **SellerOrders** has the seller orders with their issue and cancellation request,
  one action per handler of marketplace, and `AllowedSteps` for who may ask for
  which transition. Every handler ends in `MoveChild`, which recomputes the
  parent's status as `reconcileParentOrder` does.
* **OrderPayments** composes them: each handler of orders, of the store's order and
  payment operations, and of the expiry job is one action that makes every change
  of its transaction.
* **ProviderReports** is a module of operators: how a report of Mercado Pago becomes
  a payment status. MCOrderPayments evaluates it over small reports and takes the
  outcomes of its runs from it (`MCOutcomes`).
* **AffiliateAccount** takes the sales of one affiliate as their ledgers and adds
  withdrawals, corrections and the reconciliation command. **Wallet** is what the
  account promises in four balances; `ImplementsWallet` is the refinement.
* **AppLock** is `acquireLock`, `shutdown` and crashes of the process; **WebhookInbox**
  extends it with the inbox, so that the worker lives in a server that dies.
* **Sessions** is the session rows and the requests that read and later touch them;
  **SupportHub** extends it with the sockets. A JavaScript `Set` that closures keep a
  reference to is named by the socket it was created for, because the code does
  go on using sets that have left the map.
* **Support** is one conversation with its pushes of unread counts.
* **Media** is files, rows, uses and the two-phase cleanup by two runs.
* **Listings** is the life of one product, the affiliate's or the store's.
* **Quotes** is the arithmetic of a checkout; **BackOffice** the documents and delivery
  options; **Checkout** adds the buyer, the rate's snapshots and the orders made.
* **MC...** modules give the function-valued constants for TLC; **...Proofs** modules
  hold lemmas and theorems (section 5): OrderPaymentsProofs also those of Stock,
  Loyalty, Earnings and SellerOrders, CheckoutProofs those of BackOffice, HubProofs those
  of Sessions, WebhookInboxProofs those of AppLock, AccountProofs those of
  AffiliateAccount.

How code becomes action:

| code | model |
| --- | --- |
| a handler in `writeCoordinator.run` and `$transaction` | one action |
| `throw`, or an update whose version does not match | the action is disabled, or a refusal when the client's state matters |
| a read outside the transaction that writes | two actions with what was read kept in between: `Ask...`/`Commit...` (Listings), `StartReview`/`CommitReview`, requests in Sessions, `ReconcileRead`/`ReconcileApply` |
| a call to Mercado Pago or to the rate's provider | two actions with the answer kept: `FetchOrder`/`ApplyMercadoProviderState`, `AskProvider`/`Reconcile`, `BuyerFindsRate`/`BuyerFetches` |
| an `await` of the file system | its own step (Media, AppLock) |
| expiry: list, then one transaction per order that reads it again | `ExpireReservations(o)`, guarded by the second read |
| completion: list, then a versioned transition | `SystemStep`: the version check makes the pair equal to one step |
| `order.expiresAt <= now` | the flag `due[o]`; waits and lock ages elsewhere are small countdowns, or a flag "elapsed" |
| a lost answer, a restart, a failed transaction | `LoseAnswer`, `CrashServer`, `FailAttempt`, `Fail` |

Definitions called *wrong form* stand before the definition they vary. Each is a
plausible slip in that code (a dropped guard, a reset forgotten, a filter too
wide) and is used to check that the properties would notice it.

### Abstractions

* A line is one unit of one product. In OrderPayments points are lots and every
  seller order has the same `Gross`, `Commission` and `Discount`; the quote's
  arithmetic is in Quotes, used with real rounding in Checkout, where the buyer has
  a fixed number of points.
* The lines an administrator names in a refund are products some order has, one unit
  of each; the code takes any quantity.
* Version numbers are left out where the client may always send the current one,
  and kept where a page ages: BackOffice, Checkout, Listings.
* Publication is left out of OrderPayments, so any product may be ordered at any
  time: the model has more behaviours than the code.
* Delivery is fixed per seller in an instance of OrderPayments.
* A `payment` notification is answered through `getPayment`, whose pesos are
  compared with the shop's dollars: the answer is always REQUIRES_REVIEW.
  `PesoPaymentsAreReviewed` evaluates this on ProviderReports.
* `transitionOrder` of the store is refused for any order that has seller orders
  and every order has one, so it is no action.
* AffiliateAccount sees an order only through its sale: PAID stands for every
  status in which it is being fulfilled, CLOSED for CANCELLED and REFUNDED. A refund
  of the order may come at any time and more than once, as Mercado Pago reports it.
* WebhookInbox reduces the provider's order to the number of its changes.
* Listings leaves out the mode UNIQUE and the delivery options that a submission
  asks for; whether the administrator has been shown what buyers see is the flag
  `seen`. That a product with orders cannot be deleted by the affiliate is the
  foreign key of the order's lines (`held`), which is the database's.
* Sessions leaves out users that are not ACTIVE, and an overlap of a socket's first
  validation with a periodic one a minute later.
* Support has one customer; Media one product, one listing and one news item.
* History, audit, e-mails and notifications of orders are left out.

## 3. Runs

| run | instance | checks | shows |
| --- | --- | --- | --- |
| Payments | 2 symmetric orders of one customer, 1 unit and adjustments to 2, both methods, 1 receipt, 1 fetcher, approvals, full refunds | ReservedMatchesActive, StoreStockCovered, PointsReservedMatchOrders, BalanceMatchesEntries, ExpiredHoldsNothing, ReleasedUnitsReturnOnlyLate, StockSpec, LoyaltySpec | checkouts, reviews, late approvals and refunds never drift a counter or promise a unit or point twice |
| StaleAnswers | 1 order with a store and an affiliate line, 2 fetchers, four outcomes, administrator, fair timers | AccreditedStockConsumed, EarningsWithinSale, OrdersLeavePayment | answers of different age in any order, while the order still leaves payment |
| Marketplace | 1 order of two sellers by transfer, 2 receipts, four actors, refunds with restock | TypeOK, OneReceiptDecides, PendingOrdersIntact, ReopenedOnlyByDecision | overlapping issues, cancellation requests and reviews |
| Account | 1 sale, 2 withdrawals of 1 or 2, one correction, the command | EarnedWithinCredits, PaidWithinCredits, ImplementsWallet | the account implements Wallet |
| Support | customer and one administrator, 3 requests, clock 2, 2 pushes | CountsSettle, UnreadFollowsMessages, RetriesAnswered | ties of the clock, retries, overlapping pushes |
| Hub | 2 actors, 2 sessions, 2 requests, 2 sockets, limit 1, clock 2 | InactivityDecides, ActiveSessionsLive, RevokedIsFinal, InvalidSocketsClose | sessions and sockets with every await a step |
| Inbox | 2 pids, 1 crash, 1 stop, 2 changes, 1 redelivery, 2 attempts | SingleProcess, ProcessedReflected, AcceptedEventsEnd | the worker across crash, restart and redelivery; deadlock is checked |
| Media | 2 files, server and command, 1 fault | ReferencedFilesInPlace, FinishedJobsTrue, UnusedFilesQueued, CleanupEnds | cleanup against the shop and against itself |
| Listings | 1 browser tab, 3 symmetric images with limit 2, stock to 2, 4 versions | StockExplained, ShortOnlyByListingForm, UnseenOnlyByOvertakenReview | two-step routes against everybody else |
| BackOffice | 2 symmetric administrators, 2 store zones and an affiliate's, 3 writes | StoreZonesDisjoint, SavesOverwriteWhatWasShown | stale pages |
| Checkout | 1 administrator with 1 write, 2 snapshots, buyer and visitor | OneOrderPerKey, OrderCostsAsPreviewed, SellersArePaid | what changes between preview and order |
| LatePaymentAccepted | 1 Mercado Pago order | AcceptedPaymentsNotCancelled | violated, see below |

`CHECK_DEADLOCK` is off wherever the system may rest: every order closed, nobody
acting, every file gone. In Inbox time always passes, so deadlock is checked.

Bounds, and why they are enough to be interesting. One unit and two orders make
every contended case happen: the second checkout waits, the first order's unit is
released and taken by the second, and its late payment then finds none; one
initial lot does the same for points. Two receipts are what it takes for one to be
decided while another waits, two fetchers for an older answer to be applied after
a newer one, two withdrawals for them to compete, two pids for one to meet the
other's lock, two files for a cover to replace another, two cleanup runs for a
claim to be taken over at work, two administrators for a stale page, two pushes to
overlap. One crash and one fault each occur at every step. `Gross` 2 (3 in Account)
with `Commission` 1 gives partial refunds and a commission that rounds. `MaxOnHand`
bounds adjustments, `Outcomes` what the provider may do, `Actors` who acts,
`MaxMoves` the inventory movements, `MaxWrites` the saves. In Checkout one write
suffices: what matters is that something changed between preview and order. In Hub
`Apart` keeps administrators' requests and sockets from being in flight at once:
they meet only in the session rows, beside which every way a session begins and
ends remains in the run. Larger
values repeat these cases; where no bound should matter at all, there is a proof.

Fairness, and why the code justifies it:

* StaleAnswers: time passes (`PaymentWindowCloses`) and the expiry job runs for each
  order it lists, as `server.ts` starts it every minute. The loop stops at an order
  whose transaction throws; that this never happens is part of what is checked. No
  person and no provider is fair.
* Inbox: time passes, a run that was started goes on (a call to the provider has a
  time limit and either succeeds or fails), a stop ends, and the deployment starts
  the server again; a start is strongly fair because a live server disables it.
* Media: time passes, the server's job runs every five minutes, and a run that was
  not cut short goes on. The command need never be run.
* Hub: the timer of a socket runs, a validation that was started ends, and a
  callback that is due runs. No client does anything.

### What the code does otherwise

The run LatePaymentAccepted is a finding: an administrator accepts a late payment
(store:1001 answers `PAID`), but the seller orders of an expired order are
cancelled, the settlement skips them, and the reconciliation turns the accepted
order into CANCELLED. The following configurations also violate a statement of
the repository; each is short and can be replayed by hand
(`tlc -config X.cfg M`):

| configuration | module | statement | what happens |
| --- | --- | --- | --- |
| UnpaidSaleCancelled | MCOrderPayments | store:454 | the administrator cancels the only seller order of an unpaid order; the parent reads CANCELLED, the reservation stays active |
| RepeatedApproval | MCOrderPayments | `mercado-pago-refresh.integration.test.ts`:152 | the same approval applied after the deadline takes an order in fulfilment to payment review |
| PartialRefund | MCOrderPayments | `reconcile-affiliates.ts`:76 | a refund of part of the amount closes the sale and leaves the rest pending |
| DisputedUntilPaid | MCOrderPayments | orders:824, expiry:25 | an issue opened before payment hides the sale from the settlement; CONTINUE makes the paid order unpaid and it expires |
| UnpaidSaleCompleted | MCOrderPayments | `reconcile-affiliates.ts`:57 | COMPLETE on the issue of an unpaid sale completes it |
| RepairOfRefundedSale | MCAffiliateAccount | `reconcile-affiliates.ts`:61 | the command credits a sale that accreditation had credited: it listed the sale before its refund |
| TwoServers | MCWebhookInbox | `server.ts`:49, README.md:61 | two starts meet on a stale lock; one unlinks the lock the other has just created |
| SocketLimit | MCSupportHub | `support.integration.test.ts`:409 | a set that left the map is still used by closures, and one socket too many stays open |
| RetiredListingImage | Media | README.md:58 | an affiliate's removal of an image queues no cleanup |
| OverwrittenRestock | MCListings | affiliates:217 | a restock has no inventory version, and the listing form overwrites it |
| UnreviewedListing | MCListings | affiliates:614 | an edit made after the administrator opened the page is approved unseen |

Further properties are stated in the modules and hold on the instances above;
adding one to the INVARIANTS or PROPERTIES of the run checks it: AccountTypeOK,
PayoutsBalanced and DebtNeedsRefund (Account), SupportTypeOK and NoticePerMessage
(Support), HubTypeOK, SetsWithinLimit and RefusedForReason (Hub), InboxTypeOK and
AttemptsBounded (Inbox), MediaTypeOK (Media), ListingTypeOK, DeletedOwesNothing and
NumberedUntilRepeated (Listings), BackOfficeTypeOK (BackOffice), CheckoutTypeOK
(Checkout), ConsumedIsFinal and ReservedPointsCovered (Payments).

Also seen while modelling, where no text of the repository says what should happen:

* recordFullRefund of an order in payment review (store:1012) releases neither its
  reservations nor its points; an order in review keeps them until a person acts
  (expiry:18 does not list it).
* Every refund that asks for restock returns the lines of its sale again, or those its
  request names, which nobody compares with the sale or with what it has returned
  (marketplace:258), and each partial refund rounds its commission down on its own
  (marketplace:253).
* A mixture of one cancelled and one unpaid seller order makes the parent read PAID
  (marketplace:132).
* The loop that consumes an approved Mercado Pago payment has no guard (orders:442):
  after a listing form wrote fewer units than are reserved, the units on hand become
  negative. Stock and Listings both have it so.
* Peso payments reported by a `payment` notification are never approved (orders:338).
* A crash between creating `app.lock` and writing the pid leaves a lock that no
  server takes over (`server.ts`:16).
* An upload cut by a crash leaves its file (`media.ts`:39).
* A conflict on one seller order ends the completion job's batch for that minute
  (`complete-seller-orders.ts`:21).
* A login whose password was checked before a reset keeps its session (auth:154), and
  two resets with one token both succeed (auth:242).
* A reordering that repeats an image leaves two with one number (affiliates:354).
* A notification is stamped after its message, so reading up to the message may leave
  it unread (support:528).

## 4. Properties

* *ReservedMatchesActive, PointsReservedMatchOrders, BalanceMatchesEntries*: counters
  equal what the rows say. They fail if any of a dozen handlers forgets a row,
  closes one without counting it, or repeats what was done.
* *StoreStockCovered, AccreditedStockConsumed, ReleasedUnitsReturnOnlyLate,
  ExpiredHoldsNothing*: nothing is promised twice, nothing is shipped or credited
  on units that were not taken, and units come back only by an accepted late payment.
* *OneReceiptDecides, PendingOrdersIntact, ReopenedOnlyByDecision*: the parent agrees
  with receipts, rows and seller orders. PendingOrdersIntact and ExpiredHoldsNothing
  are stated of orders by transfer and of orders of the store alone (`PlainOrder`):
  the path of DisputedUntilPaid breaks them for Mercado Pago orders of an affiliate.
* *EarningsWithinSale, EarnedWithinCredits, PaidWithinCredits*: the ledger under
  overlapping decisions, repairs and withdrawals.
* *StockSpec, LoyaltySpec, ImplementsWallet*: the refinements.
* *OrdersLeavePayment, AcceptedEventsEnd, CleanupEnds, InvalidSocketsClose*: liveness.
  AcceptedEventsEnd excepts a lock file that a crash left without a pid: no server
  starts on one until a person removes it.
* *SingleProcess, ProcessedReflected*: one server, and no event is done before the
  change it tells of is in the shop.
* *ReferencedFilesInPlace, FinishedJobsTrue, UnusedFilesQueued*: disk against database.
  The last excepts what affiliates remove and what a crash interrupts.
* *StockExplained, ShortOnlyByListingForm, UnseenOnlyByOvertakenReview*: exactly which
  overlap may hurt, and that no other does.
* *StoreZonesDisjoint, SavesOverwriteWhatWasShown, OneOrderPerKey,
  OrderCostsAsPreviewed, SellersArePaid*: lost updates, and the price shown. The
  programme and delivery prices carry no version in an order's request, and the
  fourth excepts exactly those.
* *CountsSettle, UnreadFollowsMessages, RetriesAnswered*: unread counts and retries.
* *InactivityDecides, RevokedIsFinal, ActiveSessionsLive*: sessions and their sockets.

## 5. Proofs

Every safety property the runs check is also a theorem, for every value of the
constants that satisfies the named assumptions; what TLC alone checks is liveness.
The assumptions say what the code or the schema guarantees, no more: sets of orders,
sellers, sales, withdrawals and pids are finite, stock and points start natural,
`Commission` and `Discount` are at most what they are taken from, amounts asked for
are positive, and what the back office starts with (`InitialAssumption`) its own
handlers could have written.

| theorem | module | says |
| --- | --- | --- |
| StockInvariance, ConsumedStaysConsumed | OrderPaymentsProofs, 1 | invariant and action property of the reservation protocol |
| LoyaltyInvariance, PointsCovered | OrderPaymentsProofs, 1 | invariants of the points protocol |
| ShopImplementsStock, ShopImplementsLoyalty | OrderPaymentsProofs, 2 | `Spec => StockSpec`, `Spec => LoyaltySpec` |
| ReservedCounterExact, StoreNeverOversells, SoldStaysSold, ReservedPointsExact, BalanceExact, PromisedPointsCovered | OrderPaymentsProofs, 2 | the properties of the protocols hold of the shop |
| TypeCorrect | OrderPaymentsProofs, 4 | `TypeOK` |
| LifeInvariance, AccreditedAfterSold, EarningsBounded, ReceiptDecides, PendingIntact, ExpiredFree | OrderPaymentsProofs, 5 | `LifeInv` and from it AccreditedStockConsumed, EarningsWithinSale, OneReceiptDecides, PendingOrdersIntact, ExpiredHoldsNothing |
| ReopeningDecided, ReleasedReturnLate | OrderPaymentsProofs, 5 | ReopenedOnlyByDecision, ReleasedUnitsReturnOnlyLate |
| SalesEarnTheirCredits, AccountInvariance, PaidIsCredited, AccountTypes | AccountProofs | EarnedWithinCredits, `AccountInv`, PaidWithinCredits, the types |
| AccountIsAWallet | AccountProofs | `Spec => ImplementsWallet` |
| EntriesFollowStatus, NoDebtWithoutRefund | AccountProofs | PayoutsBalanced, DebtNeedsRefund |
| OneServer | WebhookInboxProofs | with starts that do not overlap, SingleProcess |
| ProcessedWasApplied | WebhookInboxProofs | ProcessedReflected |
| MediaInvariance, MediaTypesHold, ReferencedStay, FinishedJobsTell, UnusedQueued | MediaProofs | `MediaInv`, the types, the three invariants of Media |
| ListingsInvariance, ListingTypes, UnitsExplained, ShortOnlyByForm, UnseenOnlyOvertaken | ListingsProofs | `ListingsInv`, the types, the three properties of Listings |
| BackOfficeInvariance, BackOfficeTypes, ZonesStayDisjoint, NoSaveLost | CheckoutProofs | `BackOfficeInv`, the types, the two properties of BackOffice |
| CheckoutInvariance, CheckoutTypes, KeyMakesOneOrder, PreviewedCost, SharesMakeTotal | CheckoutProofs | `CheckoutInv`, the types, the three properties of Checkout |
| HubInvariance, SessionTypes, InactivityOnly, NoEventToRevoked, RevokedStays, RefusalsExplained | HubProofs | `HubInv`, the types of sessions, InactivityDecides, ActiveSessionsLive, RevokedIsFinal, RefusedForReason |
| ConversationInvariance, RepeatedRequestsAnswered, UnreadIsExact | SupportProofs | `ConversationInv`, RetriesAnswered, UnreadFollowsMessages |
| PushInvariance, CountsAreTold, SupportTypes, OneNoticeEach | SupportProofs | `PushInv`, CountsSettle, the types, NoticePerMessage |

The arguments:

* *The protocols of the shop.* The argument has two layers. The protocols are small:
  `StockInv` (types, exact counter, covered store stock) is inductive under every
  loop. Its core are the lemmas that one order joins or leaves the holders of a
  product, so that the cardinality moves by one exactly where `Shift` moves the
  counter; availability then carries over, because a reserved unit is always counted
  when another checkout looks. `LoyaltyInv` adds to the two counting properties that
  a REDEEM entry and the redemption status agree (`RedemptionOK`): without it the
  release after a settlement could not be shown to find its points. `PointsCovered`
  rests on the same invariant: what a reversal takes beyond the balance is at most
  what was earned and spent. The second layer says that each handler of the shop,
  however many components it touches, does to stock one step of the protocol or
  nothing, and the same for points. So the invariants are proved against five stock
  and five points actions, not against some thirty handlers, and carry over by
  refinement.
* *The life of an order.* Each handler is summed up once by what it does to an order
  (`Move`: it opens, closes unpaid, is accredited, reviewed or refunded, one of its
  seller orders moves, or it is kept), and the conjuncts of `LifeInv` are proved once
  per kind of move. None is inductive alone. That an accredited order was sold needs
  that rows leave the consumed state by no move; that an order waiting for payment is
  intact needs to say when a seller order waits or would wait again (`CanWait`),
  because deciding an issue gives back a remembered status; that one receipt decides needs that an order with an
  approved receipt cannot wait again (`ReceiptFinal`).
* *The account.* Its balances are sums over the sales and the withdrawals. What the
  community module's fold returns is characterized by a function over all subsets
  (`Sums`), and the few facts wanted of sums (`SumChanges`, `SumAdds`, `SumGrows`)
  are proved by a smallest counterexample: of the subsets for which an equation
  fails, finiteness gives one without a smaller. Sale by sale, `Follows` says that an
  operation on a ledger leaves PENDING non-negative and adds at most what it credits;
  withdrawal by withdrawal, entries are determined by status (`PayoutInv`). Paid
  within credits is then a statement about AVAILABLE alone (`HeldInv`): what is put
  aside or paid is what AVAILABLE lost, and `RequestPayout` looks at AVAILABLE in the
  transaction that takes from it. The refinement of Wallet follows handler by handler
  from what each changes in the sums.
* *The inbox.* `OneServer` needs `LockInv`: a running process owns the lock or is the
  only one alive, a lock that is not the process's own names a live one unless a crash
  left it, and only one process is between reading a stale lock and opening its own.
  Its assumption `MaxStarting <= 1` cannot be dropped: TwoServers is the
  counterexample. `ProcessedWasApplied` needs no such assumption: `ReflectedInv` adds
  that at each stage of a run its event had been received, so that the answer it reads
  includes the change.
* *The images.* `FileInv` says why a file does not come into use between the cleanup's
  look and its move: a file in use has no job, so no run is on it; one that is queued
  can never be attached any more; and each stage of a run keeps what earlier ones
  found or did, whichever of the two runs did it.
* *Listings.* A form carries what its route read before the transaction. `EditInv` and
  `AdditionInv` say what it still knows when its versions match: the units on hand, and
  that there is room for one more image. Each action is summed up by what it does to
  inventory, product and forms.
* *Back office and checkout.* A page holds the contents of the version it names, and a
  save takes a new one (`PageInv`). A quote keeps the prices of the versions it was
  made with (`Quoted`), so that two quotes for one request differ at most in what has
  no version (`OrderInv`).
* *Sessions and sockets.* `HubInv` follows a socket through every await: what the
  upgrade's look-up found, what is registered, and which callback is due. The sets of
  sockets and their limit do not enter: no proof depends on what a Set holds.
* *Support.* `ConversationInv` orders messages and read pointers by time and index and
  ties each stored request to its message. `PushInv` says that a push under way owes
  its count to those it is for and is the only one under way unless two overlapped;
  so a party either was last sent its count or has a push on the way that tells it.

Only model-checked: OrdersLeavePayment, AcceptedEventsEnd, CleanupEnds and
InvalidSocketsClose, because the prover treats neither fairness nor ENABLED; and what
the sets of sockets hold (HubTypeOK, SetsWithinLimit), which are
filtered with SelectSeq, of which the provers know nothing. The library's induction
schemes take an operator as a parameter and cannot be instantiated by the installed
provers; where an induction over sets was unavoidable (the sums) it is written out
as the search for a smallest counterexample.

## 6. Not modelled

* Passwords, one-time tokens, CSRF, cookies, Google linking, user status, and the
  in-memory rate limiter: the session layer takes its requests as authenticated.
* The card look-up: a cache of an external catalogue that no component reads.
* Signatures and transport of Mercado Pago, and e-mail.
* The write queue itself, which is the reason why handlers are single actions.
* The diagnoses of the reconciliation command that only report, and its repair of
  parent statuses, which is `ReconciledStatus` applied by hand.
* Routing, validation of request shapes, OpenAPI text, seeds, one-shot commands,
  read-only lists, the audit log.

`PROJECT.json` lists every component with its status and every hazard with the
properties that cover it, or the reason why none does.
