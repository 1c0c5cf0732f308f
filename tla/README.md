# Verification of manufacturing-erp-lite

TLA+ models of the ERP backend (`backend/app`, its migrations and its boot
sequence), from requisition to stock, TLC configurations that check them on small instances, and
TLAPS proofs of most of the checked safety properties for every instance.

## 1. The system

The backend is a FastAPI application over MySQL (InnoDB, REPEATABLE READ). A
request runs synchronously in one SQLAlchemy session and one transaction;
several requests run at once, in threads and worker processes. All shared
state is in the database. There are no background jobs and no retries: a
request commits once or leaves no trace. The container that runs the backend
migrates, seeds and, in a demo installation, resets the database at every start
before it serves.

| Component | State | Operations that change it | Talks to |
|---|---|---|---|
| Purchase requisitions (`purchase_requisition_service`) | requisition with lines, status, version, total; approval records | create, update, submit, approve, reject, revise, cancel | materials, departments; read by orders |
| Purchase orders (`purchase_order_service`) | order, lines, sources; `converted_quantity` of requisition items | create, confirm, cancel | flips requisition status both ways |
| Purchase receipts (`purchase_receipt_service`) | receipt with lines; `received_quantity` of order lines; order status | create, reverse | inventory core, orders |
| Inventory core (`inventory_service`, `utils/money`) | ledger (`inventory_transactions`), balances | `write_transaction`, `apply_inbound`, `apply_outbound`, under `lock_balances` | called by receipts and counts |
| Stock reconciliation (`stock_reconciliation_service`) | count document with frozen book state per line, status, version | create, update, submit, approve (posts), reject | inventory core |
| Master data (`material_`, `supplier_`, `warehouse_service`) | ACTIVE / DISABLED | create, update, disable, enable | guards of all documents |
| Inventory policies (`inventory_policy_service`) | safety stock, reorder point, maximum of a material in a warehouse | create, update | master data; read by the low-stock figures |
| Numbering (`numbering_service`) | counters per key and date | `next_sequence_value` | all documents (row lock until commit) |
| Audit log (`audit_service`) | log rows | `write_audit` | every handler, in its transaction |
| Users, roles, departments (`auth_`, `user_`, `role_`, `department_service`, `api/v1/deps`) | accounts, permissions of roles, departments, tokens held by clients | login, create, update, disable, assign permissions | permission check of every request |
| Dashboard (`dashboard_service`) and visibility rules | none | read only | orders, requisitions, balances, policies |
| Boot (`docker-entrypoint.sh`, alembic revisions, `init_data`, `seed_demo`) | schema, `alembic_version`, seeded rows, ledger triggers | wait, migrate, seed, reset and replay the demo story, serve | everything else |
| Frontend, showcase | - | - | the API |

**What is hard.** Every handler mixes reads of its snapshot (plain SELECTs and
ORM objects) with reads of current rows (`UPDATE ... WHERE`, `SELECT ... FOR
UPDATE`, upserts), and then lets the ORM write loaded objects back. Which of
the three a value comes from decides whether an interleaving is safe, and no
single-threaded test tells them apart. Besides, locks are taken in
document-dependent order, amounts are rounded at each step, documents go
through several rounds of edits and decisions while stock keeps moving, a
flush orders its statements in its own way, and MySQL commits every DDL
statement by itself, so that a boot may die between any two. `PROJECT.json` lists the hazards at their
lines.

**What makes each part correct.**

* Inventory: balance = sum of the ledger in quantity and value; true running
  balances; nothing negative; no value without goods; no goods in a disabled
  warehouse.
* Orders and requisitions: no over-conversion; converted quantities are those of the active
  orders; the requisition status follows from them; no active order on a
  cancelled requisition.
* Receipts: received quantities are those of the posted receipts and within
  the order; the order status follows from them; CANCELLED is final; a receipt
  is undone at most once and at its own amounts.
* Counts: posted at most once, as recorded, to the counted quantity, and only
  if nothing moved since the count; edits are not lost.
* Approval: only legal transitions, history and status agree, totals are the
  sum of the lines, the approver decides on what the page showed.
* Locks: no circular wait, and every request gets through.
* Numbering and audit: no two documents have one number, later documents have
  greater ones, an audit row lives and dies with its document.
* Master data and policies: thresholds in order, only on active rows; a
  disabled row or account stays disabled until someone enables it.
* Home page: the todo lists are exactly the work there is, the stock figures
  exactly what is on record, lists and figures follow one visibility rule.
* Boot: whatever statement it died in, the restarts complete it, or it is known
  what makes them fail for good; a process that serves has the whole schema, its
  guards and the bootstrap data.

## 2. Modules

| Module | Models | Extends |
|---|---|---|
| `Sums` | `SUM(...)` over a finite sequence, a recursive function | - |
| `Costing` | `utils/money.py` (ROUND_HALF_UP) and `_new_average` | - |
| `Inventory` | ledger, balances, posting of a batch of movements | `Sums`, `Costing` |
| `StockBook` | the abstract promise of the inventory: an append-only journal with non-negative stock | `Sums` |
| `Procurement` | orders, receipts, reversals, cancellations, what posted counts do to the stock, master data, sessions | `Inventory` |
| `StockReconciliation` | stock counts, with receipts and reversals around them | `Inventory`, `LineNumbers` |
| `Requisition` | the life of a requisition up to its approval or cancellation | `Sums`, `Costing`, `LineNumbers` |
| `LineNumbers` | replacing the numbered lines of a document in one flush | - |
| `Locking` | the row locks of receiving, reversing, counting and cancelling | - |
| `Numbering` | drawing numbers and writing the audit row, statement by statement, with failures and crashes | - |
| `NumberBook` | the abstract promise of numbering: each commit adds as many numbers as it draws, greater than all in use | - |
| `MasterData` | materials, suppliers, warehouses, policies and their audit rows | - |
| `Administration` | login, the guard of a request, users, departments, permissions of roles | - |
| `Migrations` | the nine alembic revisions as sequences of DDL statements | - |
| `Startup` | the container: boot, death, restart, serving | `Administration`, `Migrations` |
| `Dashboard` | figures, todo lists and visibility rules as functions of the state of `Procurement` | `Procurement` |
| `MC*` | values of the constants for TLC | the module they are named after |
| `Sums_proofs`, `Inventory_proofs` | lemmas about sums, batches and posting | `Sums`, `Costing`, `LineNumbers`; `Inventory` |
| `Procurement_proofs` | theorems on the purchasing chain: stock, the quantities of documents, the home page | `Dashboard`, `Inventory_proofs` |
| `StockReconciliation_proofs`, `Requisition_proofs`, `Locking_proofs`, `Numbering_proofs`, `Startup_proofs` | theorems on the module they are named after | that module |

`Inventory` is one component used by two others: `Procurement` and
`StockReconciliation` compose it with the documents that move stock. Both are
checked to implement `StockBook` (`StockIsABook`: `INSTANCE StockBook` with
`journal` mapped to the key, quantity and amount of the ledger rows and `onHand` to quantity and
value of the balances). `Numbering` is checked to implement `NumberBook` in the
same way (`NumbersAreABook`). `Startup` composes the boot with `Administration`: one database, the requests of
the one running between the restarts of the other.

### Sessions

`get_db` opens a session and the user query of `get_current_user` (first query
of every request) fixes its REPEATABLE READ snapshot. In the models a request
is therefore two steps: `Begin(s)` stores what the session sees in `snap[s]`; a
later action is the whole handler with its commit. Inside it,

* plain SELECTs, and attributes of ORM objects, read `snap[s]`;
* conditions of `UPDATE ... WHERE`, locking reads and upserts read the current
  variables;
* an assignment to an ORM object writes its value by primary key at the flush
  (`autoflush=False`, `synchronize_session=False`), even if the row has changed.

A handler is one step although it runs many statements. This loses nothing:
every current row it reads or writes stays exclusively locked until COMMIT, and
everything else it reads is frozen, so it can be moved to its commit point.
What this reduction hides, the waiting for those locks, is the subject of
`Locking`. `Rollback(s)` stands for every way a request can end without effect:
a failed check, a lost compare-and-set, a constraint, a deadlock victim, a lost
connection, a crash. The exception is `Numbering`, where a request is taken
apart into its statements, since what it is about happens between them.

With one session requests are served one after the other, with two they
overlap. Runs with one session (`*_serial`) check the logic of the handlers;
runs with two (`*_concurrent`) what survives interleaving.

### State and actions against the code

* `Procurement`: `converted`, `received`, `source` are the quantity columns of
  requisition items, order lines and `purchase_order_item_sources`; `prStatus`,
  `poStatus`, `poVersion` the headers; `receipts` the receipts with their
  lines; `disabled` the master data. `CreatePo`, `ConfirmPo`, `CancelPo`,
  `CancelPr`, `CreateReceipt`, `ReverseReceipt` and the disable/enable actions
  are the service functions of the same names. `SeenReceived` is the write-back
  of the ORM objects, `RecomputePoStatus` the derived status and its UPDATE by
  id. Ids of lines are their numbers, in which order create and reverse process
  them. `PostCount` is what `approve_reconciliation` does to the stock: it posts
  a count of one key at the frozen book, which its guards make the locked
  balance, and asks for the status of nothing. The document of the count, its
  rounds and its guards are in `StockReconciliation`. There a count of a disabled
  warehouse cannot be drafted; here the draft is not kept, so a count may also be
  posted that would have had to be drafted after the disabling. With one count,
  as in the runs, there is always a draft old enough.
* `Inventory`: a batch is what one document posts. `Rows` gives the ledger
  rows with the running `balance_after`; `PostInbound` and `PostOutbound` apply
  the totals per key. A missing balance row and a zero row are the same;
  `inventory_balances.version`, which nothing compares, is left out.
* `StockReconciliation`: an item keeps its primary key, the frozen book
  (quantity, value, average, watermark) and the derived difference, rate and
  amount. `EditedItem` is the loop of `update_reconciliation`, `CountBatch` and
  `PostAdjustments` that of `approve_reconciliation`; `EventGuard` reads the
  ledger that the snapshot shows, `StateGuard` the locked balance.
* `Requisition`: `SyncedItems` is `_sync_items`, `RecomputedTotal` is
  `_recompute`. `page` is what an approver's browser shows; `VersionOK`
  compares its version with the loaded one. Other operations are given the
  loaded version, which is what their check asks for.
* `LineNumbers`: a flush UPDATEs kept rows in primary-key order, then INSERTs,
  then DELETEs. `LinesFit` says when this never gives two rows one line number.
* `Locking`: a request is the sequence of its row locks. A foreign-key check
  locks the parent in shared mode, UPDATEs and upserts lock exclusively, and
  requests for a row queue up. A failed or finished request frees its locks.
  `WholeDeliveries` is the condition under which the balances keep the
  deliveries of an order apart.

* `Numbering`: a request is the sequence of counter rows its handler draws from
  (`create_receipt`: RCV, then TXN per line). `draft` holds the counter rows the
  transaction has written, and so has locked; `ReadBack` is the plain SELECT
  after the upsert. `Rollback` is an error at any statement, or a crash.
* `MasterData`, `Administration`: `Flush` and `FlushStatus` are the column-wise
  UPDATE of the ORM, which leaves out columns that equal the loaded value.
  `log` and `grantLog` keep what the newest audit row says, `tokens` the
  clients with an unexpired JWT. Of the permission matrix those that guard
  these operations are kept.
* `Migrations`: a statement adds, drops or redefines objects (tables, triggers,
  and the columns and constraints that a later revision touches). The schema
  says which revision gave each object its definition; a statement on a missing
  or existing object fails like MySQL's.
* `Startup`: `phase` is the step of the entrypoint, `pc` the next statement.
  `Die` ends the process anywhere and loses its sessions. `InitData` is one
  transaction. `Wipe` is `wipe_chain` with the implicit commits of its DDL;
  `StoryRuns` says what `seed_demo` and its `verify` need of accounts,
  departments and permissions: `CanReceive` to its first receipt, which commits
  by itself, then the requisition of the manager, then the figures of the home
  page (`DashboardsAgree`). Of the other permissions a role is taken to have
  what the seeding grants it.
* `Dashboard`: a figure is the set its query counts. `ListPos`, `GetPo` and
  `PoScope` are three copies of the visibility rule, as in the code.

Abstractions. Quantities are small integers; prices and averages are fixed-point with `Scale`
units per unit of money, so that products and averages really round (`Costing`).
In the document modules permissions (`require_perm`), document numbers and audit
rows are left out, since `Administration` and `Numbering` have them; reasons,
remarks, dates and texts everywhere; owner, manager, admin and self-approval rules are kept in
`Requisition` and `StockReconciliation`. A request that repeats the id of a
requisition line, which the edit page never sends, is left out.

## 3. Checks

Passing runs (two sessions unless serial):

| Run | Properties | Shows |
|---|---|---|
| `procurement_serial` | ReceivedMatchesReceipts, PoStatusDerived, CancelledHasNoGoods, CancelledPrHasNoActivePo, NoGoodsLockedUp; TodosAreWork, StockFiguresAreDocuments, ScopesAgree | without overlap, the whole chain from requisition to stock is consistent, and eight users of the five roles see it as it is |
| `stock_concurrent` | TypeOK, BalanceIsLedgerSum, RunningBalance, ReversedExactlyOnce, NoResidue, StockIsABook | the stock is right under every interleaving of receipts, reversals and a count: row locks and the reversal claim suffice, even where the order side goes wrong |
| `conversion_concurrent` | ConvertedMatchesSources, NoOverConversion, PrStatusDerived | the compare-and-set on items and the NOT EXISTS flips are safe as long as nothing is received |
| `counts_concurrent` | TypeOK, PostedOnce, NoLostEdit, StockIsABook | the claim and the version check of edits hold under races |
| `counts_serial` | PostedAsRecorded, CountReached, NoMovementInWindow | through rounds of edits a posted count does what it says |
| `approval_concurrent` | ApprovalIsFinal, LegalTransitions | the conditional UPDATEs keep the state machine and its history |
| `approval_serial` | TotalIsSum, ApprovedAsRead | totals and outdated pages |
| `lock_order` | NoCrossWait, RequestsFinish | sorted balance locks serialise whole deliveries and counts, and nobody is overtaken for ever |
| `numbering_concurrent` | NeverCollides, AuditFollowsDocuments, NumbersAreABook | two sessions on two dates, failing anywhere: the lock kept by the upsert makes the read-back safe, and commits keep the numbers in order |
| `master_data` | PolicyRulesBreakOnlyInRaces, DisabledUntilEnabled | the rules on policies and statuses break only through overlapping requests; no edit revives a row |
| `startup` | ServesComplete, GrantsFollowAudit, DisableSticks, Recovers, StuckIsFinal | two deaths or timeouts at any statement of boot or service, with and without the demo story, three administrative requests in two sessions |

Bounds, and why they are enough. Two sessions are what a lost update, a
check-then-act race or a double claim needs; `lock_order` has three because a
circular wait can need them. Two lines of one material exercise the running
balance and the aggregation per key; three receipts allow a partial receipt, its
completion and a reversal in between (two in `procurement_serial`: a partial
receipt and its completion, with reversals of either); one posted count, at a
rate of its own, can come before, between and after them and may find more or
less than the book, several lines and counts are in `StockReconciliation`; requested quantities allow splitting an
item over two orders and overshooting it. Prices 5, 6 and 2 at scale 4 make
amounts round up and down. In the counts, three or four ledger rows hold a
receipt, its reversal and the adjustments of the lines, and `MaxVersion` allows
a rejected and resubmitted round. `Retirable` names the master data a run
disables. In `numbering_concurrent` four documents hold a receipt with its two
movements and another document, or four of one counter. In `startup` the first
death can strike a migration and the second the repair, or one the reset and
one the service; three requests are a login, a change and a racing change. Two
thresholds and three optional fields give every order of a policy's fields. The
users of `procurement_serial` are the applicant of the requisition and another,
the manager of its department and another, the buyers of the two orders, a
warehouse keeper and the administrator. Sessions are symmetric where no
temporal property is checked: no action distinguishes them. Deadlock is checked
in all runs: a request can always begin, roll back or, in `Locking`, proceed.

Fairness. Two specifications state it.

* `Locking`: weak fairness of `Request(s)` and `Commit(s)` for every session. A
  handler is straight-line code that goes on as soon as its lock is granted,
  and it takes a finite number of locks. That locks are granted in the order
  of the requests is how InnoDB queues them. Starting requests is not fair, and
  others may arrive for ever.
* `Startup`: weak fairness of `Boot`, the steps of the entrypoint. Docker
  restarts the container (`restart: unless-stopped`) and the entrypoint runs on
  as long as it lives. Deaths and timeouts are bounded (`MaxFaults`): the claim
  is about what happens once they stop. Requests are not fair. `Recovers` leaves
  one way out, `Stuck`: the container is down over a database on which the next
  boot fails, since the pending revision, run from its first statement, meets a
  statement that fails, or since the demo story cannot run. A boot that is
  merely under way is not `Stuck`, nor is the first one, and `StuckIsFinal` says
  that the way out is no shortcut: from there the service never comes back.

Nothing else drives a document forward by itself, and a request that fails is
not retried, so no other liveness is claimed.

### Disagreements between code and documentation

The run `lost_receipt` ends in a violation of what a document of the repository
states (quote in `PROJECT.json`): two receipts of one order line overlap;
`poi.received_quantity = poi.received_quantity + q` after the atomic UPDATE
writes the snapshot value back, and one receipt disappears from the order.

The same modules show further ones; each has a configuration and a property
that TLC refutes within a minute or two. (The module is `MCProcurement`,
`MCStockReconciliation`, `MCRequisition`, `MCLocking`, `MCNumbering`,
`MCMasterData` or `MCStartup`, whichever extends the one that defines the property. A star marks
configurations that name another property: the one of the row takes its place,
as the comment in the file says.)

| Configuration | Property | Cause |
|---|---|---|
| `LostReceipt` * | CancelledIsTerminal | `recompute_po_status` writes RECEIVED over a CANCELLED committed since the snapshot ("CANCELLED is terminal", `purchase_order_service.py:77`) |
| `LostReceipt` * | NoOverReceipt | write-back as in `lost_receipt`, then a further receipt |
| `LostReceipt` * | CancelledHasNoGoods | write-back of a racing reversal hides goods from `cancel_po` |
| `StaleStatus` | PoStatusDerived | two sessions receive different lines, each derives the status from its snapshot |
| `OverConversion` | NoOverConversion | a cancelled order comes back as above, after its sources were returned and ordered again |
| `LostReceipt` * | CancelledPrHasNoActivePo | `cancel_pr` and `create_po` check each other by plain reads |
| `DisabledStock` | DisabledWarehouseIsEmpty | one session is enough: an empty warehouse is disabled while a count of it waits for approval, and `approve_reconciliation` does not ask for the status again ("stock exists but warehouse unusable" is what the check is to avoid, `warehouse_service.py:4-5`). With two sessions a receipt that races the disabling does it as well: `_assert_no_stock` and the status check of a receipt are plain reads |
| `StaleCount` | NoMovementInWindow | the watermark of the event guard comes from the snapshot, so a receipt and its reversal between snapshot and lock go unnoticed (`docs/stock_reconciliation.md:104`) |
| `StaleCount` * | DecidedAsSeen | submission and decisions of a count test the status, not the version |
| `OtherCount` | PostedAsRecorded | the claim of an approval matches a later round than the loaded lines |
| `Residue` | EmptyStockHasNoValue | a loss at the rounded average empties the stock but not its value |
| `StaleTotal` | TotalIsSum | submission writes the total of the loaded lines |
| `StaleTotal` * | VersionGrows | loaded version + 1 overwrites an incremented version |
| `UnreadApproval` | ApprovedAsRead | two states of a requisition share a version |
| `DropLine` | LinesCanBeDropped | dropping any but the last line of a draft count runs into `uk_rc_line`: a flush updates before it deletes |
| `DropRequisitionLine` | LinesCanBeDropped | as `DropLine`, with `uk_pri_line` |
| `CrossWait` | NoCrossWait | receipt and reversal for one order in two warehouses: shared lock on the order against the line lock |
| `PolicySkew` | PoliciesInRange | two updates of one policy write different columns, each in order with what it had loaded (`inventory_policy_service.py:6`) |
| `LedgerGuard` * | UsersBlockDisabling | `disable_department` looks for users by a plain read while one moves in ("Users still referencing the dept block it", `department_service.py:70`) |
| `LedgerGuard` * | PermissionsAsAudited | the seeding of the next boot grants again what an administrator took from a system role; the newest PERMISSION_CHANGE row then names another number of permissions |
| `LedgerGuard` | LedgerGuarded | the demo reset dies between its two CREATE TRIGGER; the next one finds an empty ledger and skips the repair, and the service runs without the delete guard |
| `Recycled` | DrawnIsSpent | a rollback undoes the upsert, so the number is given out again and the counter stays locked until the business transaction ends |
| `LedgerGuard` * | BootIsIdempotent | a revision that died between two statements fails at its first one ever after (`docker-entrypoint.sh:5` calls it idempotent), and the demo story fails for good once a seeded account is disabled, has a new password or another role, the applicant or the manager is left without an active department, or the role WAREHOUSE gets pr:view |

On numbers the documents disagree with each other, and the code with most of
them. `models/support.py:31-33` and `docs/database-design.md:738-747` say that a
number is drawn in a short transaction of its own, committed at once and
discarded when the request fails, and forbid to hold its lock for the business
transaction; the docstrings of `numbering_service` (lines 15-16 and 95) have the
upsert inside the business transaction and still say that numbers are never
recycled. The code runs the upsert in the transaction of the request: a
rollback takes it back, the next request gets the same number, and the lock
stays until the commit, as `docs/requirements.md:365` wants it. `Recycled` shows
it. `NumbersAreABook` claims only what all of them agree on: gaps are allowed,
committed numbers never repeat, and they follow the order of the commits. (The
demo reset deletes documents but keeps the counters; it is not part of
`Numbering`.)

The comment at `dashboard_service.py:88` says that a buyer's
PO_RECEIVE entry is about the buyer's own orders; the query counts all, as the
scope of the order list has them, and `TodosAreWork` states it so.

These are also why some properties are claimed for serial requests only. That
edits of a requisition are never lost is not claimed at all: with versions
used twice, three sessions could lose one.

## 4. Proofs

Every theorem is about the specification that TLC runs, for every value of the
constants that satisfies the named assumptions (any number of sessions,
documents, lines, warehouses, users, any prices and bounds).

### Hypotheses

* Most theorems have none: `Spec => []P` or `Spec => P`, under every
  interleaving.
* `ASSUME Serial` (`\A s, t \in Sessions : s = t`): there is one session, so
  requests do not overlap, while failed requests, any order of requests and any
  number of them remain. These are the properties that section 3 shows to break
  with two sessions, so the hypothesis cannot be dropped.
* `ASSUME WholeDeliveries` for `NoCrossWait`: any two receipts of an order go to
  the same warehouse and have a material in common, and the order is not
  cancelled meanwhile. The run `lock_order` has receipts of this kind; the
  configuration `CrossWait` shows a circle without it, so it cannot be dropped.
* `Spec /\ CancelledIsTerminal => []P`, for the three properties of conversion:
  sessions overlap in any way, as long as no stale write brings a cancelled order
  back. `OverConversion` shows what happens otherwise; `CancelledStays` shows
  that the condition holds when requests do not overlap. When nothing is
  received, as in the run `conversion_concurrent`, it holds as well, for only
  `recompute_po_status` can leave CANCELLED.

Assumptions on constants say what the code and the schema say: the tables of
master data are disjoint and what can be disabled belongs to them; every
requisition has an item (`submit_pr`); quantities and prices are naturals. One
of `Numbering` is about the handlers: the counter of the document a request is
about, drawn first, is never one that a handler draws from later (TXN, for the
ledger rows), so that an audit row tells which request it belongs to. For
`Locking`, sessions are finitely many (the connection pool), ids are integers,
and a line belongs to one order.

### Theorems

| Module | Theorem | States | Hypothesis |
|---|---|---|---|
| `Sums_proofs` | OnlyTheLastLineDrops | a flush can drop the last line of a document and no other one | - |
| `Procurement_proofs` | TypeCorrect, LedgerReconciles, LedgerRunsTrue | TypeOK, BalanceIsLedgerSum, RunningBalance | - |
| | StockRefinesBook | StockIsABook | - |
| | ReversalsAreExact | ReversedExactlyOnce | - |
| | NoStrandedValue, StockFiguresAreTrue | NoResidue, StockFiguresAreDocuments | - |
| | ScopesAreOne | ScopesAgree | - |
| | ReceiptsAddUp, StatusAddsUp, CancelledOrdersAreEmpty, ReceiptsAreBounded | ReceivedMatchesReceipts, PoStatusDerived, CancelledHasNoGoods, NoOverReceipt | serial |
| | CancelledRequisitionsAreFree, DisabledWarehousesAreClosed | CancelledPrHasNoActivePo, NoGoodsLockedUp | serial |
| | ConversionsAddUp, ConversionsAreBounded, HeadersFollowItems | ConvertedMatchesSources, NoOverConversion, PrStatusDerived | CancelledIsTerminal |
| | CancelledStays | CancelledIsTerminal | serial |
| | TodosAreTrue | TodosAreWork | serial |
| `StockReconciliation_proofs` | TypeCorrect, CountsReconcile, CountsPostOnce, EditsAreNotLost | TypeOK, BalanceIsLedgerSum, PostedOnce, NoLostEdit | - |
| | StockRefinesBook | StockIsABook | - |
| | CountsAreRecorded, CountsAreReached, CountsAreUndisturbed | PostedAsRecorded, CountReached, NoMovementInWindow | serial |
| `Requisition_proofs` | ApprovalsAreFinal, StatusMovesLegally | ApprovalIsFinal, LegalTransitions | - |
| | TotalsAreSums, ApprovalsAreRead | TotalIsSum, ApprovedAsRead | serial |
| `Locking_proofs` | NobodyWaitsInACircle (with the invariant LockInvariance) | NoCrossWait | WholeDeliveries |
| `Numbering_proofs` | NumbersNeverCollide, AuditRowsFollow | NeverCollides, AuditFollowsDocuments | - |
| | NumbersFormABook | NumbersAreABook | - |
| `Startup_proofs` | TypeCorrect, ServiceIsComplete, GrantsAreAudited, DisabledStays | TypeOK, ServesComplete, GrantsFollowAudit, DisableSticks | - |
| | UsersBlockWhenSerial | UsersBlockDisabling | serial |

### Arguments

**Sums and stock.** `Sums_proofs` has the facts about sums (extension,
concatenation, congruence, bounds, a change at one place), by a
least-counterexample argument over the length; it also has what is proved
about `LineNumbers`. `Inventory_proofs` shows that a
batch built by `InLineOrder` is a sequence of movements, that `PostInbound` and
`PostOutbound` preserve `StockInv` whoever calls them, and that they are steps
of `StockBook`. `StockInv` needs balance and ledger together: the balance can
only be the sum of the new ledger if it was that of the old, and a running
balance is only the running total if the stored balance was the sum.

**Procurement.** TypeOK is more than typing: quantities are in `Nat`, so it
says that the compare-and-sets and CHECKs never let one go below zero. It is
not inductive alone: a handler writes values computed from its snapshot, so
`IInv` adds that snapshots are well typed and that the ledger rows they show
exist (`SnapOK`), to `DocsOK` and `StockInv`. For reversals, `HInv` says which
rows of the ledger belong to which receipt line: the original is unique, a
reversal row points at an original of a reversed receipt, and every line is
accounted for. The claim on the current status is what preserves it when two
reversals race.

**Quantity chain.** `StockIsDocuments`: the quantity and the value of a key are
the totals of the posted receipts, line by line with each line's own rounded
amount, plus the totals of the ledger rows that counts wrote. Rounding cancels
because a reversal negates the original amount (`HInv`), so an empty key that
was never counted has no posted goods and no value; a counted one may keep
value, as `Residue` shows. `NoGoodsLockedUp` looks back along the ledger of a
key: it was empty when its warehouse was disabled, and since then no receipt
entered it, because a serial request sees the status as it is (`Fresh`);
reversals and counts may still move it. In the serial part, `Fresh` (an open session sees the current state) turns a write-back into
an increment, and `ChainInv` ties received quantities, receipts and order
status together; goods need a confirmed order (`NoEarlyGoods`), so an order
without goods may be cancelled or reused. `ConversionInv` needs no fresh
snapshots: the compare-and-sets work on current rows, and `NoGhosts` says that
a snapshot or a receipt names only orders that exist. For the todo lists,
`OrdersFilled` and `ReceivedWithinOrder` make the status of an order say
whether goods are outstanding: every line orders something, so CONFIRMED waits,
and no line has more than it ordered, so a line that differs waits.

**Home page.** `StockIsDocuments` gives the value of a key and the goods still on
record. That a key with a balance row is one into which goods were received or
on which stock was counted, and no other, needs the ledger: every reversal row
points at an original row of its key (`HInv`). So the figures are right under every interleaving, although the
order side is not. For `ScopesAgree`, the orders that exist are finitely many,
since a step creates at most one, whatever the size of `Orders`
(`FiniteOrders`); the five statuses partition them, so the counts add up.

**Counts.** `IInv` adds to TypeOK and `StockInv` that the lines of a document
have distinct materials and ids and a difference that is count minus frozen
book (`LinesOK`), that a session sees a past of each document, and the document
itself when it sees its version (`SnapshotsOK`: this is why the compare-and-set
on the version loses no edit), and that a count row in the ledger names a line
of its document (`SourcesOK`). In the serial part `Recorded` describes each
posted line by its ledger row, watermark and count; the guards of the approval
establish it, and later rows do not disturb it.

**Approval.** `IInv` is TypeOK, ApprovalIsFinal and that records name existing
requisitions; every operation tests the current status. In the serial part a
page that carries the current version shows the current requisition (`PageOK`).

**Locks.** The rows are ranked: document, balances by material, receipt counter,
and last the ledger counter with the order and its lines. Every request asks in
this order (`CreateReceiptAsks`, `ReverseReceiptAsks`,
`ApproveReconciliationAsks`). `LockInv` says that the entries of the queues are
what the sessions have asked for, and that a session waits only for its newest
lock, so it holds all the others. Whoever waits for somebody who waits is then
at a lower rank or smaller material, or further back in the same queue
(`WaitsClimb`), and in a finite set somebody is last. The order alone does not
give this for the last rank, where line, order and counter come in several
orders: there nobody waits for a line, or for an order with receipts, since a
request that has come so far heads the queues of its balances, and two requests
cannot both head the one their deliveries share (`NobodyMeets`).

**Numbering.** The statements of a request interleave with those of others. A
counter row that a session has advanced is locked until it ends (`Exclusive`);
the committed documents of a row are numbered 1 to its counter (`Committed`);
the numbers that a session holds are those from the counter to its draft, each
once (`Counted`, `Numbered`). So the read-back can only return the session's
own draft, and a commit adds to each row numbers above all those in use, as many
as it drew (`CommitIssues`): the steps of `NumberBook`.

**Boot.** `BootInv` says how far the schema is for every place where a boot can
die: before statement `pc` of a revision the schema is that of the revision
before, changed by exactly the statements done (`DoneUpTo`, `LeftAlone`), the
stamp names the last complete revision, and a process past the migration has
the head schema (`HeadOK`, `PhaseOK`). Facts about the nine revisions go in,
for instance that what a revision drops it creates again. When requests do not
overlap, the one open session sees the users as they are (`SeesNow`): only a
serving process has sessions, and every handler that writes ends its own.

### Only model-checked

* `RequestsFinish`, `Recovers` and `StuckIsFinal`: temporal, the first two under
  fairness.
* `PolicyRulesBreakOnlyInRaces` and `DisabledUntilEnabled` of `MasterData`:
  planned.

## 5. Not modelled

* Dashboard: the count of pending requisitions (they belong to `Requisition`),
  the trend by apply date, and the two activity feeds.
* Count documents in `Procurement`: there a posted count is one step that
  moves the stock of one key, so a count of several lines is several steps; the
  documents, their versions and the event guard are in `StockReconciliation`.
* List queries with their filters and pages, beyond the visibility rules.
* Audit rows of the document handlers, inside the document modules: `Numbering`
  has the transaction they share with the document.
* Roles as such: on a seeded database `create_role` and `delete_role` always
  refuse, since the five codes exist and are system roles, and nothing reads
  the name and status that `update_role` sets.
* Downgrades of the schema, which nothing runs; the business data of the demo
  story, beyond whether the ledger has rows.
* The mapping of errors to HTTP answers, settings, application wiring, frontend
  and showcase: they keep no state of their own.

## 6. Plan

Done: the modules above, in the order inventory, procurement, counts,
requisitions, locks, numbering, master data, administration and boot, home
page; the theorems of section 4. Next, in order:

1. **Theorems on master data**: `DisabledUntilEnabled`,
   `PolicyRulesBreakOnlyInRaces`, and `PoliciesInRange` for requests that do not
   overlap.
2. `Locking`: `create_po` and `cancel_po` with their requisition items (sources
   are locked in the order of the request).
