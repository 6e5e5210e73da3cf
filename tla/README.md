# Verification of universal-mail-automation

TLA+ models of the parts of this repository that change somebody's mailbox,
account or record and must not get it wrong: what a write does when the process
dies, the disk fails, a server answers late or twice, or a person touches the
same thing meanwhile. Each module is translated from the source; `PROJECT.json`
names the lines every definition stands for.

## Inventory

| part | state it keeps | operations | hard behaviour | what makes it correct |
|---|---|---|---|---|
| flag transaction engine, `core/flag_transactions.py` | append-only ledger file, lock files | preflight, apply, canary apply, rollback (one receipt, batch), probe | crash between claim and dispatch, failing appends, late effects, two workers, partly done batches | a mutation is written and restored at most once; the ledger never says something false; reports leave nothing out |
| override store, `core/flag_workflow.py` | `overrides.json` (overrides, suppressed, last_automation) | detect (and suppress), unlock, record automation state | shared by all plans, while locks are per plan | a recorded override keeps automation away until an operator unlocks |
| Mail.app provider, `providers/mailapp.py` | none (the mailbox) | scoped read, compare-and-set of the flag | killed scripts may still take effect | reports refusal only when nothing was dispatched |
| audits, plans, approvals, `core/flag_workflow.py` | content-hashed files | scan the surfaces, build, edit, select, approve | a surface that fails while others are read, files that pass through an operator's hands, windows that lapse | nothing is written that a complete scan did not find and an approval did not name |
| flag policy, `core/flag_policy.py` | none | classify, map to a flag, decide who may change it | every combination of detectors | a change without a person is sure of itself |
| activation, `core/flag_activation.py` | proposal, approval, rollback bundle, receipt | propose, canary, roll back | crash between two artefacts, named paths that are overwritten, reviews and policy that move on | what was written can be taken back |
| maintenance, `core/maintenance.py` | dispatch receipt, category receipt | dispatch an approved command, change categories | killed schedulers whose child lives on, two schedulers | approved work is begun once and reported as it ended |
| archive transactions and guard, `core/archive_transactions.py`, `archive_guard.py`, native adapters | one receipt file per plan, rewritten in place | plan, apply, rollback, verify | crash between intent and outcome, failing rewrite, late moves, people in the mailbox | no message is archived twice; the receipt is true; a rollout rests on a verified canary |
| corpus research, `core/corpus_research.py` | a manifest and evidence files per corpus | build a corpus, run a unit | bounded units, failing threads, stops anywhere | every readable thread is collected in the end |
| reviews and obligations, `core/corpus_review.py`, `core/obligation_workflow.py`, `core/archive_guard.py` | review file and history per thread, guard file | record, derive, guard | two reviewers, crash between history and file, evidence that ages | an archive permission rests on everything the thread says |
| receipt-bound send, `mail_send.py`, `mail_send_safety.py` | receipt file, attempt markers | preview, claim, SMTP, verify, trash draft | connection lost after DATA, receipt withdrawn on the way, power failure around the marker | one attempt sends at most once, and only what was signed |
| batch sender, `send_drafts.py` | `drafts_sent.json` | scheduled run | crash between answer and checkpoint, overlapping runs | a reply is repeated only for a cause; every reply goes out |
| send policy, `core/send_policy.py` | a file | read | withdrawn during a run | nothing is sent against it |
| intelligence, actions and drafts, `core/historical_intelligence.py`, `mail_action_*.py`, `mail_resolver_*.py`, `mail_draft_*.py`, `mail_delivery.py`, `mail_status.py` | a cache and four append-only receipt files | find, plan, decide, deliver, resolve, snapshot, queue | commands, HTTP handlers and MCP tools beside one another, reading one file before they append to another; ids that are hashes; receipts of one second | a delivery rests on an approval of that draft; what was missed stays in the queue until somebody closed it; no text falls between the tables |
| commercial store, `api/store.py` | SQLite tables | accounts, usage, idempotency keys, fulfilment, receipts | crash between transactions, claims taken over after 60 s | a session is credited once; a key answers one payload |
| billing webhook, `api/billing.py` | account row, event ids | webhook | repeated, reordered and interrupted deliveries | access follows the subscription |
| metering, `api/metering.py` | usage counters, credits | reserve, commit, roll back | races of runs, the month's end, crash before the refund | no run is lost or counted twice; the cap holds |
| agentic checkout, `acp/router.py`, `acp/payment.py` | sessions, fulfilments | create, update, complete, cancel | crash around the charge, retries, ambiguous charge | one charge, one credit, one receipt, and the receipt describes what was paid |
| triage loop, `cli.py` `run_labeler`, with `core/state.py`, `core/vault_sync.py` | resume token, remote copy of it | run, resume, interrupt | offsets into a mailbox that changes, failed saves, stale remote copy | a sweep that ends has seen everything |
| inventory, `core/mail_inventory.py` | paged files | page, resume | interrupted paging | a complete inventory lists everything |
| rules, triage, `core/rules.py`, `core/triage.py` | none | classify | none (pure) | agree with the tables |
| secrets, `auth/service.py` | encrypted SQLite rows | store, resolve, rotate | rotation beside a writer | every stored secret stays readable |
| everything else (reports, MCP transport, other HTTP handlers, legacy scripts, web) | files, none | dispatch, report | little | not planned |

How the parts interact. The CLI audits the mail, builds a plan and an approval,
both content hashed, and hands them to the flag engine; an activation does the
same for one to three messages and keeps what it takes to undo them. The engine
takes the plan's advisory lock, asks the ledger what happened before, asks the
override store whether a person claimed the message, and calls the provider with
an exact reference. Plans share the ledger file, the override store and the
mailbox, but not the lock. The scheduler starts any approved command as a child.
The archive engine has one lock for its state directory and one receipt file per
plan; before each move it asks the guard, which reads the override store, the
protection rules and the guard file. The guard file is built from a corpus
inventory and from reviews, and the reviews from the evidence that corpus
research collected. The two senders share only the send policy; the desk records
approvals and deliveries of drafts and calls neither of them. The HTTP
surfaces (webhook, metered runs, agentic checkout) share only `api/store.py`; a
metered run calls the triage loop and learns of it whether it raised.

## Modules

| module | what it is |
|---|---|
| `FlagLedger` | statuses, rows, scans of the row sequence, and how one append moves the answers of a scan |
| `FlagTransactions` | the flag engine with its workers, locks, ledger, override store, mailbox and requests |
| `FlagLifecycle` | the abstract promise about one flag mutation; `FlagTransactions` implements it |
| `FlagInvariants` | the inductive invariants of the engine |
| `FlagPolicy` | the classifier from its detectors to the decision who may change a flag |
| `FlagActivation` | audit, plan, approval, canary and its rollback; extends `FlagPolicy` |
| `Maintenance` | the scheduler's dispatch of approved commands, and category plans |
| `ApprovedChanges` | the engine, the activation, the classifier and maintenance, as a sum |
| `ArchiveTransactions` | the archive engine, its receipt files, adapters, mail server and guard |
| `ArchiveLifecycle` | the abstract promise about one archived message; `ArchiveTransactions` implements it |
| `CorpusResearch` | corpora and the rotating units that read their threads |
| `ObligationReview` | reviews, the obligations derived from them and the guard's answer; extends `CorpusResearch` |
| `SendPolicy` | the policy file |
| `MailSend`, `SendDrafts` | the receipt-bound sender and the batch sender |
| `MailIntelligence` | what an export says was missed, and what the report knows of it |
| `MailActions` | the plans made from that, the receipts read against them, the queue of mail-status |
| `MailDesk` | the commands, handlers and tools over the four receipt files; extends `MailActions` |
| `Sending` | both senders, the desk and the routing of a text, as a sum |
| `AcpCheckout` | agentic checkout over the store, and Stripe's charges |
| `StripeWebhook` | the subscription at Stripe, its events and the account row |
| `RunMetering` | reservation, debit, commit and rollback of live runs |
| `Labeler` | the triage loop with its state file and vault |
| `Service` | webhook, metering and triage around one account |
| `FlagTransactionsProofs`, `FlagConductProofs` | proofs about the ledger and the engine |
| `ChangesProofs`, `ArchiveProofs`, `ReviewProofs`, `SendingProofs`, `CheckoutProofs`, `ServiceProofs` | proofs about the module of that name, or the one they extend |
| `MCFlagBatch`, `MCFlagPlans`, `MCFlagCall`, `MCArchive`, `MCReview`, `MCSending`, `MCCheckout`, `MCService` | the instances TLC checks |

A sum. Where several programs share no state that either of them relies on, one
module extends them all and a behaviour drives one: `program` says which. What they
do together is an interleaving of such behaviours, and no property relates them.
The sum only saves instances and keeps their product out of TLC's way.

### FlagTransactions: state

| variable | in the code |
|---|---|
| `native` | the flag index each message shows in Mail.app |
| `requests` | osascript invocations that were handed out and may still take effect |
| `lands` | history: how often a mutation's apply or restore changed the mailbox |
| `overrides` | the store's active overrides (`suppressed`), per `ref_digest` |
| `file` | whether `entries()` can read the ledger, and whether the last row lost its newline |
| `latest`, `auth` | what `latest_status` and `latest_authoritative_record` return |
| `lock` | `apply-<plan>.lock` |
| `pc`, `cur`, `job` | a worker's position, current mutation, loop variables and the result object it is building |

The ledger is the set of answers it gives, not the list of its rows: the engine
only ever scans the file for the newest row and the newest authoritative row of
a mutation. `FlagLedger` defines both scans over the row sequence, and
`AnswersFollowAppends` proves that `LatestAfter` and `AuthorityAfter` are what the
scans return after an append.

### FlagTransactions: actions

A worker runs `Acquire` (a call takes the plan lock), then

- an apply: `Authorize` (frozen, suppressed, replayed and rolled-back items),
  `LogRow`/`NextPhase` (replay, refusal and preflight rows), `Preflight`,
  and per item `ClaimApply`, `Recheck`, `Send`, then `Readback`, `Timeout`
  or the drift path, and `Verify`, `RecordAutomationState`, `Finalize`; a failing
  item goes through `Ambiguous`, `Refused` or `PrivateStateFailed` and freezes its
  siblings; `Deadline` and `AllApplied` end the loop;
- a batch rollback or a probe: `Classify`, `CheckCandidate`, `RecordDivergence`,
  `CheckDone`, then per receipt `Scope`, `LogRestoreRow`, `Send` and
  `RecordRestored`, or `RecordHuman`; `AllRestored` ends it. A single rollback
  starts at `Scope`;
- `Return` releases the lock.

The environment runs `Land`, `Drift` and `Lose` (Mail.app executes a request,
refuses it, or it dies with its osascript process), `Crash`, `HumanFlag` and
`Unlock`. Every ledger append, every provider request and every read of state
that somebody else can change is a step of its own. Reads of state that only
the lock holder can change are merged with the step that uses them.

`Appended` and `AppendFailed` are the two outcomes of `record`: a row that is
durable (and runs into the previous one when that lost its newline, which makes
the file unreadable), or an exception after nothing, everything, everything but
the newline, or a torn prefix reached the disk.

What the model leaves out, and what stands in for it: timestamps, digests and
error wording; the validation of plans, approvals and receipts, which refuses a
call before it changes anything (`Acquire` starts only valid calls, and a
refusal is not a step); `preflight_transaction`, which changes nothing; the
single-receipt preflight, which is a probe of one; the status
`rollback_blocked_by_override`, reported as blocked; a drift noticed by the
provider's own read before the script, modelled as the script's drift; the
10-minute ceiling inside the provider, modelled as a request that is lost and
timed out. Evidence may change at any check: wherever the code re-reads it, the
model lets the check fail. Batches of more than two items are not instantiated.

### FlagPolicy, FlagActivation, Maintenance and ApprovedChanges

`FlagPolicy` has no state: a text is the set of detectors that match it and the
domain of its words; `ClassificationOf` is what `classify` returns, with the
confidence counted in thousandths as the code rounds it, `Proposal` what
`proposal_from_classification` makes of it.

`FlagActivation` state: where each message lies and its flag, the policy and the
review in force, the scan that runs, the artefacts in the state directory (`kept`,
filed under their hash, so it only grows), the plans and approvals operators
hold and may edit (`issued`), approvals whose window is over, what the paths
hold that an operator named for an output, and each process's call. A scan reads
one surface after the other (`StartAudit`, `ReadSurface`, `SurfaceFails`,
`SurfaceFailsQuietly`, `KeepSnapshot`); `Plan`, `EditPlan`, `ApproveByHand`,
`ApproveAutomatically` make the documents; `BeginApply`, `Persist`,
`CanaryPreflight`, `BeginWrites`, `Write` and `GiveUp` are the canary;
`RollBack` takes it back. Meanwhile the owner touches messages, windows lapse,
reviews are renewed and the policy is upgraded. The engine inside is what
`FlagTransactions` guarantees about one claim. Left out: serialisation and
public-safe copies; content hashes stand for equality. A reviewed thread always
asks for a reply.

`Maintenance` state: what each scheduler is at, the two locks, the receipt of each
envelope, its child, whether the child's own receipt exists; the category receipt
with its rows, and the labels. `Open`, `Start`, `Wait`, `SealReceipt` are a
dispatch; `OpenCategories`, `Intend`, `Modify`, `Record`, `CloseCategories` a
category plan; `Kill` ends a scheduler at any step and frees its lock, while its
child goes on (`ChildWritesReceipt`, `ChildExits`).

`ApprovedChanges` is their sum with the engine.

### ArchiveTransactions

State: `disk[p]` is the receipt file of a plan (status, counts, and a row per
message), `planned[p]` the revision the plan was built against, `lock` the
`archive.lock`, `box` what the mail server and the guard say of each message
(where it is, its revision, whether a person claimed it), `requests` the moves
that were handed over and may still happen, `pc`, `job` and `mem` a worker's
position, local variables and the receipt it is building. `sent` and `done` record
what was handed over and what the server executed.

A worker begins an apply (canary or rollout) or a rollback of a plan. An apply
checks everything once before it writes its first receipt, then for each row
observes, persists the intent, dispatches, observes the outcome at three
delays and persists that; a rollout repeats the check of its canary's receipt
under the lock. A rollback takes up `verified` rows only, each once; the code goes through
them in the receipt's order, the model in any. Every rewrite of the receipt may fail before or after the new file is in place, the
worker may die at every step, and the server may execute a move late or never
(`Land`, `Lose`). `Person` moves and claims messages. Left out: `verify`, which
writes a report of its own; refusals of malformed documents, which change
nothing; the comparison of a message's content, which stands behind `revision`.

### CorpusResearch and ObligationReview

State: when each message arrived (`at`), what each corpus lists, when each
message was read for it (`reads`), the manifest's `next_thread` (`next`), the unit
that runs (`unit`); every review recorded (`log`), the review on file of each
thread and those in the history, the review being written (`writing`), the guard
file.

`BuildCorpus` seals an inventory; `Begin`, `Attempt` and `Stop` are a unit that
visits at most `ThreadLimit` threads and reads at most `MessageLimit` messages
from `next_thread` on. `HandIn` records a review of a collected thread: the
previous one goes to the history first, then the file is rewritten, and the
process may die in between. `BuildGuard` writes the guard file from a review and
a corpus; `Passes` is the guard's answer for one message.

Abstractions: a tick is the 24 hours for which evidence counts as fresh. A
unit touches only its own directory, and stopping it anywhere leaves the manifest
another step would see, so other steps are taken between units. A reviewer
reports every message truthfully or raises a question about an obligation;
whether reviewers are right is not a question to the code. `supersedes` may name any
review of the thread that was once on file, which is what a reviewer may have
read. One guard file with a binding for every message read. Dates are
arrival times. The guard's override store and protection rules are part of
`ArchiveTransactions`.

### MailSend, SendDrafts, MailIntelligence, MailActions, MailDesk and Sending

`MailSend` state: the versions of a draft in Drafts and Trash, the receipts that
were signed and the one in the receipt file, the attempt markers (and those that
would survive a power failure), the invocations with their steps, and what
the SMTP server accepted and filed under Sent. An invocation finds the draft,
computes its binding, authorizes, creates and syncs its marker, opens the
connection, looks at the receipt again, sends DATA, verifies in Sent and trashes
the draft. It may die anywhere; DATA may be accepted with the answer lost; the
machine may lose power. The operator edits, signs, replaces, lets expire,
withdraws, and closes the policy.

`SendDrafts` state: `drafts_sent.json` (which a crash can leave truncated), the
runs, how often the server accepted each reply. A run loads the file, walks the
ledger, skips what is in the file, sends, appends to the file, and stops at
`--max`.

`MailIntelligence` and `MailActions` are operators: the signals of a row, the kind
of a finding, its lane, severity and status; the action that groups findings
(its key stands for its id, which is a hash of it), the drafts of an action, what
each receipt says of it, the fold of all receipts into one status per message
and the queue of `mail-status`. A text is the set of expressions that match it.

`MailDesk` state: the clock in the seconds receipts carry, the export and the
operations report, the intelligence that was last written (or none), the four
receipt files, and what each process is in the middle of. Every way in is an
action under the name of its function: seven commands, seven HTTP handlers
and seven MCP tools, which differ in where they read intelligence. A delivery
looks an approval up and appends later (`BeginDelivery`, `RecordDelivery`); a
snapshot computes its candidates and appends one receipt after the other
(`FollowUpSnapshot`, `ExternalSnapshot`, `GitHubSnapshot`, `RecordCandidate`) and
may stop between two (`EndCommand`). Nothing is locked. Left out: ranking, limits
of lists, rollups and wording.

`Sending` is the sum of the two senders, the desk, and behaviours that only read
one text, which see where the desk routes it.

### AcpCheckout

State: the session rows, the idempotency keys, the fulfilments, the balance, the
receipts, what Stripe captured, and a server's position in its handler. `Claim`
begins a request (a new key, a replay, a conflicting payload, or a take-over of
a claim older than 60 seconds); `Step` makes the next store or Stripe call of the
handler; `Fail` ends it between two calls. A completion freezes the session
before it charges, charges under the session's own idempotency key, credits once,
mints the receipt, completes the session and answers the key. `misled` records
that a charge was captured although its answer was reported as a decline.
Left out: the product feed, the headers, wording; retrieval reads only.

### StripeWebhook, RunMetering, Labeler and Service

`StripeWebhook`: `sub` is the subscription at Stripe, `pending` the events not yet
acknowledged, `account` and `processed` the rows. The subscription changes,
events are delivered in any order, `Handle` applies one and then records its id,
in two transactions, and `Fail` ends a delivery in between.

`RunMetering`: `usage` and `credits` are the counters, `run` the threads. A run
reads its account when it is authorized, reserves under the month's counter or
debits a credit by conditional updates, works, and commits or rolls back;
plans change, credits are bought, the month ends and the process crashes
between any two of these.

`Labeler`: `file` and `vault` are the two copies of the resume token, `box` the
messages that match, `job` the run. `Load` prefers the vault's copy; `List` takes
the page at the token's offset (imap newest first, mailapp oldest first);
`ApplyActions` acts on it, `SavePage` saves the next token, and `Finish`, `Raise`
and `Kill` end the run. New mail arrives and the owner takes messages away. One
run at a time. A message whose details cannot be read counts as looked at.
`spoilt` says that a message left the listing behind the token, or that the vault
brought back a copy of an earlier sweep. Gmail and Graph keep their cursors on
the server and are not modelled.

`Service` puts the three around one account. They share only the plan, which
`RunMetering` lets change at any time, and metering asks of a triage only whether
it raised; so a behaviour drives one of them.

## Properties

Flag engine:

- `AtMostOneWrite`: whatever crashes, times out or is retried, each mutation
  changes the mailbox at most once and is restored at most once, and no request is
  handed out while an earlier one landed or may still land.
- `WriteInv`: why that holds (see Proofs).
- `FrozenIsFinal` (action): a claim whose worker is gone is never taken up,
  overwritten or forgotten by the code.
- `ReportsHonest`: a finished call that admits a write accounts for every item, claims "applied" or
  "rolled_back" only with the ledger behind it, and an apply counts every write
  that crossed dispatch.
- `RestoreMatchesReceipt`: a restore is requested only under the approval whose
  apply the ledger verified, and expects exactly the flag that approval wrote.
- `QuarantineHolds` (action): once a human override is recorded and no request
  is past its check, no plan's automation reaches the message and only an unlock
  lifts it.
- `ImplementsLifecycle` (refinement): what a reader of the durable record may
  conclude is never wrong; intent is durable before a write can happen.
- `EveryCallReturns` (liveness): a call nobody kills gives its plan back.

Programs around the engine:

- `CompleteMissesNothing`: a scan that counts as complete has every flagged message
  that stayed as it was, whichever surfaces failed.
- `WrittenWasApproved`: what is written was found by a complete scan, is in the plan
  that follows from it, and was approved with the authority its class needs.
- `UndoKept`: what was written can be taken back from what is on disk, after any
  crash, lapse or renewed review, as long as the policy stands and nobody
  overwrote the bundle.
- `ProposalSafe`: no text makes a plan fail, and what is changed without a person
  rests on two signals and no contradiction.
- `DispatchedOnce`: approved work reaches its provider once, and a receipt says
  completed or verified only of what was done.

Archive engine:

- `ReceiptTruth`: a plan moves each message out of the Inbox at most once and back
  at most once; what the receipt file says of it is true of the server; its counts
  cover every move that was handed out (`MovesOnce`, `RowsTrue`, `WritesCovered`).
- `RolloutRestsOnCanary`: while a rollout is applied, its canary stays verified.
- `ImplementsLifecycle` (refinement), as above.

Research and reviews:

- `PassIsFounded`: whoever may be archived was read to the end and lately, and the
  last words on each of its obligations close it.
- `ObjectionStands`: a recorded question keeps its messages until a later review by
  somebody who has read it, and no review is lost.
- `ReadableThreadsCollected` (liveness): threads the provider can read are
  collected although others fail every time.

Senders and desk:

- `OncePerAttempt`: one attempt id puts at most one message on the wire.
- `SentUnderAuthority`: what was accepted was signed, and not withdrawn while the
  sender could still look; a draft that is taken away was accepted in that version
  and is in Trash.
- `RepeatHasACause`: the batch sender repeats a reply only after a lost answer,
  a crash between answer and checkpoint, or overlapping runs.
- `RepliesGoOut` (liveness): deliverable replies go out although others are refused
  every time and a run has a cap.
- `DeliveredWasApproved`: a delivery is recorded on the strength of an approval of
  that very draft, the newest there was when it was looked up.
- `QueuedUntilClosed`: what was missed is in the queue of `mail-status` until the
  operator said it is done with; no program concludes so by itself.
- `NothingFallsBetween`: whatever a text says, one of the desk's tables takes it and
  the later ones understand what that one makes of it.

Account:

- `CreditedOnce`, `OrderTruth`: each session is credited once and for captured
  money; who is told "completed" has money, credit and receipt; the receipt attests
  the cart that was credited; and, unless the payment client reported a captured
  charge as failed, that is the cart that was captured, and a paid session is
  completed or frozen with it (`CompletedIsWhole`, `ReceiptAttests`,
  `PaidStaysPayable`).
- `OrdersStand` (action): a minted receipt stays as it is, and a completed session
  stays completed with its cart.
- `PaidGetsCompleted` (liveness): captured money ends in a completed session.
- `SettledAgrees`: once everything is delivered the account has the limits of the
  subscription, unless an event was applied after a newer one; even then, paid
  limits do not outlast the last period sold.
- `AllArrive` (liveness): every event is taken in.
- `MeterTruth`: every reservation stays charged once, in the month it was made in,
  and a run that raised is given back once (`MeterBalances`); no race lets more
  runs through than the largest cap any of them was authorized under (`CapHolds`).
- `SweepCovers`: a sweep that ends has worked through every message that was
  there when it began and still is, unless messages left the listing behind it or
  the vault brought back a copy of an earlier sweep (`spoilt`).

Stated by the code or its documents and violated: `RollbackWritesCounted`,
`OverrideIsUnexplained`, `RestoreCanBeProved`, `EmptyMeansNone` (below).

Each module has one type invariant; where several modules are composed, the sum's
is their conjunction.

## Runs

| run | instance | shows | states |
|---|---|---|---|
| `flags_batch` | 1 plan, 2 mutations on 2 messages, 2 workers, all calls, all append faults | `TypeOK`, `WriteInv`, `ReportsHonest`, `FrozenIsFinal`, `ImplementsLifecycle` | 291,304 |
| `flags_plans` | 2 plans over 1 message, the second planned against the first one's result, 2 workers, a person | `AtMostOneWrite`, `QuarantineHolds` | 757,653 |
| `flags_call` | 1 mutation approved twice with different colours, 1 worker, a person with every colour; or 2 red messages, 1 process, 1 named path, 2 mishaps, 1 audit, plan and approval; or every text; or 2 schedulers, 2 envelopes, 2 labels, 1 kill; fairness | `ChangesTypeOK`, `RestoreMatchesReceipt`, `CompleteMissesNothing`, `UndoKept`, `WrittenWasApproved`, `ProposalSafe`, `DispatchedOnce`, `EveryCallReturns` | 314,424 |
| `archive_batch` | 2 workers, a canary over 1 message and a rollout over 2, gmail, 1 act of a person | `TypeOK`, `ReceiptTruth`, `RolloutRestsOnCanary`, `ImplementsLifecycle` | 530,805 |
| `review` | 2 corpora over 3 messages in 2 threads, one unreadable, 2 obligations, 2 reviews, 3 ticks, fairness | `PassIsFounded`, `ObjectionStands`, `ReadableThreadsCollected` | 422,330 |
| `sending` | 2 invocations, 2 attempt ids, 2 receipts, 2 versions of a draft; or 2 runs over 3 replies with `--max 1`, 2 faults; or a lead, an alert and an issue at the desk with 2 exports, 1 process, 1 tick, 1 snapshot and 3 receipts; or one text of at most 3 expressions; fairness | `TypeOK`, `OncePerAttempt`, `SentUnderAuthority`, `RepeatHasACause`, `DeliveredWasApproved`, `QueuedUntilClosed`, `NothingFallsBetween`, `RepliesGoOut` | 749,190 |
| `checkout` | 1 server, 1 session, 3 carts (one not payable), 2 keys, 2 faults, fairness | `TypeOK`, `CreditedOnce`, `OrderTruth`, `OrdersStand`, `PaidGetsCompleted` | 346,886 |
| `service` | 2 paid plans, 3 versions, 2 periods, 1 failing delivery; or 3 runs, a plan with a cap of 2 and one without, 2 months, 1 credit, 1 crash; or 4 messages in pages of 2, 3 per run, 2 sweeps, 2 mishaps; fairness | `TypeOK`, `SettledAgrees`, `MeterTruth`, `SweepCovers`, `AllArrive` | 1,303,674 |
| `flags_rollback_report` | as `flags_batch` | `RollbackWritesCounted` is violated | |
| `flags_explained_override` | as `flags_plans` | `OverrideIsUnexplained` is violated | |
| `archive_undo_proof` | as `archive_batch`, icloud, 1 worker | `RestoreCanBeProved` is violated | |
| `labeler_no_more` | 2 messages, both archived, 1 per run | `EmptyMeansNone` is violated | |

Why these bounds are enough to be interesting:

- flags: two mutations are what a batch needs to have a failing item with a
  sibling before and after it; two workers are what the lock has to keep apart
  and what lets one crash while the other arrives; two plans over one message are
  what per-plan locks do not separate; two approvals of one mutation are what
  receipt lineage is about. Workers are interchangeable (symmetry). No counter
  needs a cap: a batch bounds the writes of a call, and claims make a mutation's
  requests finite. `flags_plans` keeps the product of two plans small: its calls
  are apply and the rollback of one receipt, its only append fault is the lost line
  terminator, and the person resets the flag to "none"; the other calls and faults
  are in the other runs. In `flags_batch` the person may reset flags as well;
  every colour is available to the person of `flags_call`.
- activation: of the two red messages the classifier is sure about one and leaves
  the other to a person, so both kinds of approval have a target; one named path
  can be given to both outputs; two mishaps are a crash and what an operator does
  about it. Classifier: all 7,680 texts are tried. Maintenance: a scheduler that
  is killed and one that finds its receipt; two labels, so that a plan can stop
  between them.
- archive: one worker can roll the canary back while the other applies the
  rollout; the rollout's two rows let one fail with the other before or after it.
  One act of a person is enough to make any single observation stale.
- review: one thread is never readable, the other has a request and an answer that
  may arrive in either order, between or after reads; two reviews are what a
  question and its successor are; at the third tick what was read at the first
  is stale. Limits of one thread and one message make every unit partial.
- sending: two invocations with one receipt, or two receipts under one attempt id,
  are the races of the marker; the two versions have one Message-ID; the first reply
  in line is always refused and a run may send one. Desk: the report knows the
  issue and not the lead; two approvals are a decision and its successor, of one
  second or not; three receipts are an approval, a newer one and a delivery.
- checkout: a retry under the same key and one under a fresh key; two failures
  are a crash of a completion and of its retry. One server, as deployed (see the
  assumption `OneServer` under Proofs).
- service: three versions make an event that overtakes two others; three runs exceed
  the cap by one over a month's end; the fourth message arrives while pages of two
  are read, and message 2 leaves the mailbox by the rules' own action.

Fairness, in the `Fair...` specifications only:

- flags: weak fairness of each worker's next step inside a call of the engine. A
  live process keeps executing and every external wait has a deadline
  (`_run_applescript` passes a timeout, locks are non-blocking). Nothing is assumed
  of activation and maintenance.
- checkout: handlers run on; an agent repeats a completion it has paid for (strongly
  fair, since a claimed key is not claimable until it lapses); a minute passes.
- service: the webhook handler runs on, and Stripe goes on delivering as long as
  there is something to deliver, which is Stripe's documented retry.
- sending: the batch script is scheduled again and again and a started run goes on;
  a server asked over and over to take a deliverable reply takes it at last.
- review: research of each corpus is run again until it is complete, and a unit
  that comes to a thread over and over attempts it at last. Both are strong because
  the model lets the units of two corpora take turns.

Nothing is assumed about Mail.app, people, operators, reviewers, or about when a
worker starts a call; a crash may end any call. Deadlock is checked in
`flags_batch`, `flags_plans`, `flags_rollback_report` and
`flags_explained_override`. The other configurations say CHECK_DEADLOCK FALSE: there
operators may be done, the policy may be closed for good, a program that only
classifies or reads has nothing more to do, and the bounds end what would go on.

## What the runs found

1. `rollback_transactions` loses its writes. When private state fails inside a
   later item of a batch (the claim row or the ledger read raises), the outer
   handler (`core/flag_transactions.py:2463`) returns a fresh result with
   `writes_performed=0`, although earlier items were already restored. The comment
   at 2853 promises the opposite, and `_apply_locked` takes care to avoid exactly
   this. Run `flags_rollback_report`.
2. An override is not checked for an explanation. `detect_override` documents that
   it is recorded when "no approved transaction explains the change"; no caller
   looks for one, so the rollback of one plan records another plan's verified write
   as a human override and suppresses the message. Run `flags_explained_override`.
3. An iCloud restore is never confirmed. After the UID MOVE back to the Inbox the
   message has a new UID, and `observe_archive`
   (`providers/imap_archive_native.py:71-73`) raises for any UID but the
   inventoried one; the row ends as `rollback_uncertain` and the rest of the
   rollback stops. Run `archive_undo_proof`.
4. The triage loop ends with messages left. The saved token is an offset, and the
   messages the run archived are no longer in front of it: the next run lists
   behind the end, logs "No more messages found" and keeps the token
   (`cli.py:263`, `356`). Run `labeler_no_more`.

Seen while reading, without a run of their own:

Senders and triage

- `send_drafts.py` comments that a crash cannot send twice; `RepeatHasACause` lists
  when it does.
- A vault copy older than the local file wins at start (`core/state.py:58`).
- `mailapp` turns a failing list into an empty page (525-527), which ends a sweep
  that `outlook.py` (498-505) would have ended with an error.
- The IMAP list slice counts from the end once more when the saved offset exceeds
  the mailbox, and may then return a page larger than was asked for.
- `gmail.apply_actions` lets an error that is no `HttpError` in a later batch escape
  before any line of audit is written for the earlier ones (`core/audit.py:7-9` promises
  one for each).
- `_ob_key` (`draft_writer.py:38-42`) can give two obligations one key.

Research, inventory and guard

- In corpus research only `RuntimeError`, `ValueError` and `OSError` count as a
  failed read; anything else ends the unit without moving `next_thread`. A ceiling
  of exactly 30 seconds reads nothing.
- The inventory does not catch `imaplib.IMAP4.error`, so one surface can starve those
  after it, and a message expunged after the UID snapshot makes its surface fail
  again and again.
- A thread's id is a hash of its messages: a new message makes a new thread, and the
  review of the old one counts for the guard until its evidence is 24 hours old.
- The guard accepts its older schema without reading the reviews again.

Flags and maintenance

- `providers/mailapp.py:309`: undecodable output raises after dispatch.
- A `--receipt-output` or `--proposal-output` outside the state directory may
  overwrite an earlier canary's bundle, which `UndoKept` has to except; so does a
  policy upgrade between an apply and its rollback, which is then refused.
- `POLICY_SHA256` covers the table and not the code that applies it.
- `human_canary_risk_blocker` tests owners the classifier never returns.
- `dispatch_command` appends `--state-dir` to `flags apply`, whose parser does not
  know it: the child exits with 2 and the envelope needs reconciliation. A
  `receipt_output` left by an earlier run is hashed into the new receipt.
- `apply_categories` interrupted after its first row leaves the status "verified" over
  a selection that is done in part.

Desk

- Receipts carry seconds, and two of one second are ordered by a hash. A draft's id
  does not cover its body. The approval ledger cuts its items at `max_items` before
  a delivery looks its approval up.
- The crosswalk folds every approval and delivery by rank, so a "rejected" that a
  later "approved" superseded keeps its evidence closed. A rejected or canceled
  draft of one lead makes the follow-up snapshot close the other leads of its action.
- A closed action swallows new findings whose key is the same, and ids change when
  the operations report starts or stops to represent a lane.
- The lane `needs_reply` never occurs in the report. A legal finding that also matches
  subscription or finance is looked up under that lane but planned under
  `draft_review`.
- The rollup counts `not_applicable` as waiting where the crosswalk says
  `stale_noop`. The queue looks at the first `max_items` evidence items only.
- The GitHub resolver overwrites a `verified_resolved` and says `not_found` although
  one of three surfaces failed. A running external snapshot can reopen what an
  operator closed meanwhile.
- An unanswered lead younger than `stale_days` is reported as resolved.
- A torn line in one of the four files stops every reader of that file, and
  `index.json` of ops-refresh is rewritten without a lock.

HTTP

- Two API processes over one database would break `ReceiptAttests`,
  `PaidStaysPayable` and `OrdersStand`: the checkout handlers are not atomic across
  processes. The image starts one (`Dockerfile:19`).
- `TierRateLimiter` (`platform/saas_runner.py`) answers `reset_after` with the age
  of the oldest entry although it is documented as the time until the window clears.
- `rotate_secret` (`auth/service.py`) reads, decrypts and updates without a version
  check: a secret stored meanwhile is overwritten with the old one.

## Proofs

Every safety property and every action property of a passing run is a theorem; the
liveness properties are not. Every theorem holds for all values of the constants under the `ASSUME`s of its
module: functions have the domains their names say, sentinel values are none of the
real ones, bounds are natural numbers. `FlagAssumption` adds that an approval names
finitely many mutations of its own plan. `OneServer` is a hypothesis of three theorems of
`CheckoutProofs`, `OrderInvariant`, `OrdersAreTrue` and `OrdersStandForGood`: the
deployment runs one API process. No theorem uses fairness. The table lists what a run checks and a
theorem states for all instances.

| module | theorem | of |
|---|---|---|
| `FlagTransactionsProofs` | `TypeCorrectness`, `WriteInvariant`, `WriteOnce` | `TypeOK`, `WriteInv`, `AtMostOneWrite` |
| `FlagConductProofs` | `QuarantineStands`, `RestoresMatchReceipt`, `ReportsAddUp`, `FrozenStaysFinal`, `EngineImplementsLifecycle` | `QuarantineHolds`, `RestoreMatchesReceipt`, `ReportsHonest`, `FrozenIsFinal`, `ImplementsLifecycle` |
| `ChangesProofs` | `TypeCorrectness`, `CompleteScansMissNothing`, `UndoIsKept`, `WritesWereApproved`, `ProposalsAreSafe`, `DispatchIsOnce` | `ChangesTypeOK`, `CompleteMissesNothing`, `UndoKept`, `WrittenWasApproved`, `ProposalSafe`, `DispatchedOnce` |
| `ArchiveProofs` | `TypeCorrectness`, `ReceiptsAreTrue`, `CanariesStand`, `ArchivingImplementsLifecycle` | `TypeOK`, `ReceiptTruth`, `RolloutRestsOnCanary`, `ImplementsLifecycle` |
| `ReviewProofs` | `PassesRestOnWords`, `ObjectionsStand` | `PassIsFounded`, `ObjectionStands` |
| `SendingProofs` | `TypeCorrectness`, `AttemptsGoOutOnce`, `SendingIsAuthorized`, `RepeatsHaveACause`, `DeliveriesWereApproved`, `FindingsStayInSight`, `NoTextFallsBetween` | `TypeOK`, `OncePerAttempt`, `SentUnderAuthority`, `RepeatHasACause`, `DeliveredWasApproved`, `QueuedUntilClosed`, `NothingFallsBetween` |
| `CheckoutProofs` | `TypeCorrectness`, `CreditsAreGivenOnce`, `OrdersAreTrue`, `OrdersStandForGood` | `TypeOK`, `CreditedOnce`, `OrderTruth`, `OrdersStand` |
| `ServiceProofs` | `TypeCorrectness`, `SettledAccountsAgree`, `MeterIsTrue`, `SweepsCover` | `TypeOK`, `SettledAgrees`, `MeterTruth`, `SweepCovers` |

### The engine

- `TypeCorrect`: `TypeOK`, strengthened by `Working` (which steps belong to which
  kind of call, and that a holding step has a mutation; a rollback only holds
  mutations with an authoritative row). Without it the type of the flag a restore
  expects, `auth[m].intended`, is not known.
- `WriteInv`: `AtMostOneWrite` is not inductive: nothing in it prevents a worker from
  being about to send. `WriteInv` adds why. (1) A worker inside a call owns its plan
  and stays in its batch, so no two workers hold one mutation. (2) A mutation the
  ledger does not call claimed is what the ledger says: untouched, or applied and not
  yet restored. (3) Before a request is issued the claim row is durable, so from then
  on (2) no longer covers the mutation, whatever becomes of the worker. (4) An
  apply's remaining items are untouched. An unreadable file counts as a claim on
  everything, which is what the engine does with it. The proof goes action by action:
  each action moves only its worker's own part (`OthersKeep`), appends are handled
  once (`RowWorld`), and requests are disjoint because their mutations are.
- `ConductInv` carries the rest. The ledger concludes only what Mail.app did; a worker
  past its claim holds what it just proved or was given a receipt for; nothing that
  is ahead of an apply is frozen, so what is frozen is never taken up; a restore is
  under the receipt the ledger verified; and of every batch each mutation is in
  one place of the report: not begun, counted, refused, or the one in hand, whose
  write has been waited for or is not counted yet. The last is what makes the
  count of `ReportsHonest` add up after a failure in the middle. `StepAccounts` and
  `StepConduct` go through the steps of a worker, `AsideConduct` and
  `MailAppConduct` through what happens beside it.
- `EngineImplementsLifecycle`: a mutation nobody claimed is what the ledger
  believes of it, so each step of the engine is a step of `FlagLifecycle` or none.
- `AnswersFollowAppends`: the ledger abstraction is exact. The two answers the
  model carries are what a scan of the longer file returns.

### Around the engine

Dispatch: one process holds the lock, and an intent on disk means one child, so a
killed scheduler leaves either no child or a receipt that says so. Rows on disk
count what was begun. Activation: what is kept only grows; approvals that reached a
call were vetted; all four artefacts are durable before the engine is asked; and
what a named path holds is one of those that were sent to it. A scan's rows agree with
every message that stayed quiet in the surfaces read so far. Classifier: every text,
including the arithmetic of the confidence (one strong signal gives at most 750,
below the 800 of automatic eligibility).

### Archive

The receipt on disk and the one the lock's holder builds are both `True` of the
server after every step, so it does not matter whether a rewrite replaced the file
before it failed. Only the holder has a receipt in memory. The canary of a rollout is
another plan, and its receipt cannot be rewritten while the lock is held. The
refinement of `ArchiveLifecycle` is proved step by step.

### Reviews

Every review of the log was recorded of all of a thread that had been collected to
its end. A corpus never changes once it is built and no read is taken back, so both
stay true, and what the guard derives from the review rests on the whole thread. A
review that is no longer on file is in the history, and the one that took its place
names it, because between the history file and the rewrite nobody else writes.

### Senders and desk

- Markers: an invocation past its claim has its id in the marker store, one past the
  sync has it on disk, no two are past it with one id, and the ids of the outbox are
  durable; so neither a second process nor a power failure sends one twice. A message
  is `calledOff` only when the policy was closed or the receipt went.
- Batch: as long as a repeat of a reply has no excuse, at most one run is on, and
  what it sent is in the file or in that run's memory.
- Desk: receipts of one file have distinct ids, so among any of them one is the
  newest; a delivery keeps the id of the approval that was.
- Crosswalk (`FindingsStayInSight`): a finding starts unsettled or its lane is in the
  report; a fold of unsettled proofs stays unsettled (`StaysUnsettled`), so something
  that closes must have been written. Only resolver receipts are written by programs,
  and `ResolversFounded` says that one that closes, or that a snapshot still holds in
  its list, rests on an operator's line about a draft of that action: the follow-up
  snapshot reads it there, the external one lists only what is open, and the GitHub
  one never concludes. Files only grow, so the line is still there when the receipt
  is written, however late. A message is never two findings (`OneFinding`). The run
  has three receipts; the theorem any number of them, any mail and any report.
- Routing: the theorem covers texts with any set of words, the run those with at
  most three. In the course of it two overlapping arms of a `CASE` turned out to
  leave a lane unspecified (TLC takes the first arm that holds, TLA+ does not say);
  the definition is an IF chain now, as in the code.

### Account

- Webhook: every version of the subscription has one event that carries all of it.
  Once that of the newest version was applied in turn the account is what the
  subscription is, and further deliveries of that event do not change it. Periods
  never shrink.
- Metering: the sets of charged runs are finite because they grow one run at a time,
  and for every j at most j of a month's charged runs were authorized under a cap of
  at most j. That survives a refund; the claim about the largest cap, which is what
  `CapHolds` says, is not inductive by itself, since a refund may take away the
  run with that cap.
- Triage: for each token of the running sweep the first t places of the listing hold
  only messages that are done or were never due. New mail and departures in front of
  the token never move a due message into places that are covered already.
- Checkout: money precedes credit, credit the receipt, the receipt "completed", and
  all of them only grow, with any number of processes. With one process, the row of
  the session holds the cart that Stripe, credit and receipt are given, which
  `ReceiptAttests`, `PaidStaysPayable` and `OrdersStand` rest on; TLC finds each of
  the three violated with two processes. The balance
  is a sum over a set (a fold), and that its order does not matter is a lemma.

### What stays with TLC

- Liveness: `EveryCallReturns`, `ReadableThreadsCollected`, `RepliesGoOut`,
  `PaidGetsCompleted` and `AllArrive`. The prover does not reason about ENABLED.
- The four runs that expect a violation.

Definitions marked `Slip` are not part of the models: each is the next definition
with a plausible mistake in it, and substituting it makes one property fail. They
record that the properties can fail.

## Plan

Next:

1. The paged inventory in front of `CorpusResearch`, which is taken as complete.
2. The rules of `core/rules.py` behind what `Labeler` takes as a constant.

## Not modelled

Sequential builders and validators of documents, report generators, text
processing, front ends and one-shot scripts keep no state that two actors share
or a crash can tear, so ordinary tests reach them. That is most of the lines of this
repository: the map covers about a quarter. In particular

- `core/rules.py`, `core/triage.py` and the providers' label, folder and category
  calls: tables and single requests; what the triage does with a message is a
  constant of `Labeler`;
- `core/mail_inventory.py`, `core/mail_history_export.py` and the reports of `cli.py`:
  they write files that are read by people or taken as complete;
- `providers/outlook.py` and `gmail.py`, apart from the native archive adapters: their
  cursors live on their servers;
- `auth/`, `platform/saas_runner.py`, `web/`, `cloudflare/` and the legacy scripts.

Cryptography, HTTP, SMTP and IMAP protocols are taken as what the calling code
observes of them. Of the modelled parts, the notes of `PROJECT.json` name what is left
out.
