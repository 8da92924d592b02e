# A TLA+ verification project for AIQuantificationTools

AIQuantificationTools is a quantitative research workbench: market data and AI
selection feed audited research, strategies, backtests and AI reviews, and a
controlled path leads from there to paper, testnet and real orders on Binance
Spot. It runs as a local single-user server over SQLite, or as a multi-tenant
public deployment over PostgreSQL in which several API processes serve the same
tenants. The Python package `src/services/quant_core/quant_core` (paths below are
relative to it unless they start with `src/`, `lib/` or `pages/`) decides what is
traded. The web client (`src/apps/web/src`, to which `lib/` and `pages/` belong)
decides what the operator sees, what a command carries, and what leaves the
machine: it is a concurrent program of its own, in which polls, streams, commands
and navigation overlap.

This directory models the parts where the order of events matters: replies that
are lost, processes that die, instances that overlap, locks and leases that
expire. Every definition is translated from the source; `PROJECT.json` says which
lines each one stands for, which property each run checks, and which change of
the code each property would notice.

    AutoTrading, OrderSettlement     the real-money cycle, its route, the exchange
    PublicLease                      the lease of the background tasks, the write fence
    ProductionClaim                  which tenant controls a production account
    Stage6Sandbox                    batches of sandbox orders and the kill switch
    AiReviewDesk                     the AI review page of the web client
    AutoTradingPanel, LatestView     the automatic trading panel and what it shares
    ResearchNote                     the research note editor and its streamed drafts
    MC<Module>                       instances for TLC, with the .cfg files
    <Module>Proofs                   theorems about the module, checked by TLAPS
    AutoTradingLedgerProofs          those about the ledger, and the refinement

Contents: 1 inventory, 2 modules and code, 3 runs, 4 fairness, 5 theorems,
6 where code and documents disagree, 7 what is not modelled, 8 plan.


## 1 Inventory

### 1.1 Components that act on their own or on the outside

| Component | State it keeps | Operations | What is hard | What makes it correct |
| --- | --- | --- | --- | --- |
| **Task lease** (`public_coordination.py`, `public_background.py`) | one row per (owner, task): holder, expiry | acquire, renew, check, fence, release; a renewal thread beside the operation | clocks of several machines, renewal that raises or is late, instances that die | only the latest acquirer writes; an abandoned task is taken over; one executor |
| **Tenant record store** (`tenant_storage.py`, `tenant_store_adapters/`) | JSON records per tenant, audit events | upsert, insert-if-absent, compare-and-swap, fenced write transaction | the fence is an attribute shared by all users of a tenant's store; most saves overwrite without comparing | a writer that lost its lease writes nothing |
| **Background runner** (`public_background.py`) | stop event, tenants, tasks | for each tenant and task: lease, run, release | overlap with requests, partial progress | see the lease |
| **Tenant API bridge** (`public_tenant_api.py`) | cached services and a lock per tenant and process; pipeline jobs | dispatch a request, run a live cycle, run a queued job, claim and release accounts | the lock belongs to one process; several steps with a failure between each | claims match controls; jobs run once |
| **Automatic trading** (`auto_paper_trading.py`) | one state event per tenant (mode, enabled, session, last order, intent watermark, ledger); order intents; trade events | configure, cycle (reconcile, cover, decide, route, settle, save), recovery of interrupted submissions, pause | a crash between any two writes, lost replies, partial fills, two instances saving one state | no order is forgotten, doubled or unbooked; a stop stops |
| **Stage 10 production execution** (`stage10_production_execution.py`) | controls (active, triggered, revoked), order transitions, sessions | restore/trigger/revoke, authorize a session, submit and reconcile an order | query before create, unknown results, control changing during a submission | nothing is sent without an active control; unknown is not rejected |
| **Exchange adapter** (`binance_spot_orders.py`) | none | prepare, create, query, cancel, read the account | every call may raise after it took effect | evidence is what the exchange said |
| **Stage 6 sandbox** (`stage6_sandbox.py`) | transitions of every order, kill switch | submit, reconcile, cancel a batch; trigger and reset the switch; recover at start | fail-fast with compensation, query-first retry, crash in the middle of a batch | states are true, an id has one order, a switch stops |
| **Production account claims** (`tenant_storage.py`, `public_tenant_api.py`) | fingerprint → tenant | claim, release, release all of an owner, around restore, revoke, change of credentials | failures and crashes between claim, control and credentials | an account is controlled by one tenant |
| **Formal strategy experiments** (`strategy_experiments.py`, `strategy_experiment_store.py`) | pending, checkpoint, completed experiments; reservations of the holdout | launch, resume, checkpoint, reserve, complete, replay | two jobs for one snapshot, crash after the holdout was read, idempotent launch of a job that died | the holdout is read by one experiment, once |
| **Sealed datasets** (`sealed_datasets.py`) | the one-time claim on the test partition | build, claim, read | claim and read are two steps | a sealed partition is opened once |
| **Pipeline jobs** (`public_tenant_api.py`, `golden_path.py`) | queued, running, finished jobs | queue, execute under a lease, store the status | executed before its status is stored | the same run twice leaves the same records |
| **Monitoring** (`monitoring.py`) | incidents, occurrences, notification claims | observe, open, close, notify | claim before send, one observer assumed | an incident opens once; a notification is not repeated |
| **Rate limiter** (`public_coordination.py`) | counter per window | allow | windows of different clocks | at most the limit per window |
| **Public authentication** (`public_auth.py`, `public_identity.py`, `public_api.py`) | login transactions, sessions, reauthentication | begin, callback, complete, refresh, log out | a callback that arrives twice, expiry between steps | a transaction is completed once |
| **Tenant settings and secrets** (`settings.py`, `tenant_crypto.py`) | encrypted configuration | read, change | a change of credentials must revoke what was granted to the old ones | control and credentials belong to one account |
| **Research import and undo** (`research_import_undo.py`, `http_api/`) | eleven stores, undo tokens | import, roll back, undo | many writes without a transaction, token consumed last | all or nothing, undo once |
| **Strategy library** (`strategy_library.py`) | revisions | save, restore, delete | concurrent revisions | revision numbers grow, nothing is overwritten |
| **AI reviews, market AI selection** | reviews, decisions, due selections | run, decide, review automatically | stale evidence, automatic review beside a manual one | a decision rests on a fresh review |
| **Portfolio and paper execution** (`execution_core/`) | approvals, simulations, ledgers | approve, simulate, replay | replays of the same batch | one simulation per approval |
| **Public migration** (`public_migration.py`) | import marker | import a local database | interrupted import | imported once |

In the web client, each with requests that may fail, be answered late or never
matter again because the operator has moved on:

| Component | State it keeps | Operations | What is hard | What makes it correct |
| --- | --- | --- | --- | --- |
| **AI review page** (`lib/ai-review-stage3.ts`, `pages/ai-review/`) | a request coordinator with two lanes, the choice of experiments and model, an approval, the review and decisions shown | load a context, choose, approve, run, prepare and run, append a decision and read the chain back | answers after a move or a newer request, approval that outlives its choice, a second reviewer | what is shown belongs to the run on the page; an approval is for what is sent; the page unlocks |
| **Automatic trading panel** (`pages/dynamic-trading/`) | the snapshot shown, the form, an in-flight mark; the snapshot shared with the other pages | load, poll, save, pause, evaluate | polls and commands overlap; two panels, a portfolio poll and the live gate write one snapshot | what is shared never goes back; a pause changes nothing else; the console catches up |
| **Research note editor** (`pages/research/`, `lib/research-ai-transport.ts`) | one text box, a request number, a version, an abort controller, provider and approval | type, generate (stream, reset, fallback), read, save | typing, stream, read and save write one box | nobody's text is overwritten by a stream; no half draft stays; the approval is used once |
| **Golden path automation** (`pages/app-shell/controller/automation-*.tsx`) | run number, context, last action, in-flight mark | start, run the next action, stop | a stop or a move while an action runs; an action that does not advance | one action at a time; it ends or waits for the operator |
| **Market AI selection** (`lib/market-ai-selection.ts`, `pages/market/`) | the selection polled | launch, poll, decide | polls of an older selection | the newest selection is shown |

### 1.2 Components that compute

Backtest, strategy evaluation, indicators; Stage 5 shadow; Stage 7 to 9 admission
and the adapter readiness chain (documents derived from documents); research
runs; acceptance reports; audit signing; market data and caches; notes,
watchlists and workspace; the MCP facade; the transports and derivations of the
web client (one request each, then a check of the answer's shape); settings and
display; the desktop shell; the deployment files. They hold no protocol: a call reads, computes, and stores a result.
`PROJECT.json` lists each with the reason it is not modelled yet.

### 1.3 How they interact

* A background cycle of a tenant runs under **two** exclusions: the tenant lock
  of its process (`public_tenant_api.py:345,437`), which also serializes it with
  that process's requests, and the lease row in the database, which is meant to
  exclude the other processes. The lease protects what is written
  (`write_fence`), and only checks, from time to time, whether to go on.
* The cycle calls automatic trading, automatic trading calls the Stage 10 route
  to submit or reconcile, and the route calls the exchange. What survives a crash
  is written in a fixed order: intent, `submission_pending`, *exchange*, trade
  event, state event.
* A user's configure call reads and writes the same state event as the cycle.
* A control (restore, trigger, revoke) gates every submission; restoring one
  takes the account claim before the request and gives it back after an error,
  provided the action is sent without blanks (section 6, 3); changing the
  credentials revokes the control first.
* The sandbox is independent of all this but has the same shape: transitions in
  the audit store, query-first retry, an exchange that may lose replies, a switch.
* The web client calls the API and nothing else. Its panels guard themselves with
  request numbers, abort signals and in-flight marks; the controller's state (the
  shared snapshot, the workspace's instrument, the experiments) is common to all
  pages and is written by whoever answers.


## 2 Modules and the code

Each module has a constant per environment assumption, one action per operation
or step, and a comment at every variable that names what it is in the code.
Operators marked "Mutant" are the plausible bugs used to show that a property can
fail; nothing in the specifications uses them.

### 2.1 AutoTrading

*The live mode of `AutoPaperTradingService`, the order route, the exchange.*

The process's state is `pc` (the step of the cycle), `cur` (the state it has
loaded) and `conf` (what a configure call has loaded). The audit store is
`intents`, `ticket`, `recorded`, `traded`, `saved` and `control`; the exchange is
`exch`, `filled` and `account`.

| Code | Actions |
| --- | --- |
| `_load`: an intent newer than the saved watermark becomes `submission_pending` | `Load` (used by `Begin`, `ConfigureLoad`) |
| `evaluate`, reconciling first | `Begin`, `ReconcileUnknown`, `ReconcileFound` |
| live gates, account snapshot, coverage, decision, dust | `Blocked`, `Synchronize`, `Covered`, `Hold`, `ReleaseDust` |
| `_route_order`: the durable intent | `RecordIntent` |
| `submit_auto_market_order`: session, query, transition, create, query again | `Submit`, `Refused`, `QueryUnknown`, `QueryAbsent`, `Create`, `ReplyUnknown`, `ReplyFound` |
| `_record_trade`, `_finish`/`_save`, an uncaught exception | `RecordTrade`, `Save`, `Abort` |
| process death | `Crash` |
| `configure` | `ConfigureLoad`, then one of `Pause`, `Resume`, `EnterLive`, `LeaveLive`, `Adjust` |
| `set_control` | `RestoreControl`, `TriggerControl` |
| the exchange (external) | `Arrive` (or get lost), `Fill`, `End` |

A step is what happens between two points at which another actor can be seen or
the process can die with a different effect: a durable write, an exchange call.
A create call has two halves: `Create` sends the order, which is then `flying`,
and only `Arrive` decides whether the exchange has it, so that a query in between
honestly answers "not found". `OtherInstance` lets configure run while a cycle
runs, as it can from a second API process; when FALSE the tenant lock serializes
the two. `paused` remembers whether the user's last word was a pause; `stopping`
and `stopped` distinguish the cycle that was already running from the later ones.

**OrderSettlement** is the abstract promise: an order is announced, may execute
while announced, and is booked if it executed and closed if not, one announced
order at a time. `AutoTrading!Settles` is that specification with `phase` and
`executed` computed from the durable state (`Phase`, `Pending`), and is checked as
a PROPERTY of the concrete one.

### 2.2 PublicLease

*`PublicLeaseStore`, the tenant loop and renewal thread, the write fence; one
(owner, task) row.*

`holder` and `left` are the row; `rowLock` is PostgreSQL's lock of it. `pc[i]`
says where instance `i` is in the operation, `renewing[i]` and `lost[i]` are its
renewal thread and `lease_lost` event. Statements carry a timestamp taken
earlier and on another clock: `Ages` is the set of differences, and every
comparison and every new expiry uses one of them. `left` is relative to the
database's time, so no absolute clock is needed and the state space is finite;
below `Floor` a row is expired for everybody, and time need not be counted.

| Code | Actions |
| --- | --- |
| `acquire` (upsert with its three conditions) | `Acquire` |
| `renew`, and its thread | `Renew`, `RenewFails` |
| `lease_guard` around an external effect | `Guard`, `Effect`, `EffectDone` |
| `lease_fence` in a write transaction (`SELECT ... FOR UPDATE`) | `Fence`, `Commit` |
| end, `finally` with release | `Finish`, `Release` |
| process death, passing time | `Crash`, `Tick` |

### 2.3 ProductionClaim

*`ProductionAccountClaimStore` and the requests that take or release a claim.*

`claims`, `active` and `key` are in the database; `call[i][t]` is the request
that instance `i` serves for tenant `t` under that tenant's lock.

| Code | Actions |
| --- | --- |
| restore: fingerprint, claim, the route, give back on error | `Identify`, `Claim`/`ClaimBlocked`, `Activate`/`RefuseRestore`, `Unclaim` |
| restore whose action has blanks around it: the route only | `RestorePadded` |
| revoke, release of the owner's claims | `Revoke`, `Release` |
| change of credentials: invalidate, store, release | `Invalidate`, `Store`/`StoreRefused`, `Release` |
| process death | `Crash` |

An account is the fingerprint the exchange reports for a pair of keys. Evidence,
reauthentication and permissions only decide whether a request is refused, so
refusal is a choice (`RefuseRestore`).

`_production_control_action` compares the action as it was sent with `restore` and
`revoke`; the route, and `build_production_execution_control` after it, strip the
action first. So ` restore ` with blanks is not a restore to the claim and is one to
the control: it is an action of its own, in one step, since nothing follows the
stored control, whatever the answer. ` revoke ` is the branch of `Revoke` that
returns without `Release`. Two constants say which inputs and failures a run
contains: `PaddedActions`, and `LateFailures` for an error after the control was
stored; the code allows both, and so does the passing run. `admitted[t]` is a
history variable, which no action reads: the control has been active since a restore
that held the claim and was answered with success.

### 2.4 Stage6Sandbox

*`Stage6SandboxExecutionService`.*

`row` holds the latest transition of every order with its attempt number,
`killed` the switch; `exch`, `accepted` and `sent` are the exchange's side. A
call under the lock is `job`, the orders it still has to treat (`todo`), the one
it treats (`at`) and its step with that order.

| Code | Actions |
| --- | --- |
| `submit`, `reconcile`, `cancel`, `set_kill_switch` | `Submit`, `Reconcile`, `Cancel`, `Trigger`, `Reset` |
| the loop over a batch | `Skip`, `Stop`, `Send`, `Treat`, `Finish` |
| `_submit_with_query_first` | `Query`, `Create`, `CreateFails`, `Ask` |
| `_reconcile_order` | `ConfirmKnown`, `ConfirmUnknown`, `Resend` |
| `_cancel_and_reconcile` | `CancelCall` |
| `_record_exchange_evidence`, compensation after a failure | `Record` (with `Settle`) |
| death, `recover_active_batches` at start | `Crash` |
| the exchange (external) | `Move` |

Recovery runs when the local API starts (`api.py:208`) and not when the public
one does; `RecoversAtStart` chooses.

### 2.5 AiReviewDesk

*The request coordinator, the effects that load the page again, and the actions of
the AI review page.*

`desk` is what the page shows (the choice, the approval, the review and how much
of its chain of decisions), `busy` the flags that lock it, `scope` the area and
the run of research the operator is on. `loads`, `runs` and `appends` are requests
in flight, `reviews` the server's. The coordinator compares generations, which
never come back; a request therefore carries `live`, cleared by whatever advances
its lane, and stays in flight when it is not.

| Code | Actions |
| --- | --- |
| the layout effects: context, providers, experiments | `SwitchContext`, `ReadContext`, `ContextLoaded`, `ExperimentListed` |
| `toggle...Comparison`, `select...Provider`, `approve...ExternalData` | `ToggleComparison`, `SelectProvider`, `ApproveExternalData` |
| `runAiReviewStage3` and the service | `RunReview`, `CreateReview`, `ReviewReturned` |
| `runTerminalAiReview`, which may have to make an experiment first | `PrepareReview`, `ExperimentMade`, `ReviewPrepared` |
| append, then read the chain back | `AppendDecision`, `RecordDecision`, `DecisionAnswered`, `ChainReadBack` |
| another reviewer (external) | `OtherDecision` |

`overtaken` remembers that a prepared review was started after the operator had
moved on (section 6); the properties of the page are stated for the other runs.

### 2.6 AutoTradingPanel, LatestView

*The panel, the portfolio page and the live gate, over one shared snapshot.*

`server` is the sequence of states the service has been in; a snapshot is a place
in it. `panel` is the mounted panel (what it shows, its form, its three flags),
`shared` the controller's snapshot, `reads` and `writes` the requests in flight,
`live` as above. Two console pages are one page that can be mounted anew.

| Code | Actions |
| --- | --- |
| mount, unmount | `OpenPage` |
| `load`, `refresh` every five seconds | `Poll`, `LoadAnswered`, `RefreshAnswered`, `PanelReadFailed` |
| the portfolio page's poll | `RiskPoll`, `RiskAnswered` |
| `openLiveTradingGate`, `completeLiveTradingGate` | `GateLoads`, `GateAnswered`, `GateCompletionFailed` |
| the form, `save`, `save(false)`, `evaluate` | `EditDraft`, `Save`, `Pause`, `Evaluate`, `ServeWrite`, `SaveReturned`, `EvaluateReturned`, `WriteFailed`, `LateReturn` |
| the service, another session (external) | `ServeRead`, `RunnerStops`, `OtherSessionSaves` |

**LatestView** is what a view of a remote state promises: nothing, or a version
the server has produced and no older than any shown before.
`SharedShowsLatest` is the refinement, with what the gate wrote mapped to nothing.

### 2.7 ResearchNote

*The note editor: one text box, three writers.*

A text is empty, typed, or the half or whole draft of a generation. `gens` are the
generations whose request has not returned, with the text they found (`before`),
whether the draft's version is still theirs (`fresh`) and their place in the
protocol of the stream (`stage`); `writer` is the one that owns the request number
and the abort controller.

| Code | Actions |
| --- | --- |
| typing, provider, approval | `Edit`, `SelectProvider`, `Approve`, `RegistryAnswered` |
| the effect on area and context | `SelectContext`, `SelectArea` |
| `generateCurrentResearchNoteDraft`, with `onDraft` and `onReset` | `Generate`, `StreamDraft`, `StreamReset`, `StreamDelta`, `GenerationCompletes`, `GenerationFails` |
| `refreshResearchNote` | `LoadServed`, `LoadAnswered` |
| `saveCurrentResearchNote` | `Save`, `SaveServed`, `SaveReturned` |

`left` remembers the generations the operator walked away from half way (section
6). A response without a stream body is not modelled.


## 3 Runs

The runs of the core finish in seconds, those of the web client in one to two
minutes with two workers. Deadlock is checked except in `ai_review_desk`,
`research_note` and `research_note_half`, where an operator who does nothing more
and a client without requests in flight may rest for ever. (The panel's timers
never rest.)

| Run | What it asks | Instance | States |
| --- | --- | --- | --- |
| `lease` | Do fenced writes belong to the latest acquirer (`NoStaleWrite`), and is an abandoned row taken over (`AbandonedLeaseTakenOver`)? | 3 instances, lease of 2 ticks, statements up to 1 tick early or late, crashes without bound | 24 002 |
| `auto_trading` | Is every order announced before it can exist (`IntentFirst`), the pending one while it can execute (`LiveOrderIsPending`), counted at most once (`CountedOnce`), in the ledger (`LedgerMatchesAccount`), never lost (`FillKept`)? Does a stop stop (`StoppedSendsNothing`), a closed order stay closed (`ClosedStaysClosed`), a fill reach the ledger (`FillReachesLedger`), and does all this implement `OrderSettlement` (`Settles`)? | 2 orders, 2 controls, 2 crashes, orders filled whole or not at all | 21 586 |
| `auto_trading_partial` | With partial fills, is a trade what the exchange filled (`TradesBacked`)? | 3 orders, 1 control, 1 crash | 200 606 |
| `auto_trading_fill` | Is no fill lost with partial fills? **No** | 1 order | |
| `sandbox` | Are final states true (`FinalStatesTrue`), has an id one order (`NoDuplicate`), does a failure stop the batch (`FailFast`) and the switch stop new orders (`KilledStartsNothing`)? | a batch of 2 orders, 2 crashes, no recovery at start | 247 278 |
| `sandbox_recovery` | Is an order sent twice at most (`RetriedOnce`), and is one batch active (`OneActiveBatch`)? | 2 batches of 1 order, 3 crashes, recovery at start | 56 022 |
| `production_claim` | Do restores that took the claim and succeeded keep each other out of an account (`AdmittedExclusive`), and do credentials never change under a control (`ControlKeepsAccount`)? | 3 tenants, 2 accounts, late failures, padded actions, crashes without bound | 122 368 |
| `production_claim_late` | Is an account controlled by one tenant (`AccountExclusive`), when a restore can fail after it stored its control? **No** | 2 tenants, 2 accounts | |
| `ai_review_desk` | Is the review shown one of this run (`LoadedReviewOfThisRun`), is an approval for what is sent (`ApprovalBinds`), do decisions never disappear again (`DecisionsNeverGoBack`), and is the page always unlocked (`DeskBecomesFree`)? | 2 runs with 3 experiments, 1 external model, 1 move, 2 reviews, 1 decision each | 403 562 |
| `auto_trading_panel` | Does what the pages share never go back (`SharedShowsLatest`, refining `LatestView`), does the panel give one command at a time (`OneCommandAtATime`, its own commands: the live gate's post is another session's), does a pause of an untouched form change nothing (`UntouchedFormChangesNothing`), does an open console catch up (`ConsoleCatchesUp`)? | 2 configurations, 3 states of the service, 2 commands, 2 reads, 1 move | 659 621 |
| `research_note` | Does a stream never overwrite what others wrote (`StreamKeepsOthersText`), does no half draft stay (`HalfOnlyWhileWriting`), do flags and requests agree (`FlagsMatchRequests`), is an approval used where it was given (`ApprovalGivenHere`), does the editor become free (`EditorBecomesFree`)? | 2 instruments, 1 external provider, 4 acts of which 2 moves, 2 generations, 1 edit, 1 save | 323 772 |
| `research_note_half` | Can a half draft never be saved? **No** | 2 instruments, 1 generation, 2 moves | |

**Why the bounds are enough.** *Lease*: every race is between a former holder, a
present one and a candidate; the third instance shows that a stale holder is
fenced although the lease changed hands twice. A lease of two ticks with
differences of one tick either way contains the case in which two instances
disagree about expiry. *Automatic trading*: at most one order is pending, so an
interleaving involves one order and its successor; a buy of two units and the
sale after it cover both sides, partial fills and dust. Two crashes let a
recovery die as well; two controls let a session outlive its control.
*Sandbox*: two orders of one batch show fail-fast and compensation, two batches
their exclusion; the third crash is the first that could lead to a third
submission. *Claims*: two tenants compete for an account while a third holds or
moves to the other one. The theorems of section 5 do not depend on any of these. *Review page*: a race is
between the context shown and one other, and between a request and the one that
replaces it; the second review and the second reviewer's decision make answers
that are out of order in the chain. *Panel*: three states of the service are one
before, one made by a command and one made by somebody else meanwhile; two reads
in flight are a poll and what supersedes it. *Note*: the total of four acts lets
every pair of writers overlap with a move before or between them; the second
generation is the one that overtakes.

`LedgerMatchesAccount` and `FillKept` are stated for orders that are filled whole
or not at all; with partial fills they fail, which is the finding of
`auto_trading_fill`, so `PartialFills` is a constant and the run without it shows
that nothing *else* loses a fill.

Symmetry is not used: the instances are small, and two runs check liveness.


## 4 Fairness

Safety is checked without any. `LiveSpec` adds what the scheduling of the code
justifies, and nothing for users, crashes or losses:

* **PublicLease.** Time passes; every instance's scheduler tries to acquire again
  in each round (`public_background.py`), and continues an operation it has begun.
  `Finish` is strongly fair because an operation is a bounded sequence of calls
  with time limits; without that, an operation that renews for ever is a legal
  behaviour of the model. No fairness for renewal, release or crash.
* **AutoTrading.** The background task is scheduled again and again and gets the
  tenant lock each configure call releases (`SF(Begin)`, `WF(ConfigureSave)`); a
  running cycle continues (`WF(Cycle)`). A query of an order that is visible, a
  trade record and a state save succeed eventually when repeated for ever
  (`SF(ReconcileFound)`, `SF(RecordTrade)`, `SF(Save)`): each may fail any finite
  number of times, and crashes are bounded by `MaxCrashes`. The exchange decides
  every order it received. No fairness for users, so a strategy that stays paused
  for ever is included, and a filled order must be booked all the same.
* **AiReviewDesk, ResearchNote.** `WF(Answers)`: a request is answered or fails in
  the end. Nothing for the operator, the server's other users or the stream's
  speed. That one disjunction is weakly fair is enough because what it contains is
  finite: every answer uses up a request.
* **AutoTradingPanel.** The timer fires (`WF(Poll)`) and requests are answered
  (`WF(Answers)`). `SF(CurrentReadServed)` and `SF(CurrentReadAnswered)` say that the
  polls' answers are not *for ever* slower than the five seconds after which the
  next poll drops them: the code does not guarantee that, its environment has to.
  Without it a console may never show anything, which TLC confirms.


## 5 Theorems

Proved by TLAPS for every value of the constants, from the named assumptions of
the modules (types of the constants; for the lease, that the differences of the
clocks are such that `Floor` is expired for everybody).

| Module | Theorem | Says | Under |
| --- | --- | --- | --- |
| PublicLeaseProofs | `TypeCorrect`, `StaleWritesBlocked`, `FencedWritesExclude` | `[]TypeOK`, `[]NoStaleWrite`, `[]WritesExclude` | — |
| AutoTradingProofs | `TypeCorrect`, `TradesAreFills` | `[]TypeOK`, `[]TradesBacked` | — |
| AutoTradingProofs | `IntentsFirst`, `LiveOrdersPending` | `[]IntentFirst`, `[]LiveOrderIsPending` | one instance |
| AutoTradingProofs | `ClosedOrdersStayClosed`, `StopsStop` | `ClosedStaysClosed`, `StoppedSendsNothing` | one instance |
| AutoTradingLedgerProofs | `TradesCountedOnce` | `[]CountedOnce` | one instance |
| AutoTradingLedgerProofs | `FillsKept`, `LedgerIsAccount` | `[]FillKept`, `[]LedgerMatchesAccount` | one instance, orders fill whole |
| AutoTradingLedgerProofs | `OrdersSettle` | `Settles`: AutoTrading implements OrderSettlement | one instance, orders fill whole |
| Stage6SandboxProofs | `TypeCorrect`, `FinalStatesCorrect`, `OneOrderPerId`, `OneBatchActive` | `[]TypeOK`, `[]FinalStatesTrue`, `[]NoDuplicate`, `[]OneActiveBatch` | — |
| Stage6SandboxProofs | `SubmitsFailFast`, `KilledStarts` | `FailFast`, `KilledStartsNothing` | — |
| Stage6SandboxProofs | `SentTwiceAtMost` | `[]RetriedOnce` | recovery at start |
| ProductionClaimProofs | `TypeCorrect` | `[]TypeOK` | — |
| ProductionClaimProofs | `AdmittedController` | `[]AdmittedExclusive` | one instance |
| ProductionClaimProofs | `OneController` | `[]AccountExclusive` | one instance, no late failure, no padded action |
| ProductionClaimProofs | `CredentialsUnderRevokedControl` | `ControlKeepsAccount` | one instance |
| AiReviewDeskProofs | `DeskTypes`, `ApprovalStands`, `ReviewIsOfThisRun` | `[]TypeOK`, `[]ApprovalBinds`, `[]LoadedReviewOfThisRun` | — |
| AiReviewDeskProofs | `DecisionsStay` | `DecisionsNeverGoBack` | — |
| AutoTradingPanelProofs | `PanelTypes`, `OneCommand` | `[]TypeOK`, `[]OneCommandAtATime` | — |
| AutoTradingPanelProofs | `UntouchedForm` | `UntouchedFormChangesNothing` | — |
| AutoTradingPanelProofs | `SharedIsLatestView` | `SharedShowsLatest`: AutoTradingPanel implements LatestView | — |
| ResearchNoteProofs | `NoteTypes`, `FlagsAgree`, `HalfTextIsWritten`, `ApprovalStays` | `[]TypeOK`, `[]FlagsMatchRequests`, `[]HalfOnlyWhileWriting`, `[]ApprovalGivenHere` | — |
| ResearchNoteProofs | `StreamsKeepTexts` | `StreamKeepsOthersText` | — |

"One instance" is `~OtherInstance` for automatic trading and "any two instances
are equal" for the claims. Both hypotheses are needed: with `OtherInstance` TRUE
TLC finds a pause undone (section 6), and with two instances in `production_claim`
it finds both properties of the claims violated. `OneController` says that a late
failure (`~LateFailures`) and a padded action (`~PaddedActions`) are the only ways in
which one instance lets two tenants into an account. The code has both, so it is a
statement about where the defect lies and not about what the code guarantees:
`production_claim_late` is the counterexample with the one, section 6 (3) with the
other. "Orders fill whole" is `~PartialFills`; the run `auto_trading_fill` is the
counterexample without it.
"Recovery at start" is `RecoversAtStart`, true of the local server
(`sandbox_recovery` runs with it).

**The arguments.**

* *Lease.* `LeaseInv`: a fenced instance has the row locked (`LockedByFenced`) and
  is its holder (`FencedHolds`); a live holder is the latest acquirer
  (`HolderIsLatest`). `NoStaleWrite` alone is not inductive: without the row lock a
  takeover between fence and commit would break it. Clocks do not occur in the
  argument, which is why it holds for all of them.
* *Automatic trading.* Typing already needs a fact about the cycle (`Targets`: an
  unresolved order has a number), since a fill is looked up by it. `Inv` then
  states what is durable (`Durable`: the state event lags one intent behind at
  most, and only while it has no unresolved order of its own), that one lock
  serializes (`Serial`), and what each step of a cycle knows (`Running`: it works on
  the latest intent; before create the exchange has not heard of it; what it is
  about to save as finished cannot execute any more). `Durable` is the heart: it is
  why looking at the *latest* intent only is enough for recovery.
  `ClosedOrdersStayClosed` adds that a cycle never holds as unresolved what the
  durable state has closed (`Steady`); `StopsStop` adds that a cycle works with the
  session of the durable state, and that a pause leaves no session
  (`Authorized`). `TradesAreFills` needs none of this, only that a trade about to be
  recorded is the fill of a finished order (`Bookable`), so it holds with a second
  instance too.
* *The ledger.* All of it rests on where a settlement stands (`Places`, from `Steady`
  and `Filling`): an order is unsettled from its intent to the state event that
  closes it, and only the latest can be. `CountInv` compares the counter with the
  trades of settled orders only (`ClosedTrades`): a trade repeated after a crash
  between trade event and state event is not among them yet, so it is counted
  once. `CountedOnce` itself forgets which trades are settled and is not
  inductive. `BookInv` (`Booked`: what filled is a trade or is of the unsettled order)
  gives `FillKept`; with the position of the exchange's side (`Ledger`) and what a
  cycle carries of it between its steps (`Carried`) it gives `LedgerMatchesAccount`.
  `Settles` is then proved step by step: an intent announces, a fill executes, a
  state event books or closes, everything else stutters.
* *Sandbox.* `Inv`: an order never attempted is still authorized (`Numbered`); the
  exchange accepted one order where it knows one (`Counted`); a call is only ever
  about to create what the exchange does not know, under a durable
  `submission_pending` (`Asking`); what it is about to record is true
  (`Truthful`). `OneBatchActive` has its own invariant: the orders a call treats
  belong to one batch and no other batch is active (`SerialInv`). `SubmitInv` says
  that a submission runs with the switch off and has placed everything before the
  orders it still has to treat (`Submitting`), from which `FailFast` and
  `KilledStartsNothing` follow; `RetryInv` adds that an order waiting for a
  confirmation is in the hands of the call that will give it (`Recovered`), so that
  no submission can start a third attempt (`Limited`).
* *Claims.* `AdmittedHoldsClaim` (an admitted control has the claim on the account
  its credentials open) gives exclusiveness; `RequestInv` says what a request knows
  while it holds its tenant's lock: no admitted control rests on what it may give
  back, and no control is active between invalidating and storing credentials. The
  theorem about every active control adds that, without late failures and padded
  actions, what is active is admitted (`ActiveAreAdmitted`).
* *Review page.* `DeskInv` is about the two lanes of the coordinator. At most one
  load and one request of the review lane are live, and the load is of the page's
  context (`Single`); while a load is live the page is locked, shows no review, holds
  no approval and has nothing else live (`Loading`); a live request was asked with
  what the page still shows, and a review made for it has a higher number than the
  one shown (`Asked`); numbers are of reviews the server has (`Numbered`); a prepared
  experiment is of the run on the page while it is current, and no approval stands
  when it is listed (`Waiting`). All but `Single` are conditional on `~overtaken`, as
  the properties are: `ReviewPrepared` asks for its review without looking at the
  lanes, which is where they meet (section 6). The server's newest review exists by
  well-founded induction on numbers (`HasNewest`), for any number of reviews.
* *Panel.* `PanelInv`: one request whose answer would be taken is under way, a read or
  a command, the gate's own reads apart, and it belongs to the page that is open
  (`Alone`); what it saw is no older than what was shown (`Newer`); the buttons stand
  for it (`Flags`); a form that is clean and a command sent from one hold the
  configuration the service has (`AsLoaded`). The refinement of LatestView needs
  `Newer`: the floor of the abstract view is what the request number protects.
* *Note editor.* `NoteInv` follows an unfinished text wherever it can go: in the box it
  is either the current writer's or was left behind by a move (`Writing`), and no text
  that can come back into the box — what a generation found, a note read, a save, a
  stored note — is an unfinished one of another generation (`Sources`). `Shows` says
  what a generation that is still current sees in the box; `StreamsKeepTexts` is that
  fact at each stream step.

The inductive invariants of the web client's modules were checked by TLC on the
configurations of their runs before they were proved.

**Only model-checked.** Every invariant, action property and refinement of the
passing runs is a theorem. What stays with TLC is liveness
(`AbandonedLeaseTakenOver`, `FillReachesLedger`, `DeskBecomesFree`, `ConsoleCatchesUp`,
`EditorBecomesFree`), which needs ENABLED and is out of the prover's reach.


## 6 Where code and documents disagree

Those with the name of a run are kept as runs that find a counterexample;
`PROJECT.json` quotes the lines. The others are consequences of the modules too,
met when their properties were chosen: each can be seen again by adding the
formula given to a configuration.

1. *A lost fill* (`auto_trading_fill`). A submission answered at once with an order
   that ended partly filled is remembered as final and not settled; reconciliation,
   which would settle it, skips final orders. `CONTEXT.md:142` and ADR 0021 say a
   final order's filled quantity is booked once.
2. *A claim given back under an active control* (`production_claim_late`). A restore
   that fails after it stored the control releases the claim it created, and
   another tenant can take control of the same account; `CONTEXT.md:135` says an
   active fingerprint has one controller.
3. *A control without a claim* (ProductionClaim: `MCProductionClaimLate.cfg` with
   `LateFailures = FALSE` and `PaddedActions = TRUE`, eight states). The claim
   is taken when the action sent is exactly `restore` (`public_tenant_api.py:353`,
   `713`); the route strips it (`http_api/routes/stage10.py:116`, `http_api/support/stage5.py:187`,
   `stage10_production_execution.py:553`) and stores an active control for
   ` restore ` too. Tenants with keys of one account can so all control it, against
   `CONTEXT.md:135`. A padded revoke, the other way round, keeps a claim nobody uses.
4. *Half a draft that can be saved* (`research_note_half`). Moving to another
   instrument or area in the middle of a stream, or typing into it, disowns the
   generation and leaves its half text in the box with the save button enabled;
   `src/design-qa.md:92` says none of these leaves a half product that can be saved.
   The other properties of the editor exempt such generations (`left`).
5. *Two executors* (PublicLease, `Timely` TRUE: two instances between `Acquire` and
   `Release`). When a renewal raises, the operation goes on until its next guard
   while another instance acquires the expired lease. Writes are fenced, calls of
   the exchange are not; `CONTEXT.md:139` says several instances cannot execute the
   same task at the same time.
6. *An order that is never closed* (AutoTrading: `Pending(o) ~> ~Pending(o)`). An
   order that never reached the exchange cannot be found and so stays in
   reconciliation for ever, blocking new orders and every switch; ADR 0021 and the
   Stage 10 operations guide say that recovery brings it to a final state.
7. *A pause undone* (AutoTrading with `OtherInstance` TRUE: `StoppedSendsNothing`). A
   cycle's save overwrites a pause that was saved through another API process
   meanwhile, and later cycles send orders.
8. *Sending after the kill switch* (Stage6Sandbox: `sent` unchanged while `killed`).
   Reconciliation, which the reset of the switch requires, may send an order again
   while the switch is triggered; ADR 0007 says further submissions stop.
9. *A review in another run* (AiReviewDesk: `ReviewOfThisRun`, nine states). A review
   whose experiment has to be made first waits for the refreshed list of
   experiments and goes on although the operator has moved to another run
   (`review-readiness.tsx:54`, `strategy-state-actions.tsx:348`): it is begun, and
   shown, in the new context. The coordinator's tests
   (`lib/ai-review-stage3.test.ts:815`) say a change of scope makes old requests
   stale, but the request is only begun afterwards. It also sends the approval and
   the comparisons captured at the click.
10. *An older snapshot over a newer one* (AutoTradingPanel: `SharedShowsLatest`
    without the mapping of `gated`). The live gate's own load has no request number;
    `src/design-qa.md:1382` says slow old answers cannot overwrite the authoritative
    snapshot. The next poll repairs it (`ConsoleCatchesUp`).
11. *A form of defaults* (AutoTradingPanel: `UntouchedFormChangesNothing` without
    `clean`). Only the first load fills the form; when it fails, or the first poll
    or a command overtakes it, the form keeps its defaults (paper mode) while the
    panel shows, say, live trading. A pause posts them: the service switches the
    mode and starts a new ledger if there is no position, and refuses the request,
    the pause with it, if there is one.
12. *A note under another instrument* (ResearchNote: the box holds a text whose `of`
    is not the context). `refreshResearchNote` does not check that its context is
    still the one on the screen, so a late answer lands under the wrong instrument
    and can be saved there. A save's answer overwrites what was typed meanwhile.
13. *A provider changed under an approval* (ResearchNote: `RegistryAnswered` with
    `approved`). The late answer of the registry changes the provider and keeps the
    approval, which choosing a provider by hand takes back (`src/design-qa.md:88`).


## 7 What is not modelled, and why

* **In automatic trading:** the paper and testnet modes, the strategy bindings,
  the risk thresholds (they only decide whether a signal becomes an order, which
  is a choice here), fees and number formats, and the credentials an instance
  caches for a tenant. A lost lease in the middle of a cycle raises and fences
  every later write, so it is the same as a crash.
* **In the route:** the chain of credential, permission and review evidence: it
  decides refusal, which is a choice.
* **In the sandbox:** the content and freshness of an authorization, several API
  processes (the comment at `stage6_sandbox.py:357` names one process as its
  assumption), and a create request that arrives *after* a query said "not
  found"; the module states that queries are authoritative. In AutoTrading the
  opposite is modelled, since there a pending order is never given up.
  `RetriedOnce` holds with the recovery of the local start and fails without it.
* **In the lease:** several tasks and tenants (rows are independent), the list of
  tenants, the schedule.
* **In the claims:** several instances can be given to the module; the run uses one
  because `AdmittedExclusive` and `ControlKeepsAccount` are false with two: a revoke on
  one instance can delete the claim that a restore on the other has just taken, and
  a restore on one can land before the new credentials on the other. The evidence of
  a restore is a choice to refuse: neither the preflight nor the permission
  verification names the keys it was made with, so for the five minutes of the
  latter it is accepted after a change of the keys as well, although the
  invalidation asks for a new verification (`public_tenant_api.py:745`).
* **In the review page:** inspecting an older review and choosing the primary
  experiment, which are handlers no page calls; the text of a decision; the legacy
  history.
* **In the panel:** the confirmation dialogs, the monitoring read beside the
  snapshot, notifications, the choice of a path for an unresolved order, the block
  of strategy bindings.
* **In the note editor:** the handoff notes and the saved workspace of the same
  file, and the answer without a stream.
* **In the server, known and not yet modelled:** the credentials an instance caches
  for a tenant (`public_tenant_api.py:447`); the testnet submission that raises on a
  lost reply (`auto_paper_trading.py:2943`); the shared write fence
  (`tenant_storage.py:43`); a pipeline job executed before its status is stored
  (`public_tenant_api.py:264`); the holdout that is reserved, claimed and read in
  separate steps and raced for (`strategy_experiments.py:1671`,
  `strategy_experiment_store.py:308`), and the local launch nothing resumes
  (`strategy_experiments.py:593`); one observer of incidents and a notification
  claimed before it is sent (`monitoring.py:157`, `371`); fixed windows of different
  clocks (`public_coordination.py:44`); a login completed in several steps
  (`public_auth.py:124`); imports without a transaction and an undo token consumed
  last (`http_api/support/research_import_transaction.py:71`,
  `http_api/routes/research_import.py:81`).
* **Whole components:** those of section 1 with status `not_modelled`, by reason:
  planned (section 8); pure computation, which is a later kind of module; I/O,
  presentation or cryptography, about which a state machine says nothing.


## 8 Plan

The order follows what a failure costs: real orders and accounts first, then what
keeps instances apart, then evidence that must be used once, then the rest.

| | Module | Composes / refines | Run and bounds | Properties and theorems | |
| --- | --- | --- | --- | --- | --- |
| 1 | PublicLease | | 3 instances | fencing; proved | done |
| 2 | AutoTrading, OrderSettlement | AutoTrading ⇒ OrderSettlement | 2–3 orders | durable intents, single pending order, booking, stops, the refinement; proved | done |
| 3 | Stage6Sandbox | | 1×2 and 2×1 orders | true states, one order per id; proved | done |
| 4 | ProductionClaim | | 3 tenants, 2 accounts | exclusiveness of what took the claim, keys under a revoked control; proved | done |
| 5 | AiReviewDesk | | 2 runs, 2 reviews | nothing stale shown, approvals bind | done, proved |
| 6 | AutoTradingPanel, LatestView | AutoTradingPanel ⇒ LatestView | 3 states, 2 commands | never back, catches up | done, proved |
| 7 | ResearchNote | | 2 instruments, 2 generations | one box, three writers | done, proved |
| 8 | GoldenPath | the automation over the actions of the pages | 2 contexts, 3 actions | one action at a time, it ends or waits | next |
| 9 | FormalExperiment | sealed datasets + experiments; abstract: a one-time claim | 2 experiments, 1 snapshot, 2 crashes | the holdout is read once; a completed experiment has the claim it names; a launch is idempotent | |
| 10 | PipelineJobs | over PublicLease's promise (NoStaleWrite) | 2 instances, 2 jobs | a job ends; runs repeated after a crash agree; the shared fence | |
| 11 | Monitoring, OidcLogin, ResearchImport | | 2 observers; 2 callbacks; 3 stores | occurrences; a login completed once; all or nothing | |
| 12 | AutoTrading, further | testnet mode, cached credentials | as now | | |

Proofs to come: that the hypotheses of the theorems are needed only where they are
used (which invariants survive a second instance, or partial fills), stated as
theorems without them where they hold; and the modules of the rows above that are
not written yet.
The number of runs is kept small: a new question replaces or joins a run that has
answered its own.
