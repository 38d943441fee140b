# TLA+ verification of the research kernel

The repository is a kernel for machine-assisted mathematics (`src/src/rk`) and a product layer around
it (`src/src/rk/product`, `src/src/rk/http`). The kernel keeps one *run* per research problem: a frozen
problem contract, claims and logical edges, routes and attempts, evidence, reviews, verdicts and finally
an outcome such as PROVED. Everything is stored in one SQLite database and a content-addressed file
store, shared by short-lived CLI processes, host processes that call external provers, and a daemon.

This directory holds TLA+ models of the parts that carry the system's guarantees, TLC configurations
that check them on small instances, and TLAPS proofs of the central ones for instances of any size.
`PROJECT.json` maps every definition to the lines it translates, and lists runs, mutants, hazards,
findings and theorems.

1. [Inventory](#1-inventory)
2. [Modules and how they correspond to the code](#2-modules-and-how-they-correspond-to-the-code)
3. [Runs](#3-runs)
4. [Fairness](#4-fairness)
5. [Proofs](#5-proofs)
6. [Where documents and code disagree](#6-where-documents-and-code-disagree)
7. [Abstractions and what is not modelled](#7-abstractions-and-what-is-not-modelled)
8. [Plan](#8-plan)

## 1. Inventory

### 1.1 Kernel

| Component | State | Operations | Talks to | What is hard | What makes it correct |
|---|---|---|---|---|---|
| Entry points (`kernel.py`), CAS (`cas.py`) | `runs`, `commands`, `events`, `artifacts`, `run_artifacts`; `.stage/*.part` and final files | `create`, `apply`, `import_artifact` | guard, projector, file system | staging and renaming are not part of the transaction; repeated request ids; crashes | no row without its file; one decision per request id; one event per revision; the state decided on is the state committed |
| Transition guard and projector (`guard.py`, `projector.py`): run and attempts | `runs.status`, `contract_versions`, `routes`, `attempts`, `leases`, `execution_bindings`, `budget_events` | some 30 core commands | entry points, host execution | each command ends leases, attempts and routes by its own SQL; a lease is judged by the clock | an attempt is RUNNING exactly while leased; write sets are disjoint; active rows belong to the current contract; a closed run is frozen |
| Transition guard and projector: claims | `claims`, `claim_edges`, `composition_obligations`, `closure_witnesses`, `peer_reviews`, `evidence`, four verdict axes, `runs.outcome` | register, revoke, amend, verify, review, witness, promote, finalize | composition, machine trust | what a revocation must reach is a graph closure; verdicts, evidence, closures and witnesses live in different tables | no circular proof; witnesses do not outlive their subgraph; verdicts have receipts; PROVED stands |
| Composition (`composition.py`), machine trust (`machine_trust.py`) | none of its own | validation of a closure witness, trust in a replay | guard | two readings of a bidirectional edge | acyclic, connected, complete selections only |
| Host execution (`host_execution.py`, `storage.py`) | `host_execution_claims`, `host_execution_receipts`, heartbeat thread | scope, claim, invoke, heartbeat, record, recover, consume | provider adapters, guard | the provider call is outside any transaction and may take hours; the process may die or be presumed dead | at most one provider call per attempt; every claim settles one way; only an unbroken execution gives authority |
| Orchestrator (`orchestrator.py`) | checkpoint file: queue, routes, rounds, composition, review | the research pass, pause, resume, review | kernel, components | batches that stop half way, checkpoints older than the kernel, repair loops that feed each other | no work is lost; a candidate rests on reviewed work; a pass reaches a gate |
| Ingest policy, wire schemas, capabilities | none | validation of one message | entry points | – | – |
| Scheduler, fact graph views, dossier, paper, reporting | none (read-only) | ranking, rendering | storage | – | – |
| Adapters, CLI | none | external calls, argument parsing | providers, users | – | – |

### 1.2 Product layer

| Component | State | Operations | Talks to | What is hard | What makes it correct |
|---|---|---|---|---|---|
| Operations and durable jobs (`operations.py`, `command_service.py`, `jobs.py`, `durable_runtime.py`) | `product_receipts`, `product_jobs`, leases, execution receipts, checkpoints, resolutions | reserve, apply, decide, enqueue, claim, heartbeat, record, resolve, cancel, checkpoint, invalidate, recover | authority, executors, daemon | lapsed leases with live workers, crashes between effect and record, requests repeated after a lost answer | fencing, one final outcome, manual jobs run once, receipts follow their life cycle, the queue drains |
| Daemon (`supervisor.py`, `http/production_runtime.py`) | attached processes, orphan list | boot, recover, pump, harvest | jobs | several daemons on one database | as above |
| Domain commands and research list (`domain_commands.py`, `domain_command_handlers.py`, `listing.py`) | receipts, catalogue, summaries | some 20 commands, paged listing | kernel, every store below | the kernel and each store are written in transactions of their own; the fence is a projected revision | an accepted receipt names work that is all there; pages are the catalogue |
| Executors (`durable_executors.py`, `production_executors.py`) | deployed ports, external effects | query, render, compile, deploy, reconcile | jobs, stores, network | an answer that never came | outcome and effects agree |
| Sessions and identity (`sessions.py`, `identity.py`, `authority.py`) | identities, sessions, links | login, enter, switch, logout, disable, derive a capability | command routes | requests of one browser interleave with its own switch and logout | every kernel call rests on a login |
| Tool runs, managed python (`tool_runs.py`, `managed_python.py`) | tool runs, attempts, executions, processes | bind, reserve, spawn, stage, harvest, abandon, cancel, rerun, reconcile, validate | jobs, operating system | a process that outlives its record; a receipt staged before it is recorded | a recorded receipt is what the one process said |
| Publication and reviews (`publication*.py`, `reviews.py`, `attestation_import.py`) | finalization, candidates, tasks, reviews, compilations | finalize, render, assign, claim, reassign, import, compile, show | kernel, identities | a task changes hands while its review is verified | only an independently accepted, compiled text is shown |
| Problem pool and batches (`problem_pool.py`, `arxiv_batch.py`) | sources, candidates, scores, batches, runs | ingest, audit, score, freeze, dispatch, execute | kernel | state read before the transaction that relies on it; broken-off batches | the denominator is complete; one run per candidate and batch |
| Invalidation, revocation (`invalidation.py`, `revocation.py`), contracts (`contracts.py`, `contract_materials.py`) | bindings, ledger, watermark, previews, versions, references, dependencies | bind, record, materialise, preview, confirm, amend, resume, replace | kernel | a closure computed in one step and applied in others; handlers that die in between | nothing withdrawn is consumable; a revision is in force only after its consequences |
| Uploads (`artifact_upload.py`), materials (`materials.py`), snapshots (`source_snapshots.py`) | upload rows, spool files, extractions, anchors, answers | begin, append, commit, abort; ingest, extract, revise; capture, replay | CAS, tool runs | files are not in the transaction; two transactions per extraction | bytes are complete or absent; anchors quote their text |
| Claims, verifier plans, drafts (`claims.py`, `verifier_planner.py`, `research_draft.py`, `obligation_adapter.py`) | drafts, candidates, claims, plans, results, obligations | normalise, submit, plan, report, import, discharge | kernel | plans read before the transaction that writes them; two ways to import a verdict | drafts close on verified claims only |
| Controller (`controller.py`) | one journalled state file | start, advance, execute, pause, resume | model, tools | a process that dies between claim and receipt | a call runs at most once |
| Ablation (`ablation.py`) | plans, arms, assignments, results | freeze, start, record, complete, report | problem pool | autocommitted statements | a completed arm counts every problem |
| Route plans and guidance (`route_plan.py`, `guidance.py`, derivers) | plans, command log, guidance, work items | propose, approve, pause, stop; queue, derive, cancel | orchestrator | repeated commands; a deriver with an old view | each request has one effect |
| Work, streams and logs (`work_activity.py`, `activity_*.py`, `log_tail.py`) | work items, workers, ledger, cursors, chunks | assign, finish, append, subscribe, drain, seal | front end | readers that reconnect, retention, sealers that die | no gap, no repetition; completed work stays |
| Backup, restore, migrations, upgrade, service | archives, roots, schema and ledger, process receipts | create, restore, migrate, upgrade, start, stop | files, operating system | a crash between two steps that belong together | a root is one whole backup; ledger and schema agree; only the daemon is signalled |
| Placement and budget (`placement.py`, `budgeting.py`) | probes, plans, items, promotions, decisions | probe, place, claim, finish, promote, pause, resume | kernel | several promoters, backpressure in between | results are promoted in their order |
| Case lineage (`research_lineage.py`, `case_import.py`) | sources, lineages, outcomes, verdicts | register, start, record, migrate | materials, claims | three transactions per import | a case rests on the sources it may use |
| Graph index and queries (`graph_index.py`, `graph_query.py`) | index, watermark, page tokens | catch up, rebuild, slice, search | kernel events | the index moves between two pages | pages are one graph |
| Read-only queries, literature graph, SDKs, front end | none, or append-only records | – | – | – | – |

### 1.3 Hard behaviours

`PROJECT.json` lists 40 hazards at their lines. They fall into six groups: workers and hosts that come
back after their lease or their claim was given away; crashes between an effect and its record (provider
call, authority command, renamed file, spawned interpreter, migration); state read before a long call or a
transaction and used after it; one handler that writes several stores in several transactions;
closures (revocation, amendment, invalidation) that must reach everything built on a row; and long
sequences of legal commands that combine into a circle, a stale verdict or an undead row.

## 2. Modules and how they correspond to the code

| Module | Code it models | Role |
|---|---|---|
| `DurableJobs` | `product/jobs.py`, `operations.py`, `command_service.py`, `durable_runtime.py`, `supervisor.py` | component |
| `ReceiptLifecycle` | what a ProductReceipt promises its client | abstract specification; `DurableJobs` implements it (`ReceiptsFollowLifecycle`) |
| `RunExecution` | run, contract, route, attempt and lease commands of `guard.py` and `projector.py`; `host_execution.py` and its transactions in `storage.py` | component; composes the kernel's commands with host processes |
| `KernelApply` | `kernel.py` `create`, `apply`, `import_artifact`; `cas.py` | component |
| `CommandLog` | the command log as a client sees it | abstract specification; `KernelApply` implements it (`ImplementsCommandLog`) |
| `ClaimGraph` | claim, edge, obligation, evidence, review, witness, promotion and finalize commands; `composition.py`, `machine_trust.py` | component |
| `ResearchPass` | `orchestrator.py` | component |
| `Controller` | `controller.py`, the call interface of `component_runtime.py` | component |
| `Sessions`, `ToolWork`, `PaperTrail`, `ProblemPool`, `DomainCommands`, `Executors` | the product stores of those names in 1.2 | components |
| `AuthorityLedger` | `invalidation.py`, `revocation.py` | component |
| `ContractRevision` | `contracts.py`, `contract_materials.py` | component; extends `AuthorityLedger` and composes with it through the ledger and the kernel's revision |
| `Uploads`, `Materials`, `ClaimWorkflow`, `Ablation` | as in 1.2 | components |
| `Steering`, `ActivityTrail`, `Maintenance`, `Placement`, `CaseLineage`, `GraphIndex` | as in 1.2 | components |
| `DurableJobsProofs`, `RunExecutionProofs`, `KernelApplyProofs`, `ClaimGraphProofs`, `ResearchPassProofs` | – | theorems about the module of that name |
| `AuthorityProofs` | – | theorems about `ContractRevision` with `AuthorityLedger`, `Uploads`, `Materials`, `Controller`, `ClaimWorkflow`, `Ablation` |
| `OperationsProofs` | – | theorems about `Steering`, `ActivityTrail`, `Maintenance`, `Placement`, `CaseLineage`, `GraphIndex` |
| `StoresProofs` | – | theorems about `Sessions`, `ToolWork`, `Executors`, `PaperTrail`, `DomainCommands`, `ProblemPool` |
| `MCDurableJobs`, `MCRunExecution`, `MCRunHosts`, `MCKernelApply`, `MCClaimGraph`, `MCResearchPass` | – | instances for TLC |
| `MCProductStores`, `MCProductAuthority`, `MCProductOperations` | – | instances for TLC of the product's components, six in each; the variable `focus` picks the component that moves, so that one run checks all of them without multiplying their states |

An action is one SQLite transaction (`BEGIN IMMEDIATE ... COMMIT`), one autocommitted statement where the
code uses no transaction (`ablation.py`), or one step of a process outside any transaction (a provider
call, a rename, a signal). Where a function reads in one transaction and writes in another, the two are two
actions and what was read is kept in the process's record. A command that the kernel rejects changes no
table but the command log and is an action of `KernelApply` only.

**DurableJobs.** `receipt`, `job`, `lease`, `execution`, `resolution` and `checkpoint` are the tables of
the job store, by request id (a request has at most one job) and lease generation. `proc` is the pump or
harvester thread of each daemon: `claimed` between `claim_next` and the executor's return, `executed` until
the outcome is committed. `sync` is the HTTP thread of a synchronous command between `reserve`,
`authority.apply` and `decide`. `Stop` is what the death of a process loses. `Boot` with
`RecoverAtStartup` runs `recover_expired`, then `ReadOrphans` and `RebindOrphan` are the loop of
`recover_startup`, in which other processes interleave.

**RunExecution.** `run`, `contract`, `claim`, `route`, `attempt`, `lease` are the tables; `hostClaim` and
`receipt` the host tables, by attempt, because `attempt_id` is the primary key of `host_execution_claims`.
A host process goes `idle`, `scoped` (scope read), `claimed` (execution right burnt), `calling`
(provider running) and down. `ClaimHostExecution(h, t)` takes a deadline `t` that may be shorter than the
full timeout, because its `now` is the time of the scope read. `NoDrift` is the comparison made when
the result is recorded. The claims a revocation or an amendment reaches are an arbitrary superset here;
`ClaimGraph` computes them.

**KernelApply.** An operation is split where file system and database can be seen to differ: staged,
moved, committed. `lock` is the database's write lock; replays and rejections are one transaction,
an accepted command holds the lock from its decision to its commit with the rename between them.
`HostRecord` stands for the host transactions that log their own command.

**ClaimGraph.** Claims, edges and obligations are the rows that may be registered, with their ends and
parents as constants; a *plan* is a selected subgraph of a closure witness. `version` is the contract
version of a row, `text` the version whose statement a claim restates. `Reach` is the recursive query
of the projector and the search of `_edge_would_cycle`, written as a least closed set so that it can be
reasoned about; `ForwardArcs` and `DirectedArcs` are the two readings of an edge the code has.
`evidence[c][k]` is the contract version under which evidence of kind `k` was accepted. A review carries
the plan and the contract version that its `selected_subgraph_digest` stands for.

**ResearchPass.** `saved` is the checkpoint file, a process holds the copy it works on; a pass is one action per work
item, with the answer of a component as its input, and saving is the last step. A batch of parallel
falsifications is three steps: the calls, the promotion of the answers, and what is put back when it stops
in between. `moved` says that the kernel's revision is not the one the file is stamped with.

**Product components.** Each module's header names its files. Rows are records or a `No...` value where there is
none; identifiers that the code derives from a request are that request. Processes have a `pc` and
the values they read. What the three product runs leave nondeterministic (answers of connectors, exit
codes, verdicts of verifiers, what a digest comparison finds) is an input of the action. `DomainCommands` has
the part of every handler that meets the kernel, the receipt and the catalogue; what CONFIRM_REVOKE,
AMEND_CONTRACT and SUBMIT_PAPER_REVIEW do in their own stores is in `AuthorityLedger`, `ContractRevision` and
`PaperTrail`. Where the code walks a graph, sorts or loops, the module has what the loop computes in a form that can be
reasoned about: `NecessarySubgraph` of `ClaimWorkflow` is the least set closed under direct predecessors, the page of
`ActivityTrail` the ordered page with the rows of one run, the home page of `PaperTrail` the newest publication that is
presentable. `AuthorityLedger` has a state variable `recomputes` for the two orders in which a
confirmation may recompute its closure; production uses the one that recomputes after the kernel moved.

## 3. Runs

| Run | Instance | Distinct states | Shows |
|---|---|---|---|
| `jobs_pumps_and_harvester` | 1 request that may carry any of 3 contents (automatic, manual, synchronous), 2 pumps and 1 harvester, 3 lease generations, 1 checkpoint, 2 crashes, lease of 1 tick | 1.2 M | `LeaseFencing`, `OutcomesAgree`, `EffectsHappenOnce` and the refinement of `ReceiptLifecycle` |
| `jobs_liveness` | 2 requests, 1 pump, as production configures it (manual and synchronous commands, no recovery at startup) | 8 k | `QueueDrains` |
| `jobs_restart_doc` | 1 manual job, 1 crash | – | violation: `RestartRecovers` |
| `run_contract` | 3 claims (2 of them ROOT), 1 route, 1 attempt, 1 host, 2 contract versions | 0.85 M | `VerdictsAreEarned`, `ContractGovernsSteps` across amendment, revocation, interruption and fuse |
| `run_hosts` | from a started run with 2 hosts: 1 attempt is over, the other is raced for, 2 crashes; or 1 executed attempt is paused, the other shares its paths | 0.23 M | `AttemptsAreFenced`, `ClaimsSettleForGood` (with the liveness of open claims) |
| `apply_two_clients` | 2 processes, 2 request ids and 1 host id, 2 byte strings, 2 revisions, 1 crash | 1.2 M | `CommandsAreAtomic`, refinement of `CommandLog` |
| `graph_chain` | root, lemma and sub-lemma, 3 edges (forward, reverse, bidirectional; the third would close a circle), 1 obligation, 1 plan, 4 kinds of evidence, 1 reviewer, 2 contract versions | 0.61 M | `GraphIsWellFormed`, `ClosuresStand`, `ProvedStands` |
| `research_pass` | three plans (parallel batch; revision and two reviews; tools and composition), 2 routes, 1 mishap | 0.41 M | `NoWorkIsLost`, `CandidateRestsOnReviewedWork`, `PassesReachAGate` |
| `product_stores` | 6 components | 1.0 M | one property each, two for `DomainCommands` |
| `product_authority` | 7 modules | 1.25 M | one property each |
| `product_operations` | 6 components | 1.1 M | one property each, two more for `Maintenance`, `CompletedWorkStays` besides `ReadersMissNothing` |
| `commands_rejection_doc` | 2 commands | – | violation: `RejectionHasNoEffect` |

### 3.1 What the product runs show

* `CallsRestOnLogin` – a kernel call comes from an identity that gave its secret in that session and was enabled when the
  request came in, whatever switches and logouts ran between the three reads of the session.
* `ToolReceiptsAreTrue` – an interpreter is started once per execution, and what a tool run reports is what it said.
* `ShownPaperIsReviewed` – the paper on the home page is the text an independent reviewer accepted.
* `PoolIsAccountedFor` – sources, candidates and runs add up over interrupted ingestions and batches.
* `ReceiptsTellWhatWasDone`, `PagesAreTheCatalogue`, `OutcomesMatchEffects` – receipts, pages and outcomes against the stores.
* `WithdrawnIsNotConsumable`, `RevisionsAreEarned` – the ledger and the revisions that go through it.
* `UploadsAreDurable`, `AnchorsQuoteTheirText` – bytes and quotations survive crashes, repetitions and races.
* `CallsRunAtMostOnce`, `DraftsCloseOnVerifiedClaims`, `CompletedArmsCountEveryProblem` – what counts was done, and done once.
* `SteeringHasOneEffect`, `CompletedWorkStays`, `ReadersMissNothing` – commands, work and readers.
* `RestoredRootIsOneBackup`, `LedgerFollowsSchema`, `OnlyTheDaemonIsSignalled` – the deployment.
* `SchedulesKeepTheirOrder`, `CasesRestOnTheirSources`, `PagesAreOneGraph` – scheduling, cases and queries.

The type invariant of each of these components is the first conjunct of its property.

### 3.2 Why the bounds are enough for the cases that matter

* *Leases.* The three generations of `jobs_pumps_and_harvester` let a worker lose its lease, a second take
  the job, lose it too, and a third take it, with the first still about to report. A lease of one tick has
  the two states that count, live and lapsed; a longer lease only adds ticks between them.
* *Hosts.* Two hosts and two crashes reach a host that is presumed dead while it is calling, its claim
  fused by the other, and the late result; a third host repeats the part of the second.
* *Contracts.* Two versions are one amendment. Properties relate the version before to the version after,
  and the proofs of `ClaimGraphProofs` hold for any number.
* *Graph.* Three claims in a chain are the shortest graph in which a revocation has to go through a
  claim that was not named, and the shortest on which a check for direct returns and a search differ.
  `Judged`, `Asked`, `Offers`, `ReviewOffers`, `Defects` and `MaxReviews` bound what clients ask for. With
  a single ROOT no run ends as PROVED after an amendment; the proof covers that case.
* *Apply.* Two processes, each able to repeat the other's request id with the same or other bytes. One
  crash may fall between any two steps.
* *Passes.* Each of the three plans enables one family of repair loops; `MaxMishaps` allows one failed call, spent
  budget, pause, crash or foreign change at any point of any pass, and rounds are bounded by the plan as in the code.
* *Product.* Each component has two of every process that races and two of every row that can be confused, and
  three where a property relates a row to two others (jobs of the executors, workers of one item, attempts of a
  claim). Crashes are not counted there: processes restart without limit and rows bound the behaviour. Byte strings of
  length 1 to 3 over two bytes tell an overwritten, a lost and a repeated chunk apart; pages of one or two rows make every
  listing span several pages.

Deadlock checking is off in every run because each of the systems may stop: all jobs over, a run closed, a pool frozen.

Every property of a passing run has a mutant, the combined ones two or three: a plausible mistake in one of the mapped
definitions (a dropped guard, a missing reset, a one-pass query instead of the recursive one) under which TLC reports
that property. The mutated forms stand beside the definitions, marked *Mutant*.

## 4. Fairness

`DurableJobs!Fairness` is weak fairness of each daemon's own steps, of the synchronous HTTP threads and of
the clock. It is justified by the loop in `production_runtime.main`, which calls `run_once` for ever, by the
service manager that starts a daemon that stopped, and by executors that have timeouts. Users, heartbeats,
invalidations and crashes get no fairness. The number of crashes is bounded, so that a daemon is up for
good eventually; without that assumption nothing has to progress.

`RunExecution!Fairness` is weak fairness of the clock and of each host process: a CLI process that has begun
runs to its end, and a provider call ends by its timeout. Booting is part of `HostStep` because every
invocation of the CLI constructs a service, whose constructor runs `recover_incomplete`. Commands and
the consumption of receipts are up to the clients.

`ResearchPass!FairSpec` is weak fairness of the steps of a process that runs passes, the beginning of a pass included: a pass
that has begun runs to its end because component calls have timeouts, and whoever drives a run calls `start` or
`continue_run` again while its checkpoint says RUNNING. Mishaps are bounded; pause, resume and review are up to people.

## 5. Proofs

Each theorem is `Spec => []Property` or a step property of the same specification: an inductive invariant is shown to hold
initially and to be kept by every action, and to imply the property. The invariant is the property together with what
the processes remember between two of their steps; finding that part is the work, and the paragraphs below name it.

The theorems assume only what the modules name in an `ASSUME`, which TLC evaluates in every run:

* bounds are natural numbers, positive where nothing could happen otherwise (`PageSize`, `PageLimit`, `MaxContract`, `MaxVersions`,
  `MaxToolAttempt`, lease and recovery ticks, capacities);
* inputs have the shape their wire schema gives them: plans, manifests, signed reviews, evidence of a root, work lists
  in which no item occurs twice, routes and profiles as sequences; `ReverseClosure` contains its target; an ingestion
  names at least one snapshot; a delta of the graph writes each node once, and a graph query has a depth and a positive limit;
* sets whose size is counted or that are listed in order are finite (`Routes`, the seeds of a query, the nodes of a delta, `ArmProblems`, `Workers`, `Attempts`, `Subscribers`, `Standing`);
* the value that stands for a missing row or an absent process is none of the rows (`NoTool`, `NoUpload`, `NoCommand`, ...,
  `"none"` for lock holder and route), and a research that is created has a name of its own.

**DurableJobsProofs** (any number of requests, contents, daemons and generations): `TypeCorrect`,
`LeasesFence`, `OutcomesAreFinal`, `ManualJobsRunOnce`, `SettledReceiptsAgree`, `SyncCommandsApplyOnce`,
`FinishedJobsAreNotRevived` (an action property) and `ReceiptsImplementLifecycle` (the refinement). The
properties the runs check are not inductive together; `IInv` adds

* `LeaseHistory`: leases and execution receipts exist only up to the job's generation, so that a new
  generation starts clean;
* `Unclaimed`: a queued MANUAL_ONLY job was never claimed, which is what `recover_expired` has to
  preserve for `ManualOnlyRunsOnce`;
* `ProcHolds`: what a thread remembers is a generation that existed, so a stale thread is recognised by the fence;
* `Reserved` and `Resolved`: only a reserved request has a job, a synchronous step or an effect, and a job with a
  request binding is never that of a synchronous command: the two ways to settle a receipt exclude
  each other.

**ClaimGraphProofs** (any claims, edges, obligations, plans, reviewers and contract versions): `TypeCorrect`,
`EdgesJoinLiveClaims`, `GraphStaysAcyclic`, `WitnessesStand`, `ClosedClaimsHaveWitnesses`, `VerdictsRestOnReceipts`,
`ProvedRunsStand`. The two lemmas that carry the argument are

* `AcyclicGrows`: an arc whose premise cannot be reached from its conclusion keeps a graph acyclic. In a set that
  meets the part not reachable from the conclusion, the minimal claim of that part is still minimal,
  because no arc leads out of the reachable part; otherwise the set lies in the reachable part, the
  premise does not, and the new arc does not touch it.
* `SparedWitness`: if the closure of a revocation does not contain the parent of a witness it contains no
  claim of its plan. The claims of the plan that are in the closure are closed under the plan's inner edges,
  which are all in force by `WitnessStands`, and from every claim of the plan one reaches the parent
  (`WitnessLeads`, the part of `validate_closure_witness` that the invariant has to remember).

`IInv` adds `RootIsCurrent`, `RevokedIsOpen`, `AbsentIsUnverified` and `OutcomeCloses`. `RevokedIsOpen` is what makes
`ProvedStands` true: Finalize reads the verdict columns of the root, never its lifecycle, and a revoked root
keeps its verdicts; only the closure column, which the revocation sets to INVALIDATED even for atomic
claims and which nothing can set again on a claim that is not ACTIVE, keeps the run from ending as PROVED.

`OutcomesAlwaysAgree`, `NothingHappensTwice`, `GraphStaysWellFormed` and `ClosuresAlwaysStand` state for every instance the combined
properties that the runs check.

**RunExecutionProofs** (any claims, routes, attempts, hosts, versions and crashes): `VerdictsAlwaysEarned`, `AttemptsAlwaysFenced`,
and the step properties `ContractAlwaysGoverns` and `EndedNeverMoves`. `IInv` adds `RightIsBurnt` (of the hosts that are between claim
and record at most one serves an attempt, the claim row exists, and the host's `pc` says whether the provider was called),
`ClaimsStandFor` (a COMPLETED claim has its one call; authority needs a COMPLETED claim) and `RowsRefer`. A host that was
presumed dead keeps its `pc` while its claim is fused; what it later records finds a settled claim, so
`ClaimsSettleOneWay` needs no assumption on clocks. A verdict is traced back through the consumed receipt to the one call.

**KernelApplyProofs** (any processes, requests, byte strings, revisions and crashes): `CommandsAlwaysAtomic` and
`LogImplementsCommandLog`, the refinement. `Deciding` carries both: a process between decision and commit holds the lock, the
revision it decided on is the current one and its request is undecided; `AcceptedInHistory` gives the log its length. With
that every commit is one step of `CommandLog`, and every other step a stutter.

**AuthorityProofs** (any number of everything):

* `WithdrawnNeverConsumable`, `RevisionsAlwaysEarned`. Bindings show exactly the events the watermark has passed (`ShowsProcessed`), and the
  ledger is ordered by revision (`MarkFits`). For revisions, `RevisionFits` says how far each handler came (`AmenderFits`: the event is
  in the ledger before verification, everything affected is INVALIDATED before the end), and `RevisionsTakeTurns` that two
  revisions of one version are never both under way, which is what makes `resume_pending` harmless.
* `UploadsAlwaysDurable`. `SpoolHoldsAcked` relates the spool to the bytes acknowledged; `CommitKnows` what each committer may rely on at
  its step although others commit, append or abort in between; `RowEvolves` that no row goes back.
* `AnchorsAlwaysQuote`. `ReaderKnows`, `AskerKnows`: the row an extraction or a replay read is stored, or is what will be stored.
* `CallsAlwaysRunAtMostOnce`. `LoopFits`: the answered calls are a prefix of the turn, ids are new over all turns, and the
  record of a call bounds the runs of its adapter; `PhaseFits` carries this through pauses.
* `DraftsAlwaysCloseOnVerifiedClaims`. `FactsStand` is local (direct predecessors); that it gives the property for everything a claim rests on
  uses that `NecessarySubgraph` is the least closed set.
* `CompletedArmsAlwaysCount`. Every statement of `ablation.py` commits alone, so `AblatorKnows` keeps for each statement what the caller
  learnt in the one before, and `LedgerGrows` that nothing undoes it.

**ResearchPassProofs** (any processes, finite set of routes, plans, mishaps and reviews): `QueuesContinueTheRun`, the inductive invariant, and
`WorkIsNeverLost`, `CandidatesRestOnReviewedWork` from it. The properties speak of checkpoints between two steps of a pass, but the
queue is wrong in the middle of a batch: the items a process has taken are in its memory only. `Sound(plan, routes, queue, batch)` is
therefore about the queue and the batch together:

* each item fits the status its route has and the limits of the plan (`ItemOk`), an item of a tool integration standing for the work
  it interrupted (`Stands`);
* of two items of one route, or of an item of a route and one of the whole run, at most one is pending (`Conflict`);
* each route that is not at an end has an item in one of the two; the last item of a queue is never a bare tool request;
* a review may send back a route that is READY already (`Reopens`); only revisions and tool requests come before such an item, and no batch is
  in flight, so that the composition that would read the route's status is not reached before its revision.

There is one lemma for each way the code changes a queue: taking its head, putting an item in front, appending, putting back what a batch
did not reach, writing the queue anew. `Good` adds `Evidence` (machine evidence of a route at its audit is of its last
revision), `Accepted` (an accepted review is followed by the synthesis of what was reviewed and nothing else) and `Concluded`. The
saved file is `Good` with no batch because whatever is saved has put its batch back (`Preserve`).

**OperationsProofs**: `SteeringAlwaysHasOneEffect` (a plan is what its command log says), `CompletedWorkAlwaysStays`,
`ReadersAlwaysMissNothing` (what a subscriber received, followed by the page it is reading, is increasing and consists of exactly the rows of
its run up to its cursor; chunks of a log lie side by side), `OnlyTheDaemonIsEverSignalled`, `LedgerAlwaysFollowsSchema` (the ledger has the
versions 1 to n, all have run and at most the next has run without its row), `RestoredRootAlwaysOneBackup` (a bundle holds what its database
refers to; a staging directory or root is some bundle), `SchedulesAlwaysKeepOrder` (what is promoted is an initial part of the schedule, groups
are filled in its order) and `CasesAlwaysRestOnSources` (the status of a case says which rows are written, and callers find them).

`PagesAreAlwaysOneGraph` (any deltas, queries, readers and page sizes) has three parts. The graph is defined by recursion over events
and the traversal by recursion over levels: that such functions exist, and what they compute, is shown by induction up
to the number of events or the depth (`ReplayExists`, `StepsExist`). *Replay*: replaying from the kernel's graph at one event gives the
kernel's graph at a later one (`CaughtUp`), so the index is right after a catch-up from any watermark, and after a rebuild to an older
one. *Traversal*: `Sorted` lists each member of a finite set once (`SortedFits`, by induction on the size of the set); after k levels
`ordered` lists, without repetition, what is within k steps of a seed, and everything beside a node behind the frontier is listed already
(`LevelFits`): expanding the frontier alone is enough. *Pages*: `GraphInv` says that what a reader was given is the beginning, as long
as its token, of the result at its fence; a page is read only when the index stands at that fence, so the next page goes on in the same list
(`PageFits`). Boundary nodes are never among the items, because those match the filter by their route and boundaries do not.

**StoresProofs**:

* `ToolReceiptsAlwaysTrue`. `PumpsFit`: of the pumps that are inside an execution at most one serves a job, and its `pc` says whether the
  interpreter was started. Leases do not give this: a pump that lost its lease goes on. What gives it is the execution row, which is unique per
  job and reserved before the process is started.
* `OutcomesAlwaysMatchEffects`. `JobFits` relates an answer that has not been recorded yet to the effects; `Underway` says what an executor that
  has not answered may have left.
* `ShownPaperAlwaysReviewed`. `Settled` and `ImportFits`: a half-finished import keeps a review whose signer is no author, because the
  authors of a task never change and a submitted task is closed; the task may change hands.
* `ReceiptsAlwaysTellWhatWasDone`. `Fits` gives, for every point of a handler, what it has done by then. Other commands keep it because rows
  only grow (`RowGrows`) and a research without a summary is touched by its creator alone (`RowSpared`). For CONFIRM_CONTRACT it needs
  that the research has a summary by the time the kernel is asked, which the authority's fence provides. The theorem does not use
  `OneStanding`, which is there for the order of the catalogue.
* `PagesAreAlwaysTheCatalogue`. The list is sorted by the time of the last activity, and the cursor of a page is such a time. `TimesFit`: no
  two summaries have the same time and none is later than the catalogue's revision, so there is exactly one order (`OrderUnique`) and
  the rows after the time of row k are the rows from k + 1 on. `ReadSoFar`: as long as the reader's fence is the catalogue's
  revision it was given the first k rows, and its cursor is the time of row k.
* `PoolIsAlwaysAccountedFor`. `PairsFit` relates source rows and problems in both directions, row by row: it is kept by each row of an ingestion
  and so, by induction over the rows of a snapshot, by the one transaction that writes them all. `RunsFit` says what each point of a batch
  executor has done for each problem, across its death and the other batches; a run is known by its request, so a batch that is
  executed again finds the run it created.
* `CallsAlwaysRestOnLogin` (any identities, sessions, requests and commands). The capability is made from
  a second reading of the session, so the argument cannot rest on what the request saw when it arrived. The invariant adds
  `LinksAreProved` (in a session that is not shared every linked identity gave its secret there, and a session is
  never turned from shared to private) and `RequestsRemember` (the session of a request still exists, and who was
  disabled when it arrived still is, because nothing enables an identity again).

Induction over numbers is done with sets: a set of naturals that is not empty has a least member (`LeastNatural`, from the well-founded
order of the naturals), and so a set that contains 0 and with every number its successor contains all up to a bound (`InductionUpTo`).
This also gives what a recursive function of the model computes: the recursion is bounded (events, rows, levels of a traversal, members
of a finite set), and a function that satisfies its equation is built step by step.

Every invariant that a passing run checks is stated by a theorem, and so are the action properties. Only model-checked:

* liveness, `QueueDrains`, `PassesReachAGate` and the live half of `ClaimsSettleForGood` (the other half is `EndedNeverMoves`): fairness is outside
  the prover's reach.

## 6. Where documents and code disagree

Two disagreements are kept as runs (`findings` in `PROJECT.json`): the production loop never runs the recovery that the
architecture document promises of a restarted daemon (`jobs_restart_doc`), and a command may be rejected after it
had an effect (`commands_rejection_doc`).

The modules state eight more as definitions. No run lists them; TLC refutes each within seconds when it is added to the
cfg of the module's run.

| Definition | The code | The document or comment |
|---|---|---|
| `RunExecution!OneActiveRoot` | RegisterClaim refuses a second ROOT only for the same statement hash (`guard.py:1549`) and an amendment carries the old ROOT over | `docs/implementation-status.md:10` "同一运行只允许一个 ACTIVE ROOT" |
| `RunExecution!RunningServesCurrentContract` | AcquireLease does not look at the route, so a PAUSED attempt of a RETIRED route runs again (`guard.py:2297`) | `docs/spec/transitions.md:45` "contract version、statement hash、claim/route/attempt 归属一致" |
| `ClaimGraph!ClosedIsCurrent` | the CLOSURE gate never recomputes the digest of a witness (`guard.py:2084`), so an old witness closes a claim again while a new obligation is OPEN | `docs/spec/transitions.md:110` "closure 若需则 ACCEPTED 且 digest 当前" |
| `ClaimGraph!PeerVerdictIsScoped` | `_peer_promotion` does not compare the claim of a review with the one promoted (`guard.py:2209`) | the comment at `guard.py:2067` |
| `ResearchPass!NoStaleReuse` | `_save_checkpoint` stamps the revision at the end of a pass (`orchestrator.py:2957`), so a change made during the pass is never noticed | the comment at `orchestrator.py:2990`; `docs/product/product-authority.md:51` |
| `AuthorityLedger!RevokedFactHasNoConsumer` | `confirm_revoke` applies the kernel command first and recomputes the closure at the new revision, so the comparison always fails and no invalidation is recorded; a later binding moves the watermark past it | `docs/product/product-architecture.md:330-336` |
| `Maintenance!NoMigrationRunsTwice` | a database that died between a migration and its ledger row is refused only for version 1 | the docstring of `MigrationRunner` (`migrations.py`) |
| `DomainCommands!ConflictIsAnswered` | the fence is the revision of the summary, which only CREATE_RESEARCH and CONFIRM_CONTRACT write; after other kernel commands the kernel reports a conflict, `_assert_decision` raises and the receipt stays PENDING (`domain_commands.py:351`) | `docs/product/product-architecture.md:354` |

The following were met while modelling; the models follow the code.

Kernel and jobs:

* `docs/spec/transitions.md:81` describes the run after AmendContract as PAUSED; the projector sets OPEN.
* The comment at `host_execution.py:249-250` says that drift during the call "leaves no receipt"; the code records a
  receipt without authority.
* `docs/spec/api.md:125` announces that orphaned CAS files are collected after 24 hours; `scan_orphans` lists them and
  nothing deletes them.
* `docs/product/product-architecture.md:331` says an invalidated queue item is not migrated silently; `recover_expired`
  (`jobs.py:593`) returns it to the queue when its worker's lease lapses.
* A queued job that is cancelled leaves its receipt PENDING for ever. A tripped fuse is never cleared.
* The QUALITY axis of PromoteClaim can never be accepted: the same ids must be evidence rows and quality reviews.
* `docs/spec/transitions.md:115` limits a refund to the reservation minus the actual cost; RecordBudget compares it with
  the reservations and earlier refunds only.
* Finalize with PREVIOUSLY_KNOWN or ROUTE_LOCAL does not read the lifecycle of the claims it names.
* Consuming a checker receipt lowers the semantic axis from HUMAN_ATTESTED to TESTED.

Orchestrator and controller:

* A single preserved FALSIFY item with its answer is executed again on resumption. A review of a PAUSED checkpoint
  reaches the kernel and is dropped by the orchestrator. A pause given during a pass is overwritten by the pass's save.
  The usage of a pass that died is lost.
* A second `pause()` of the controller while PAUSED stores PAUSED as the state to return to, so `resume` never leaves it.

Product layer:

* *Uploads*: a commit binds to an artifact that already has the declared digest without comparing bytes; an upload whose bytes
  do not match stays COMMITTING until it is aborted.
* *Tool runs*: a cancelled execution stages CANCELLED while the port reports FAILED, so its receipt is never recorded
  (`managed_python.py:373`); a rerun can never be executed, because an execution is unique per job; executions that died in
  STARTING are never abandoned.
* *Papers*: signer and submitter of a review may differ; a kernel rejection after the import leaves the task SUBMITTED.
* *Problem pool*: a snapshot that passed the check can add candidates to a pool frozen meanwhile (`problem_pool.py:178`); two
  batches can each create a run for one candidate.
* *Contracts*: an object that depends on two changed fields is listed twice, the ledger refuses it and the version stays
  PENDING_INVALIDATION, and `resume_pending` then blocks the others; a reference can be added to a version confirmed meanwhile.
* *Authority*: `effective_state` ignores the watermark; a replacement can restore a withdrawn object; a dependency registered after a
  preview is missed.
* *Materials*: a crash between the two transactions leaves a SUCCEEDED extraction without anchors; a snapshot may bind an
  attempt that is no longer current.
* *Claims*: `record_evidence` reads the plan before its transaction, so a REJECTED or imported plan can regress;
  IMPORT_VERIFICATION never consults the plan, so one backend is enough there; a claim decided by the handler makes
  `consume_kernel_verdict` raise for ever.
* *Commands*: the `total` of a later page counts only the rest; `submit_guidance` writes one transaction per route.
* *Executors*: an UNKNOWN receipt is never settled; a query rejected for a missing profile keeps the snapshots already taken.
* *Ablation*: a crash between two statements leaves an arm RUNNING with PENDING assignments; completing a group of a plan that is
  not frozen counts zero rows.
* *Steering*: the route deriver does not check the fence; guidance for a route that is not active stays QUEUED.
* *Activity*: an attempt can stay RUNNING after its worker ended; a subscription that fails with an unlisted exception keeps its place.
* *Maintenance*: a restore that died after the rename fails when repeated although the root is complete; an archive without
  the content store restores and reports SUCCEEDED; an upgrade repeated after a FAILED row migrates and cannot record it.
* *Placement*: capacity is counted per plan; items of a dead executor stay RUNNING and those of a dead promoter CLAIMED; a plan
  is never COMPLETED.
* *Cases*: `MaterialStore.ingest` compares `created_at`, so a repeated migration with a later clock conflicts for ever.
* *Graph index*: `catch_up` accepts any target revision that is not behind; a rebuild may move the index backwards.

Parts that are complete in the source but that production does not wire up are modelled as their tests use them:
`ResearchController`, `GuidedWorkDeriver`, the verifier planner and the obligation adapter, placement, most of `ablation.py`,
`assert_consumable` and `recover_with_replacement`, tool `rerun` and `reconcile`, `homepage`.

## 7. Abstractions and what is not modelled

* Statements, artifacts, signatures and digests are inputs. Guards that compare two inputs of the same command
  with each other are left out; guards that compare an input with stored state are kept.
* Time is a countdown per lease or claim, or an action that lets it pass; clocks of different processes are taken to agree.
* Budget amounts are one nondeterministic outcome (a record overruns its limit or not); the fuse is kept.
* The digests compared for environment drift are one nondeterministic outcome of the recorded result.
* Rejected kernel commands appear in `KernelApply` only; a rejected product command is an action of `DomainCommands`.
* `MaxGen`, `MaxCkpt`, `MaxVersion`, `MaxVersions`, `MaxRevision`, `MaxKernelRevision`, `MaxCrashes`, `MaxMishaps`, `MaxReviews`,
  `MaxEvents`, `MaxActivity`, `MaxClaims`, `MaxFence`, `MaxPlanCommands`, `MaxTurns`, `MaxCalls`, `MaxContract` and `MaxToolAttempt` bound
  counters; each is a conjunct of the guard of the action that counts.
* Cut reasons, bridges and the six-part form of obligations are abstracted to the kind of support they ask for.
* Operations that append a record nothing reads (hints, quality reviews, public activity) are left out, and so is the
  registration of identities, catalogue entries and profiles, which happens before the system starts.
* The product's components are checked one at a time. They meet in the kernel's revision, which each module has as an input
  or a variable of its own; only `ContractRevision` and `AuthorityLedger` share more than that and are composed.

Not modelled because they keep no state of their own: ingest policy, wire schemas, capability checks, scheduler, fact
graph views, prompts and roles, dossier, paper, reports, read-only queries, the SDKs and the front end. Not modelled because they are
external I/O: adapters, connectors, CLI parsing. Not modelled because only their order matters, which `Maintenance` has: what the
migration scripts do.

## 8. Plan

1. `DurableJobs`, `ReceiptLifecycle`, their runs and proofs. *Done.*
2. `RunExecution` with hosts; `KernelApply`, `CommandLog`; `ClaimGraph` with its proofs. *Done.*
3. `ResearchPass` and the product's components, one module per store. *Done.*
4. `RunBudget`: amounts of RecordBudget, RequestExpansion, component usage and host accounting. Property: actual cost
   stays within the limit or the fuse is tripped; a usage report is charged once.
5. Compositions: `DomainCommands` with `DurableJobs` for commands that enqueue jobs; `AuthorityLedger` with `DurableJobs` for the queue
   and checkpoint targets of an invalidation.
6. Proofs of every safety property of sections 2 and 3. *Done.*
