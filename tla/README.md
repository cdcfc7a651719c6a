# A TLA+ model of Darkbloom

Darkbloom sells inference on other people's Macs. Consumers call the
coordinator (Go, `src/coordinator`) over HTTPS. Providers hold a WebSocket to
it, receive encrypted requests and stream the answers back. The coordinator
decides who serves, who pays and who is trusted, and keeps that in
mutex-protected maps, channels and database rows that many goroutines change at
once. The provider (Rust, `src/provider`) is a long-running process on a machine
its owner also uses: it connects, loads engines, answers challenges, updates
itself and shares its files with commands typed by hand.

This directory models both, model-checks the models on small instances with TLC,
and proves the most important properties for every instance with TLAPS.
`PROJECT.json` lists the parts of the system, the source lines behind every
definition, the hazards each property is aimed at, and for every property a
mutation of the model that it detects.

## How to read the modules

A step is one critical section, one store call, one call of an outside service,
one channel operation or one change of a file: whatever the code does between
two of them may interleave with everything else. Definitions keep the source's
names. Data is reduced to what the properties tell apart; control is kept.
Where the code hands a verdict of cryptography or of the operating system on, the
model takes the verdict as a choice.

A property, its comment and the code it is about stand at the end of the module
of its component. Definitions whose comment begins with "Mutant" or describes a
store that forgets something are not part of any specification: they are the
deliberate errors that show that a property can fail.

### Coordinator

| Module | Code | State and steps |
|---|---|---|
| `Ledger`, `LedgerStore` | `store/memory.go` | Balances, the withdrawable part, and the audit rows. `Credit`, `CreditWithdrawable`, `Debit`, `DebitWithdrawable` are atomic under the store's mutex; `LedgerStore` lets any of them happen at any time and prunes old rows. `Withdrawals` and `Settlement` extend `Ledger`. |
| `Withdrawals` | `api/stripe_payouts.go` | `handleStripeWithdraw` from the debit on, as nine steps, and the webhook handlers `handlePayoutTerminal` and `handleTransferFailed`. Both read a row, change their copy and write it back whole. Stripe is external: it pays, fails or reverses, and delivers every event at least once. Store calls fail, answers are lost, the coordinator restarts. |
| `Credits` | `api/billing_handlers.go`, `billing/referral.go`, `api/invite_handlers.go` | Checkout sessions and their webhook, referral codes, invite codes. A request makes its store calls one by one. |
| `Dispatch` | `registry/scheduler.go`, `queue.go`, `registry.go`, `api/consumer.go` | Handlers that reserve or wait, the queue with its stale entries, the drain as it runs in any goroutine that frees capacity, heartbeats, challenges and disconnects. The cost model is abstracted: any admissible provider may win. |
| `Settlement` | `api/consumer.go`, `api/provider.go`, `payments/`, `billing/referral.go` | One request: reservation, up to `MaxAttempts` attempts, the selects before and after the handler commits to a provider, and on the other side `handleChunk`, `handleComplete` with each ledger call a step, `handleInferenceError` and `Disconnect`. Amounts are micro-USD with the code's integer divisions. |
| `Registry` | `registry/registry.go`, `api/provider.go` | Connections that register, drop duplicates of their machine, send heartbeats, are distrusted and evicted; the counters kept beside the map. A connection may send a further register message, which replaces its entry. |
| `Trust` | `registry/registry.go` | The fields of a provider that decide whether it gets work, and the calls that change them, as functions. |
| `Challenge` | `api/provider.go` | The life of one connection: attestation, restored state, the challenge loop with its tracker, slow and late answers, the check with device management, the next connection. The connection registers once. |
| `ProviderStore` | `registry/registry.go`, `api/provider.go` | The providers table: snapshots written by a goroutine per change, in any order; the rows read once at startup and restored onto later connections. |

### Provider

| Module | Code | State and steps |
|---|---|---|
| `EngineHost` | `inference.rs` | Engine threads with unbounded command queues, the Python object they share, and the bounded token channels. |
| `Agent` | `coordinator.rs`, `main.rs` | The WebSocket client with its reconnects, the event loop of `cmd_serve`, the inference tasks, the schedule loop and the idle shutdown, joined by bounded channels on which every send waits for room. |
| `AnswerStream` | `api/provider.go`, `api/consumer.go` | What the coordinator relies on about the messages of one request. `Agent` is shown to implement it. |
| `Updater` | `main.rs` | `cmd_update` and the automatic updater: backup, replacement, verification, launchd plist, restore. |
| `Lifecycle` | `main.rs`, `service.rs` | Provider processes, the pid file, launchd, and the commands that act on them. |
| `Startup` | `main.rs`, `coordinator.rs`, `security.rs` | The startup up to the register message, what it claims, and the answers to challenges. |
| `Runtime` | `main.rs` | The Python runtime: verification, download, replacement, smoke test, rollback and self-healing. |
| `Download`, `Templates`, `Picker` | `main.rs`, `models.rs` | The transfer of a model, the chat templates, and the choice of models under the memory budget. |
| `Telemetry` | `telemetry/` | The queue in memory, the worker, the overflow file that threads rewrite without a lock. |
| `Schedule` | `scheduling.rs`, `main.rs` | Windows, the two durations and the loop that follows them; the clock moves between two reads of it. |
| `Setup` | `main.rs`, `config.rs`, `wallet.rs` | The commands that write and remove configuration, wallet and keys, killed between any two steps. |
| `DeviceLink` | `main.rs`, `api/device_auth.go` | `login` and `logout` with the coordinator's device-code endpoints and the person who approves; the token file may be written in part or not at all. |
| `Weights` | `models.rs`, `main.rs`, `coordinator.rs`, `api/provider.go` | The hash a challenge reports, the model a heartbeat names, and the catalog they are compared with. |

### How they fit

`Dispatch` explains which slot a request holds while it is queued or running.
`Settlement` takes over once an attempt is routed, and allows what `Dispatch`
shows (a slot left behind by a waiter that gave up). `Registry` explains when
`Disconnect` and `MarkUntrusted` happen, which the other two allow at any time,
and `Challenge` and `ProviderStore` say what trust is worth. `Agent` is the other
end of the connection: `AnswerStream` is the interface between it and
`Settlement`, whose provider may do more than `AnswerStream` allows, so that
nothing proved of the coordinator rests on a well-behaved provider.

The modules `MC...` join components that one run follows and give
function-valued constants their values. Components that share no state are
followed one at a time within a run, by a variable that says which: the states of
a run are the sum of theirs and not the product.

## Runs that pass

| Run | Properties | Question |
|---|---|---|
| `money` | `WithdrawableBacked`, `AuditTrail` | Is the withdrawable part always covered, and is each account's audit trail a chain ending in its balance, also after pruning? |
| | `RefundsTruthful` | Does a transfer leave only when debited, is `Refunded` truthful, has each refund a cause? |
| | `CreditedOnce`, `ReferralsAreFinal` | Is a checkout credited once although its webhook repeats, does an invite code pay within its uses, do codes keep their owners and accounts their referrer? |
| | `MoneyArrives` | Is a failed payout refunded and a paid checkout credited in the end? |
| `dispatch` | `QueueExact`, `WithinCapacity` | Is every waiter in exactly one place where a drain finds it, and is no provider given a request beyond `maxConcurrency`? |
| `dispatch_two` | `SlotsAreRight` | Does a request hold one slot only, and is an announced provider really reserved? |
| `dispatch_live` | `InFlightOnly`, `Served` | With patient clients: do only requests in flight hold slots, and are waiting requests answered? |
| `settlement` | `OwnedByOne`, `BilledBeforeAnswered` | Does taking a request out of the pending map give sole ownership, and is a complete answer never half billed? |
| | `MoneyConserved`, `Answered` | Is no money made or lost by a settlement that nothing interrupts, and is every client answered? |
| `registry` | `CountsExact`, `OnePerMachine`, `UntrustedIsFinal` | Do the counters agree with the map and the entries that were replaced in it, does a machine keep one provider at most, is untrusted final until the connection registers anew? |
| | `ChallengesAreSound`, `TrustIsEarned`, `RegistryProgress` | Does work go only where the last challenge was passed, was restored trust earned, do dead and silent providers leave? |
| `serve` | `InFlightIsTracked`, `CompleteIsWhole` | Is the tracker of requests exact and a busy provider never reported idle, and is an answer that completes whole? |
| | `KeepsPromise`, `AgentProgress` | Do the messages of a request implement `AnswerStream`, is every request answered to the end and do idle models leave the memory, unless the client and the event loop wait for each other? |
| `machine` | `OneObedientInstance` | Does one provider run, with the settings its user chose? |
| | `ClaimsAreTrue` | Is what the provider claims at registration so, are its answers to challenges fresh, and does the signature cover them? |
| | `PackagesKept`, `DownloadsAreWhole`, `TemplatesAreRight` | Do repairs, transfers and templates that fail or are killed anywhere leave something whole, or the old one? |
| | `PickerIsRight` | Does the picker show what is chosen and choose what fits? |
| | `UpdatesAreSafe`, `MachineProgress` | Does an update that fails anywhere leave a verified release, not older unless the user forced it, and do commands, repairs and downloads end? |
| `local` | `EventsAreKept`, `ScheduleIsKept` | Is every telemetry event accounted for, and are windows served to their end and nothing else, but for a boundary between two reads and the hour without a start? |
| | `SetupKeepsChoices`, `LinkIsApproved`, `LocalProgress` | Do setup commands keep address and choices, is a machine linked only to the account that approved it, do events, windows and logins come to their end? |

### Bounds, and why they are enough

The hazards are races of two or three parties over one object, and failures at
one or two points of a sequence. Two deliveries, two attempts, two registrations
or two drains, and a third request where the queue has to be full while another
waits outside, are enough for each of the races; the disagreements below need no
more. One withdrawal and one checkout suffice because rows of different ones
share only the ledger, which is checked and proved by itself.

- `money`: 2 accounts with amounts 1 and 2 and 3 audit rows; 1 withdrawal, 2
  webhook requests at once, 2 duplicates, 2 failing store calls, 1 lost answer, 1
  restart; 1 checkout, 3 users, 2 referral codes, 1 invite code with 2 uses, 2
  requests at once.
- `dispatch*`: 3 requests on 1 provider and a queue of 2, with a limit of 2 that a
  heartbeat lowers to 1, where two of the clients may give up; 2 requests on 2
  providers with overlapping models; 2 patient requests with 1 sound and 1 flaky
  provider.
- `settlement`: 2 attempts, costs below and above the reservation, 1 failing
  store call, both handlers, with and without timers and cancellations.
- `registry`: 2 connections of 1 machine with overlapping models, one of which
  registers twice and is the one whose progress is followed; 1 connection
  with 2 allowed failures and 1 late answer; 2 connections, 2 snapshots and 1
  restart for the table.
- `serve`: 2 requests, 1 model, 3 engines in turn, answers of 2 tokens, and every
  channel of size 1, so that the circle in which client and event loop wait for
  each other is reached; `AgentProgress` names it.
- `machine`: 2 updates with 2 faults, 3 processes and 3 commands, 2 self-healing
  threads with 2 faults, files of 2 chunks with 3 retries, 3 catalog models with 3
  memory sizes.
- `local`: 4 events, days of 24 units with at most 1 unit between two reads of the
  clock, 3 setup commands, 2 machines and 2 accounts, 2 models.

`SYMMETRY` is used in `dispatch` alone, where the requests that may give up are
interchangeable and only safety is checked. Deadlock is checked in `money`, `settlement` and
`registry`, whose specifications end in a quiet state that may stutter. It is
not checked in the dispatch runs, where handlers end and providers may all leave,
nor in the runs of the provider, where processes end.

### Fairness, and why the code justifies it

- Goroutines, threads and tasks that can run do: weak fairness per handler,
  drain, webhook request, read loop, challenge loop, engine thread, process,
  command and worker, and for tickers (eviction, idle, telemetry, the clock).
- Stripe delivers an event until it is acknowledged. The bound on requests served
  at a time is the model's, so a delivery is strongly fair against it.
- A sound provider sends heartbeats and answers challenges. A provider that got
  a request ends it or is dropped, which the eviction loop guarantees (strong
  fairness, since other messages may come between).
- A login gives up at its deadline (strong fairness: polls come between).

Nothing obliges a client to stay, a payout to settle, a machine to connect, a
transfer to succeed or a person to approve.

## Runs that find a disagreement

Each states a comment of the code, and TLC shows an interleaving that breaks it.

| Run | Property | What happens |
|---|---|---|
| `withdrawals_replay` | `SingleRefund` | Two overlapping deliveries of `payout.failed` both refund (`stripe_payouts.go:558`). |
| `settlement_unreturned` | `ReservationReturned` | A provider error after the commit leaves the reservation with nobody (`consumer.go:1241`). |
| `weights_active` | `HashOfActiveModel` | Loading a second model replaces the hash that challenges report, while heartbeats go on naming the first (`main.rs:3505`). |

The models contain further orders of events that a maintainer will want to know
of and that no run is kept for. Where a definition states the promise that is
not kept, it is named.

Coordinator:

- A waiter that gives up while a drain assigns it a provider leaves the slot
  taken (`consumer.go:711`). `InFlightOnly` therefore holds for patient clients.
- A failed response may end on a closed channel like a complete one
  (`consumer.go:1201`; `ClosedMeansComplete` of `Settlement`).
- The first-chunk timer may fire while the attempt is being billed, and the
  retry is billed too; a client that leaves at that point gets the whole
  reservation back (`consumer.go:874`, `consumer.go:899`). `MoneyConserved` is
  stated for requests that neither happens to. A request without a reservation
  whose charge fails is paid out all the same (`Unpaid`).
- `handleChunk` may send into a channel that the eviction loop's `Disconnect` has
  closed, which panics (`provider.go:924`).
- The withdraw handler may write its older copy over a row that a webhook marked
  failed (`stripe_payouts.go:403`). A refund that failed is acknowledged to
  Stripe and not retried (`stripe_payouts.go:501`, against the comment at 555).
  A transfer whose answer was lost is refunded although the money left
  (`stripe_payouts.go:351`); `RefundHasCause` names the exception.
- A checkout is credited twice when its session row could not be saved, read or
  marked, when deliveries overlap, or after a crash between the credit and the
  mark (`billing_handlers.go:158`); `DepositedOnce` names them in `excused`. A
  credit that fails after the redemption spends the invite code.
- `RequeueFront` may grow a queue past `maxSize` (`queue.go:228`).
- `evictStale` drops a provider that was heard of after the scan
  (`registry.go:1835`); its WebSocket stays open and its heartbeats are ignored.
  Two overlapping registrations of a machine may each drop the other
  (`registry.go:928`). A second register message on a connection replaces its
  entry, trust included, without counting the first out; `CountsExact` says by
  how much the counters are then too high.
- `RestoreProviderState` runs after the fresh attestation and brings back the
  startup snapshot (`registry.go:446`): trust may fall, a fresh verification time
  is overwritten, and restored failures count towards `MaxFailedChallenges`.
  `LoadStoredProviders` keeps the oldest record of a machine. Snapshots may be
  written out of order, so that an older state is restored, and "untrusted" is not persisted.
- A provider is not routable before its first challenge, although
  `provider.go:1304` calls it immediately routable. A timeout of the device
  management server distrusts a sound provider. A manifest that is replaced during
  `verifyChallengeResponse` may be re-verified against the old one.

Provider:

- The event loop waits for room in the outbound channel, which only the client
  empties, while the client waits for room in the event channel: once both are
  full they wait for each other, and with them the tasks and the engines
  (`coordinator.rs:354`; `Circle` and `ClientAlive` of `Agent`).
- `cancel` does not stop the generation (`main.rs:3360`); error paths leave
  `inference_active` set (`coordinator.rs:84`); a request that cannot be decrypted
  is dropped silently; messages queued for an old connection are sent on the new
  one; an engine may be reported loaded that is not ready (`inference.rs:839`,
  `LoadedIsReady`).
- The end of a window unloads the engines and keeps the connection, although
  `scheduling.rs:4` says that the provider disconnects. After the hour the loop
  waits when it finds no start, and when a window opens or closes between two
  reads of the clock, it serves for a day whatever the windows say
  (`main.rs:3858`; `serve_a_day` of `Schedule`).
- The challenge reports the hash of the binary on disk, and may hash a runtime
  tree that is being replaced. `dangerous_modules_blocked` is claimed although
  nothing installs the block (`coordinator.rs:320`). An advertised model may not
  be servable (`main.rs:2823`, `AdvertisedServable`).
- A bundle without a wrapper installed after one with an app links to the old app
  (excluded by the catalogs of the run); two updaters at once are not excluded;
  an unpacking error returns without restoring; the enclave helper is not always
  restored (`main.rs:6916`, `HelperRestored`); an update need not lead to serving
  again (`main.rs:3015`, `UpdateLeadsToServing`). `cmd_update --force` may install
  an older release.
- `cmd_install` prints that KeepAlive is on, the plist says it is not
  (`main.rs:2201`). Two processes may survive when commands
  race (`main.rs:2241`; the run is `Calm`).
- A crash between the two renames of a runtime swap loses the backup at the next
  start (`main.rs:1265`); a failed put-back leaves the packages in the backup
  directory, and a pip that fails after its removal of `vllm_mlx` leaves none that
  import; an interpreter with the right hash that hangs is not
  healed.
- A file that was torn by a kill may count as downloaded (`main.rs:5914`,
  `DownloadedIsComplete`), and a clean retry may still fail (`main.rs:287`,
  `CleanRunSucceeds`). A torn `chat_template.jinja` is trusted later. The weight
  hash is computed before the template is added (`main.rs:2733`): an honest
  provider whose snapshot got a template before its next start, whose snapshot was
  updated, or that loaded a second model reports a hash that is not the catalog's
  for the model it names, and is distrusted (`provider.go:742`).
- A torn `provider.toml` keeps `serve` from starting, a torn wallet registers
  without an address. `unenroll` removes more and less than its prompt says
  (`main.rs:4580`). Every poll of an approved device code issues a new token;
  `logout` revokes none. A token file torn by a kill counts as logged in until
  `logout` (`main.rs:7040`).
- The picker does not test its preselection against the budget (`main.rs:5660`);
  `models remove` takes `0` for the first model. A default model that was declined
  is started all the same.
- Telemetry threads share one temporary file; events drained from the disk are
  lost when the process dies before they are sent.

## Proofs

TLC checks the instances above; the theorems hold for every value of the
constants that the named `ASSUME`s allow: sets of any size, any amounts, limits
and numbers of faults. The assumptions say what the types and the calls of the
code say: limits are natural numbers, the functions that describe an instance
have their domains, and a value that stands for "nothing" is not a member.
Beyond that, the connections (`RegistryAssumption`) and the threads that emit
telemetry (`TelemetryAssumption`) are finitely many, a shard is named once
(`DownloadAssumption`: the list is built with `contains`), the plist was written
by `darkbloom start` (`UpdaterAssumption`), and `max_uses` is positive.

Three theorems have a hypothesis, a constant condition that the code needs:
`SlotsAreInFlight` (`Steady`: no waiter gives up, no encryption fails),
`OneInstanceObeys` (`Calm`: commands and startups follow each other) and
`RollbackRestores` (`WrapperStays`: no bundle without the app wrapper follows
one with it). The runs that check their properties satisfy them; the list under
"Runs that find a disagreement" says what happens without.

### The argument of each

**`MoneyProofs`** (`Ledger`, `Withdrawals`). `LedgerInv` joins the type
invariant, `WithdrawableBacked` and `AuditTrail`; they are inductive together.
The work is in the chain: appending a row with the account's new balance extends
it, dropping a prefix keeps it. One lemma per store call gives `LedgerCorrect`
and `BalancesBacked`, and lets `WithdrawalsAreBacked` follow for every caller
that goes through whole calls. `RefundsAreTruthful` and `TransferIDsStay` need
`WithdrawalInv`: what the place of the handler says of ledger, row and Stripe
(debit, then row, then transfer, then payout), that a copy of a row a handler or
a webhook request works on is as truthful as the row and knows the transfer if
the row does, and that what Stripe announces has happened.

**`CreditsProofs`** (`Credits`). `CreditsGivenOnce` and `ReferralsSettle` rest
on `CreditsInv`, which is about what requests in progress have read. A session
that no failure excuses is handled by one delivery at a time: while that may
still credit there is no deposit, and a deposit of a session not yet marked
belongs to a delivery about to mark it. The uses of an invite are its
redemptions on record, and one not yet credited belongs to one request. A
referrer about to be recorded owns the code and is somebody else; owners are set
once, so this outlives the look-up.

**`RegistryProofs`** (`Registry`, `Challenge`, `ProviderStore`, `Telemetry`).
`OnePerMachine` is not inductive. The invariant adds that a connection which has
not registered is not in the map, that a list of duplicates is empty outside
`DisconnectDuplicatesBySerial`, and that of two registered connections of a
machine that are both past their listing one still has the other on its list.
The counters are exact because each place that counts a provider out tests first
that it is still counted; an entry replaced by a further register message is
never counted out, and is remembered in `replaced`. For `ChallengesHold` the invariant adds that the
posture a pass proved stands only while the last verdict was a pass, and that
the channel of a challenge holds an answer to that challenge only. For
`TrustHolds` hardware trust is vouched for wherever it is kept: on a connection,
in a snapshot under way, in a row of the table. The module also holds the proof
for `Telemetry`, whose bound counts a set as the registry's counters do.
`TelemetryKept`: an event is in one of the places that `NothingVanishes` lists
at every step of every thread, and the file, or what is about to replace it, has
room for a line of each thread between its check and its append.

**`SettlementProofs`** (`Settlement`). `OwnedByOne` is not inductive: a request
being settled could be put back into the pending map, were its attempt not new.
`Ownership` adds that attempts the handler has not routed yet are untouched and
that a pending request is open and unsettled. `MoneyIsConserved` adds, for
requests that no timer and no client interrupts, that one attempt at most is
ever billed, and counts what an attempt that is being billed has still to hand
out (`Balanced`), or has paid out for a charge that failed (`Unpaid`); the integer divisions of the split are treated once, in
`Shares`.

**`DispatchProofs`** (`Dispatch`). `CapacityHolds` is about the step, since
a heartbeat may lower the limit below what is pending: every slot is taken after
a test of the limit in the same critical section.
`QueueIsExact`, `SlotsHold` and `SlotsAreInFlight` share one invariant: the
shape of a drain at each of its steps, the places a request may be in (its
queue, the hands of one drain, its response channel), and whose slot it holds
(the answer, the handler or a drain knows of it, or it was lost with a waiter
that gave up). `SlotsAreInFlight` assumes that no waiter gives up and no
encryption fails (`Steady`), since the code leaks a slot otherwise.

**`AgentProofs`** (`Agent`). For `RequestsAreTracked` a request is one thing at
a time: an event, in the hands of the event loop, or one task; a report of an
end is of a task that has ended, and a cancellation of a request the coordinator
cancelled. `AnswersKeepOrder` shows that the provider implements `AnswerStream`
(`heard` for `said`): every step is a message appended in the promised order, or
a stutter. The invariant extends the order from what was heard into the outbound
channel: each message follows the nearest one of its request ahead of it, and
the place a request has reached tells the last message it sent. Only requests of
the current connection are concerned; a reconnect forgets the others.

**`LocalProofs`** (`Schedule`, `Setup`, `DeviceLink`). For `ScheduleFollowed`
the invariant says what is left of a sleep at every moment of it: no window
opens before it is over (`SleepsShort`), one opens just then (`SleepsToAStart`),
a window that is served closes just then (`ServesToTheEnd`), and two reads of the
clock in a row find the same unless a boundary lies between them (`ReadsAgree`).
The exceptions are the boundary and the hour without a start. The arithmetic
modulo a week is done for any length of the day. `SetupIsSafe`: the address
registered is that of the wallet file, files are written only where there are
none, and only the first download can be a default, for which there is room.
`LinksAreApproved`: an account is on a code only once it is approved, a token is
handed out for an approved code of the host that asks, and what is under way to
the host, or whole in its token file, is such a token.

**`MachineProofs`** (`Lifecycle`, `Startup`, `Runtime`, `Download`, `Templates`,
`Updater`). `OneInstanceObeys`: with one command or startup at a time, an
instance is named by the pid file or is the job of launchd, so the next one
finds it. `ClaimsStayTrue`: each protection is in force from its stage on and
the register message comes last (the blocked modules are excepted); what is
hashed was on disk since the challenge came, or is a mixture of two such states;
the signed text determines every field of the status. `UpdatesKeepPackages`: one thread at a time touches the packages, and
what the call found is in place, or in the backup directory where putting it back
failed, until the new ones pass. `DownloadsStayWhole`:
what the server sends next is what the file lacks next, and the files before the
current one are whole. `TemplatesEndRight`: what each stage of a start knows of
the cache and of the template on disk. `RollbackRestores`: the copy of the main
binary is what the attempt found until it is put back, no link leads from
another file to it, and the app is the release being installed.


### Only model-checked

- Liveness (`MoneyArrives`, `Served`, `Answered`, `RegistryProgress`,
  `AgentProgress`, `MachineProgress`, `LocalProgress`): fairness and ENABLED are
  outside the prover.
- `PickerIsRight` and `ArgsKept` (a part of `UpdatesAreSafe`): what a sum over a
  set, a sorted sequence or a recursive conversion computes for every input takes
  induction over data, which the prover cannot do.
- `NeverOlder` (the other part of `UpdatesAreSafe` without a theorem): it depends
  on how the bundles are laid out, since a file that a failed rename left behind
  stays where its bundle had it, and it excepts a release the user forced; in the run the Rust bundles all have their files
  at the top.
- `CompleteIsWhole`: it counts chunks across the engine, two channels and the
  coordinator; the proof of the order does not count.
- `Weights`: it has no promise that holds beyond single steps; the run
  `weights_active` shows the one that does not.
- Everything about the engines (`EngineHost`) but what the tasks make of their
  answers.

## What is not modelled

- Cryptography and attestation (`attestation/`, `mdm/`, sender encryption, the
  enclave helper): their verdicts are choices in `Challenge`, `Registry` and
  `Startup`.
- Reputation: a floating-point score, recomputed at every event; the cost function
  that ranks admissible providers.
- Rate limiter, accounts, releases, metrics, analytics: single locked calls, or
  state that nothing reads back.
- The SQL of the Postgres store: it is represented by its contract as the
  in-memory store implements it.
- The hypervisor's memory pool: `cmd_serve` creates it once, from one thread, and
  nothing takes a buffer from it or destroys it.
- Commands of the provider that only print (`doctor`, `status`, `logs`,
  `earnings`, `benchmark`).
- Code of the provider that no command of this build reaches: the path over
  subprocess backends, the local proxy and server, the persistent key functions,
  the tracing layer of telemetry.
- The Swift provider, the successor of the Rust one: same protocol, with a batching
  that depends on the timing of a library. The console, the scripts and the
  deployment.

## Abstractions worth knowing

- `DisconnectDuplicatesBySerial` reads `AttestationResult` without the
  provider's mutex. The registry's read lock is an atomic counter in the build,
  so a registration that takes it later sees the result written by one that took
  it earlier; the model reads the current value.
- A provider that reconnects is a new connection with a new id.
- A restart of the coordinator is modelled where state survives it
  (`Withdrawals`, `Credits`, `ProviderStore`); elsewhere the state is in memory
  and a restart is a new beginning.
- A file is what it holds, or torn. A kill may fall between any two steps of a
  command and tears the file being written.
- Time is a step of the environment wherever a deadline matters.
