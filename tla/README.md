# Formal models of go-common's concurrency core

This directory holds TLA+ models of the parts of `minisource/go-common` that
have real control. The rest of the library is adapters over frameworks, and
this directory leaves it out. It contains the modules, the TLC configurations
that check them on small instances, and TLAPS proofs of the safety
properties the passing runs check (all but `BackoffSchedule`, see "Only
model-checked") and of three refinements: the retry engine implements an
abstract call, the in-memory cache implements an abstract map whose entries
expire exactly at their deadline, and the shutdown manager implements an
abstract shutdown sequence. `PROJECT.json` lists every component, run,
mutant, mapped definition, finding and hazard. It gives each mapped
definition the source lines it translates.

## The system

| Part | Source | State and operations | Interacts with |
|---|---|---|---|
| RPC retry engine | `src/grpcclient/client.go` | per call: `attempt`, `lastErr`; loop of invoke, classify, wait (select on `ctx.Done()` / `time.After`) | the invoker (network), the caller's context |
| Backoff policy | same file: `calculateBackoff`, `pow`, `DefaultRetryConfig`, `NewClient` | the immutable `RetryConfig` | read by every call |
| Per-IP rate limiter | `src/limiter/ip_limiter.go`, `src/unnamed/part_014` (OTP middleware) | `ips` map of bucket plus `lastSeen`; `stopped`; cleanup goroutine; `GetLimiter`, `AddIP`, `cleanup`, `Stop`, `Clear` | every request handler; `x/time/rate` buckets |
| HTTP token validation path | `src/http/middleware/service_auth_remote.go` | process-wide `remoteTokenCache` (RWMutex map token → result plus `expiresAt`); middleware handler; `get`, `set` with sweep, `InvalidateToken`, `ClearTokenCache` | every request handler; the remote validator |
| RPC token interceptor | `src/grpc/auth_interceptor.go` | its own process-wide cache, same design; per-method scopes | gRPC handlers; the validator |
| In-memory cache | `src/cache/memory.go` | map with expiry, janitor goroutine, `Close` | callers |
| Shutdown manager | `src/shutdown/shutdown.go` | `started`, hooks, `done` channel; `Start` returns a trigger; a signal goroutine | OS signals, registered hooks |
| Health service | `src/health/health.go` | `checkers` under an RWMutex; `CheckReadiness` copies them, one goroutine per checker, `wg.Wait` | probes; databases and custom checks |
| Not modelled | logging, responses, i18n, tracing, metrics, ORM, migrations, Redis wrappers, JWT middleware, pagination and phone helpers | no shared state, or one external call per operation | — |

The hard behaviours:
- **Retry engine.** A cancellation can race the backoff timer. The last attempt decides between two errors. A policy's zero value is taken as "unset".
- **Limiter.** Handlers interleave across two lock sections in `GetLimiter`. The sweep goroutine competes with them. `Stop` may be called twice.
- **Token path.** Concurrent misses, a validation in flight while the cache is invalidated, an expiry instant, the size-triggered sweep, and a validator that never answers.

## Modules

### `RetryEngine` (one logical call through `createRetryInterceptor`)

**Variables.** `attempt`, `pc` (`invoke` / `wait` / `done`), `lastErr`, `result` and `ctxErr` are the code's own state. The auxiliary variables are:
- `history`: the codes the invoker returned;
- `afterCancel`: attempts started on a dead context;
- `waitFromDone`: the current select began with `ctx` already done;
- `waited`: the delays waited.

**Actions.**
- `Attempt` is one call of the invoker. Its four branches are `Succeed`, `NotRetryable`, `RetryLater` and `Exhausted`, the three exits of the loop body and the loop's exit.
- `TimerFires` and `CtxDone` are the two cases of the select.
- `Cancel` is the environment: the caller cancels, or the deadline passes.

**Modelling choices.**
- `RetryConfig` reproduces `NewClient`'s substitution: `MaxRetries == 0` selects `DefaultRetryConfig` as a whole.
- `pow` is a recursive function, and `calculateBackoff` clamps its result to `MaxDelay`.
- Codes are strings.
- The float backoff factor is a positive integer.
- The select's timer can win only if the context was cancelled during the wait. Both channels are then ready and Go chooses either one. The delay is positive, so a context already done when the select starts wins.

### `IPRateLimiter` (limiter table plus OTP middleware handlers)

**Variables.** `ips` (an entry or `NoEntry` per IP), `tokens` per bucket, `now`, `stopped`, `stopClosed`, `loopAlive`, and per handler `pc`, `ip` and `held`. The auxiliary `granted` counts the requests let through per IP in the current time unit.

**Actions.**
- `GetLimiterHit` and `GetLimiterMiss` are the two paths of `GetLimiter`'s first lock section.
- `AddIP` is the second lock section.
- `Allow` is the middleware's `limiter.Allow()`.
- `Cleanup` and `LoopExit` are the two cases of `cleanupLoop`'s select.
- `Stop` and `Clear` are the public operations.
- `Tick` lets time pass: every bucket refills by `Rate`, up to `Burst`.

**Modelling choices.**
- The token bucket of `golang.org/x/time/rate` is abstracted to its token count.
- A bucket is a number that is recycled once nothing refers to it.

### `TokenAuth` (`RemoteServiceAuthMiddleware` and `remoteTokenCache`)

**Variables.**
- `cache` maps each token to an entry `[valid, expiresAt, answeredAt]` or to `NoEntry`. `answeredAt` is auxiliary: the time the validator answered.
- `authority` says whether the auth service holds each token valid.
- `now` is in minutes.
- Per request: `pc` (`idle` / `remote` / `store`), and `route`, `tok`, `answer` and `deadline` (the request's context is done).
- The auxiliary `verdict` is each request's last decision in the current minute. An admission keeps the validation it rested on.

**Actions.**
- `Receive` covers the handler up to the cache lookup: `Enabled` and `SkipPaths`, the header check, then `get`. A cache hit is decided on the spot with the middleware's scope check.
- `ValidateReturn` is the validator's answer: an error, invalid, or valid.
- `Store` is `set` (insert, then the sweep when the table exceeds the threshold) followed by the scope check.
- `InvalidateToken` and `ClearTokenCache` are the public operations.
- `Revoke` and `Expire` are the environment: the authority revokes a token, or a request's deadline passes.
- `Tick` lets a minute pass.

**Modelling choices.**
- A scope string is the sequence of its `:`-separated parts.
- `SkipPaths` matching is an input flag of the request.
- Time does not advance between a handler's validator answer and its store. That gap is a few instructions.

### `RetryCall` and `RetryEngineImpl` (what a call promises)

`RetryCall` is the abstract specification of one call. Its state is the codes of the attempts made (`history`), the `outcome`, and whether the caller cancelled. It has three actions:
- `Invoke` makes one more attempt while the budget lasts. The `Verdict` of its code decides the outcome.
- `GiveUp` returns the cancellation, between two attempts.
- `Cancel` is the caller.

`RetryEngineImpl` instances it with a refinement mapping:
- `Budget` is `MaxRetries + 1` of the effective policy;
- `outcome` is the interceptor's `result`;
- `cancelled` is `ctxErr # "none"`.

The interceptor's `attempt`, `lastErr`, `pc` and the timer are hidden, so `TimerFires` is a stutter. `CallSafety`, the abstract call without fairness, is checked as a property of `retry_core` and proved. That a call always returns is not claimed: the invoker may block forever, and nothing in the interceptor bounds it.

### `MemoryCache` (`src/cache/memory.go`)

**Variables.** `items` (value plus `expiresAt`, or `NoItem`), `now`, `stopClosed`, `janitorAlive` and `panicked`. Two are auxiliary. `last` records the last operation: its key, what `Get` returned just before it, what it read, and its result. `stored` records, per key, the value and deadline of its last `Set`; any other write of the key resets it to `NoSet`. A deadline is `Never` or a natural number.

**Actions.** There is one action per public method:
- `Get`, `Exists`, `Set`, `Delete`, `Increment`, `SetNX`, `GetSet`, `TTLOp`, `KeysOp`, `DeleteMany`, `Clear`, `Close`;
- the janitor's two select cases, `RemoveExpired` and `JanitorExit`;
- `Tick`.

Each action does what its method does under the lock, the expiry test `now.After(expiresAt)` included. Values are small integers plus one non-integer (`Text`), so `Increment`'s type switch has both outcomes. A second `Close` panics (`close` of a closed channel), and that is a state in which the process stops.

**Abstract specification.** `ExpiringMap` says what the cache promises its callers, without the lazy expiry, the janitor or the lock. Its state is `entries` (per key, a live entry or `NoEntry`), `clock`, and `call`, the last call at this instant. It has five actions:
- `Read(k)` returns the value of `k`'s entry, or `Absent`, and changes nothing;
- `Observe` changes nothing;
- `Write(k)` gives `k` a live entry, or none, and leaves the other keys;
- `Remove(ks)` drops the entries of `ks`;
- `Tick` advances the clock and drops exactly the entries whose deadline the new time passes.

`MemoryCacheImpl` instances it with a refinement mapping:
- a key's entry is its item while `Get` would return it, and `NoEntry` once the deadline has passed, swept or not (`Visible`);
- `clock` is `now`;
- `call` is derived from `last`: a `Get` is a read with its key and result; `Set`, `Delete`, `Increment`, `SetNX`, `GetSet`, `DeleteMany` and `Clear` are writes; `Exists`, `TTL`, `Keys` and the sweep are observations.

`stopChan`, the janitor and `stored` are hidden, so `JanitorExit` and `Close` are stutters. `ExpiringMapSpec` is the property.

### `ShutdownManager` (`src/shutdown/shutdown.go`)

**Variables.** `started`, `hooks` (a sequence), `notified` (`signal.Notify` ran), `sigChan`, `doneClosed`, `healthy` and `panicked`. Each caller of the unexported `shutdown` is a process in `proc`: the signal goroutine, each call of the trigger returned by `Start`, and each `GracefulShutdown`. A process records its `pc`, its `snap` of the hooks, its loop index `i` and the hooks it `ran`.

**Actions.**
- `AddHook`, `Wait`.
- `StartClaim` and `StartListen`: the check-and-set of `started`, then `signal.Notify` and the goroutine.
- `Signal` and `SignalReceived`.
- `CallTrigger`.
- `CopyHooks`: the snapshot under the lock.
- `RunHook`: one iteration of the reverse loop. A hook returns nil, an error (logged, the loop goes on), or hangs when `HookMayHang`.
- `CloseDone`, which panics when `done` is already closed.
- `MarkUnhealthy` and `DelayElapsed` of `GracefulShutdown`.

**Abstract specification.** `HookShutdown` says what the manager promises, without signals, triggers or health. Hooks are registered once each, in order. Each caller of shutdown is `waiting`, `running`, `stuck` or `finished`. Its actions are:
- `Begin` snapshots the registered hooks;
- `RunNext` runs the last hook of the snapshot not yet run, which returns or never does;
- `Finish`, allowed once the whole snapshot has run, marks shutdown done.

`ShutdownManagerImpl` instances it. `registered` is `hooks`. A caller's phase comes from its `pc` (`PhaseOf`): before `CopyHooks` it is waiting. Its `snap` and `ran` are kept. `closed` is `doneClosed`. The loop index and the start, signal, health and `Wait` machinery are hidden, so the steps that only touch them are stutters. `HookShutdownSpec` is the property.

### `GrpcAuth` (`src/grpc/auth_interceptor.go`)

This is the unary and stream interceptor with its process-wide cache. The state is as in `TokenAuth`, plus the token's expiry at the authority (`TokenExpiry`). The actions are:
- `Intercept`: `Enabled`, `SkipMethods`, the metadata header, `get`, and the scope check for the method with `hasScope`;
- `ValidateReturn` and `ValidateCtxDone`: the validator answers, or the call's `ctx` is done;
- `Store`: `set` with the size sweep, then the scope check;
- `ClearGRPCTokenCache`, `Tick`.

### `HealthService` (`src/health/health.go`)

**Variables.** `checkers` (registration order), and per caller of `CheckReadiness`:
- `pc`;
- `snap`, the copy taken under the read lock;
- `pending`, the goroutines not yet returned;
- `results`;
- the shared `allHealthy`;
- `expired`, the `WithTimeout` context is done;
- `answer`.

**Actions.**
- `RegisterChecker`.
- `StartReadiness`: the copy, the empty-list early return, and the start of the goroutines.
- `CheckReturns(c, i)`: one goroutine's `Check`, its `results[idx]` and its racy write of `allHealthy`.
- `Timeout`.
- `Answer`: after `wg.Wait`.

A checker has a kind:
- a Postgres or Redis checker without a pinger, which always returns an error;
- a `CustomChecker` without a function, which always returns nil;
- a pinger, which honours `ctx`;
- a custom function, which may ignore `ctx` when `FuncMayIgnoreCtx`.

## Runs

There are twelve runs. Each passing run's properties are listed in `PROJECT.json`.

| Run | Bounds | What it shows |
|---|---|---|
| `retry_core` | 6 codes, MaxRetries 3, delays 100 / 300 / ×2 | `ExhaustionOnlyAfterFullBudget`, `ReturnedOutcomeIsFirstFinal`, `PromptCancellation`, `BackoffSchedule`, and the refinement `CallSafety` |
| `limiter_core` | 2 handlers, 2 IPs, burst 1, TTL 1, 3 time units | `StopEndsCleanupLoop` (liveness): after `Stop` the cleanup goroutine returns |
| `limiter_first_access_race` (violation) | same | `BurstRespected` fails: one IP gets two buckets |
| `token_auth_core` | 2 requests, 2 tokens, 2 instances with TTL 1, threshold 1, 2 minutes | `AdmissionBackedByRecentValidation`, `SetSelfBounds` |
| `token_auth_deadline` (violation) | same | `ValidationHonoursDeadline` fails: `context.Background()` |
| `memcache_core` | 2 keys, values 0..1 and a string, TTLs −1 / 0 / 1 with DefaultTTL 2, instants 0..2 | `GetHonoursTTL` (Get answers the last Set's value exactly while its TTL lasts, swept or not), `CloseStopsJanitor`, and the refinement `ExpiringMapSpec` |
| `memcache_incr_expired` (violation) | same | `IncrementResultVisible` fails |
| `shutdown_core` | 2 hooks, 1 trigger call, 1 GracefulShutdown | `SignalAfterStartShutsDown` (liveness), and the refinement `HookShutdownSpec` (each caller runs its snapshot of hooks once each, in reverse, before `done` is closed) |
| `shutdown_double_close` (violation) | same | `NoDoubleClose` fails |
| `grpc_auth_core` | 2 calls, 2 tokens, 3 methods (one skipped), TTL 1, threshold 1, 2 instants | `HandlerBackedByRecentValidation` |
| `grpc_token_expiry` (violation) | same; token t1 expires at the authority at instant 1 | `HandlerTokenUnexpired` fails |
| `health_core` | 4 checkers, one of each kind, 1 caller | `AnswerIsConjunctionOfChecks`, `ReadinessAnswers` (liveness) |

Configurations kept beside the runs, for the questions they answer:
- `MC_RetryEngine_zero.cfg`: `MaxRetries: 0` makes 4 attempts.
- `MC_TokenAuth_sharedttl.cfg`: the shared cache outlives the shorter TTL of a second middleware.
- `MC_MemoryCache_rmw_boundary.cfg`, `MC_MemoryCache_keys.cfg` and `MC_MemoryCache_double_close.cfg`: the expiry instant and pattern matching of `Keys`, and the panic of a second `Close`.
- `MC_ShutdownManager_hang.cfg`: a hook that never returns keeps `Wait` blocked.
- `MC_HealthService_hang.cfg`: a custom check that ignores its context keeps `CheckReadiness` from answering, because `wg.Wait` has no timeout.

Why these bounds are enough:
- **Retry engine.** Three retries reach the first, middle and last positions of the loop, and the backoff clamp.
- **Limiter.** Two handlers on two IPs give the race, and a sweep of one IP while the other is active.
- **Token paths.** A threshold of 1 with two tokens triggers the sweep. A TTL of 1 with 2 instants makes entries expire.
- **Memory cache.** TTL −1 never expires, 0 takes the default of 2, which outlives a sweep, and 1 expires at the next instant. The string value takes `Increment`'s error branch.
- **Shutdown.** Two hooks are enough to tell reverse order from forward order. Three callers of `shutdown` give every pair of them.
- **Health.** Four checkers cover every outcome of `Check`. They can be registered before, during or after a readiness call.

Each property of a passing run is checked against a mutant of the code that breaks it. The mutants are listed in `PROJECT.json`. Examples:
- an off-by-one loop bound;
- `get` without the expiry test;
- the hook loop stopping at the first error;
- a goroutine overwriting `allHealthy` with its own outcome;
- a ping that ignores the context.

## Fairness

- **Retry engine.** None. The interceptor's progress depends on the invoker returning, which the code cannot guarantee, so `retry_core` checks only safety.
- **Limiter.** The handlers' `AddIP` and `Allow` are weakly fair, and so is the cleanup goroutine's return once `stopClean` is closed. Go's select chooses among ready cases at random.
- **HTTP token path.** `Store` is weakly fair. The validator's answer is not fair, because a remote service may hang.
- **gRPC interceptor.** None. Leaving the validation when `ctx` is done depends on the validator client honouring `ctx`, which is outside this repository, so `grpc_auth_core` checks only safety.
- **Memory cache.** The janitor's exit is weakly fair once `stopChan` is closed.
- **Shutdown.** Each caller of `shutdown`, `Start`'s two steps and `GracefulShutdown`'s delay are weakly fair. Nothing is fair after a panic or after the process exits on an unsubscribed signal.
- **Health.** The timer of `WithTimeout`, `Answer` and the goroutines of checks that honour their context are weakly fair. A check that may ignore its context gets no fairness, because it may hang.

## Findings

1. `NewClient` turns `MaxRetries: 0` into the default policy of 3 retries (`client.go:62`). This is a spec divergence, shown by the kept configuration.
2. Two concurrent first requests from one IP get two buckets (`ip_limiter.go:140`). This is a code bug.
3. The HTTP remote validation ignores the request's deadline (`service_auth_remote.go:97`). This is a spec divergence.
4. `Increment` on an expired but unswept key keeps the old, past `expiresAt`, so its result is invisible to `Get` (`memory.go:197`). This is a code bug.
5. `shutdown` has no once-guard. The trigger and the signal goroutine, or two `GracefulShutdown`s, run the hooks twice, and the second `close(m.done)` panics (`shutdown.go:139`). This is a code bug.
6. The gRPC cache stores `now + CacheTTL` and ignores the authority's `ExpiresAt`, so an expired token reaches the handler (`auth_interceptor.go:256`). This is a spec divergence.

## Proofs

`RetryEngineProofs` holds these proofs, for every code set and every policy allowed by `CodesAssumption` and `PolicyAssumption`:
- `TypeCorrect`.
- `ExhaustionAfterFullBudget`.
- `OutcomeIsFirstFinal`.
- `Refinement`: `Spec => CallSafety`.

The inductive invariant is `IInv == TypeOK /\ Running /\ ExhaustionOnlyAfterFullBudget /\ ReturnedOutcomeIsFirstFinal`. `Running` says what `history` holds while the call runs: its length is `attempt`, and every code is retryable. The refinement proof maps the initial state to `RetryCall!Init`. Under `IInv`, each interceptor step is then one of:
- `Invoke`, for `Attempt`: `Len(history) < MaxRetries + 1` follows from `Running`, and the verdict of the new code matches the branch taken;
- `GiveUp`, for `CtxDone`;
- `Cancel`;
- a stutter, for `TimerFires`.

`ShutdownManagerProofs` holds these proofs, for any hook names and any sets of trigger and `GracefulShutdown` calls:
- `TypeCorrect`.
- `Refinement`: `Spec => HookShutdownSpec`.

The refinement is not inductive as it stands, because the abstract guards speak of how many hooks a caller has run. `IInv` adds `RanSoFar` for every process:
- before the loop, nothing has run;
- in the loop, `0 <= i <= Len(snap)`, `Len(ran) = Len(snap) - i`, and `ran[j] = snap[Len(snap) - j + 1]`;
- at `done`, `i = 0`.

It also adds:
- `ClosedByFinisher`: `done` is closed only if some process reached `done`;
- `SignalSpawnedByStart`: no signal goroutine exists before `Start` returned.

The refinement rests on the same `IInv`. `RanSoFar` supplies the abstract guards:
- in the loop, `Len(ran) = Len(snap) - i`, so `snap[i]` is the last hook not yet run;
- at `i = 0` every hook has run;
- before the copy nothing has run, so `CopyHooks` is `Begin`.

`SignalSpawnedByStart` shows that `StartListen` moves the signal goroutine only between waiting states.

The lemmas `PreLoopMove` and `LoopMove` carry the "one process moves, the others are unchanged" argument.

`HealthServiceProofs` holds these proofs, for any checkers and calls:
- `TypeCorrect`.
- `AnswerIsConjunction`: `Spec => []AnswerIsConjunctionOfChecks`.

`IInv` adds two per-call facts:
- `RunningCall`: while the check goroutines run, `results` has one slot per snapshotted checker, a slot is still empty exactly when its goroutine is pending, and the shared `allHealthy` is TRUE exactly when no finished goroutine reported unhealthy;
- `IdleCall`: an idle call has no pending goroutine.

With these, the step that writes the answer reads `allHealthy` as the conjunction of all the checks. This holds whatever order the goroutines finished in.

`GrpcAuthProofs` holds these proofs, for any methods, tokens and TTL:
- `TypeCorrect`.
- `RecentValidation`: `Spec => []HandlerBackedByRecentValidation`.

`IInv` adds `CacheFresh`: a cached entry was answered no later than `now` and expires exactly `TTL` after its answer. A cache hit therefore rests on a validation at most `TTL` old. The lemmas `DecideKeeps` and `FrameKeeps` carry the argument for each step that records a decision and for the steps that leave decisions alone.

`TokenAuthProofs` holds these proofs, for any number of middleware instances sharing `remoteTokenCache`:
- `TypeCorrect`.
- `AdmissionOnValidAnswer`: every admission rests on an answer that called the token valid.
- `RecentValidationUnderSameTTL`: `SameTTL => (Spec => []AdmissionBackedByRecentValidation)`.
- `SetBoundsItself`: the action property `SetSelfBounds`.

`IInv` adds three facts:
- `CacheFresh`: the cache holds only valid answers, answered no later than `now`, each expiring `TTL(m)` after its answer for some instance `m`;
- `StoreValid`: a handler about to store holds a valid answer;
- `AdmittedValid`: every admission rests on a valid answer.

The age bound `AdmissionTTL` is proved only under the hypothesis `SameTTL`, that all instances have the same `CacheTTL`. The hypothesis is needed. An entry stored by one instance admits a request at another, and with different TTLs the property fails. `MC_TokenAuth_sharedttl.cfg` shows that failure, and the hazard list records it. `MC_TokenAuth.cfg` gives both instances the same TTL, so the run `token_auth_core` checks the case the theorem covers.

`MemoryCacheProofs` holds these proofs, for any keys, TTL arguments, `DefaultTTL` and clock bound:
- `TypeCorrect`.
- `GetHonoursSetTTL`: `Spec => []GetHonoursTTL`.
- `Refinement`: `Spec => ExpiringMapSpec`.

`GetHonoursTTL` speaks only of the last `Get`. `IInv` adds two facts:
- `StoredMatches`: for each key whose last write was `Set`, the item is exactly the value and deadline that `Set` stored, or it is gone and that deadline has passed;
- `LastGet`: a recorded `Get` returned what `Get` returns now.

The lemmas `ReadKeeps`, `ForgetKeeps` and `QuietKeeps` cover the three kinds of step: reads, writes that forget the `Set` record, and steps that change neither the map nor the clock.

The refinement needs only `TypeOK`. `RefInit` maps the empty map to `ExpiringMap!Init`. `RefStep` then matches each step of the cache with one step of the map:
- `Get` is `Read`, because `Get`'s result is the value of the visible item (`ViewIsEntryValue`);
- `Exists`, `TTL`, `Keys` and the sweep are `Observe`. The sweep removes only items that are already invisible, by the same `After` test that `Get` applies;
- the one-key writes are `Write` (`WriteRefines`). The item they leave is live or invisible, and every other key is untouched;
- `DeleteMany` and `Clear` are `Remove` (`RemoveRefines`);
- a tick is `Tick` (`VisTick`). An item visible at `now` stays visible at `now + 1` exactly when its deadline is `Never` or at least `now + 1`.

The abstract `Write` lets a key take any live entry. The refinement therefore does not say which value `Increment`, `SetNX` or `GetSet` write. `GetHonoursTTL` says it for `Set`. The run `memcache_incr_expired` and `MC_MemoryCache_rmw_boundary.cfg` show where the read-modify-write operations part from `Get` at an expired item and at the expiry instant.

`IPRateLimiterProofs` holds these proofs, for any finite sets of handlers and clients, and any burst, rate and TTL:
- `TypeCorrect`.

`TypeOK` needs two facts:
- `HoldsBucket`: a handler about to call `Allow` holds a real bucket;
- `FreeBucket`: `AddIP` always finds an unused bucket number.

`FreeBucket` is a counting argument over finite sets (`FiniteSetTheorems`). At most one number per client and one per handler are in use, and `Buckets` has one more than that.

`RetryEngineProofs` also holds `CancellationIsPrompt`: `Spec => []PromptCancellation`. It rests on `CancelInv`. The attempt made after the context is done ends the loop, or enters a select that began with the context done (`waitFromDone`). In that select the timer cannot win.

**Constant assumptions added for the proofs.** Each is a fact about the program's inputs.
- `GrpcAuthAssumption` and `AuthAssumption` require nonempty sets of methods or instances and tokens. `Init` picks a placeholder from each.
- `LimiterAssumption` requires at least one IP, for the same reason.
- `CacheAssumption` requires `Absent` to be neither a number nor `Text`, and `Never` not to be a natural number. These are the markers for "no value" and "no expiry".

## Only model-checked

- **Liveness.** `StopEndsCleanupLoop`, `CloseStopsJanitor`, `SignalAfterStartShutsDown`, `ReadinessAnswers`, and the violated `ValidationHonoursDeadline` of the HTTP path. This is liveness under fairness, which is beyond TLAPS here.
- **Backoff values.** `BackoffSchedule` depends on `pow`, a recursive function. Its values for all inputs would need induction over data.
- **The age bound with different TTLs.** `AdmissionBackedByRecentValidation` is proved only for instances that share one `CacheTTL`. With different TTLs it is false, and `MC_TokenAuth_sharedttl.cfg` shows that.

## Not modelled

These parts are not modelled:
- the HTTP outbound client and the Redis caches, which are one external call per operation;
- the JWT and OAuth middleware, which is a stateless check of a signed token;
- pagination, phone and crypto helpers;
- logging, responses, i18n, tracing, metrics, audit, ORM, migrations, configuration and test helpers.

`PROJECT.json` gives the reason for each one.
