# A TLA+ model of the kart API

This directory holds TLA+ specifications of the food-ordering service in
`src/`, the TLC configurations that check them on small instances, and proofs
of their central theorems, checked by TLAPS. Every definition is translated
from the Go and SQL source. `PROJECT.json` maps each definition to the lines it
stands for.

## The system

The server (`cmd/api-server`, wired in `internal/app/app.go`) answers `GET
/api/product`, `GET /api/product/{id}`, `POST /api/order`, `/livez` and
`/readyz`. Two tools write the same database: `seed-db` (products, coupons, API
keys) and `coupon-ingest` (coupon codes from three promo files). Everything
that lasts is in PostgreSQL; what several goroutines of the server share in
memory is the rate limiter's map and the health checks.

| component | state | operations | what is hard about it |
|---|---|---|---|
| order placement: `domain/order`, `handler/order.go`, `repository/order.go` | the `products` and `orders` tables; the locals of a handler | `PlaceOrder`: fetch products, validate the coupon, insert the order | five database calls that are not one transaction; any of them may fail, and a failed one may have been executed |
| coupon validator: `domain/coupon`, `repository/coupon.go` | the `coupons` table with its counter `uses` | `FindByCode`, the tests of `Validate`, `IncrementUses` | read, test and increment are three steps; lookup ignores case, increment does not |
| discounts: `domain/coupon/discount.go` | none | `Apply` and three strategies | rounding, floors, caps, wrap-around of a Go int |
| authentication: `handler/security.go`, `repository/apikey.go` | the `api_keys` table | one lookup per order | runs before the body is decoded |
| product endpoints: `handler/product.go`, `repository/product.go` | the `products` table | `ListProducts`, `GetProduct` | ids with any character in them |
| `seed-db` | the tables | connect, migrate, then one upsert per product, coupon and key | runs while the server serves; may break off anywhere |
| `coupon-ingest` | the files, bloom filters, candidates | two concurrent passes, then upserts | joining goroutines, false positives, errors and interrupts half-way |
| rate limiter: `pkg/httpmiddleware/ratelimit.go` | a map of window counters | `allow` per request, `cleanup` per tick | clock read outside the mutex, misaligned windows, eviction |
| health: `pkg/health` | readiness flag; per check an error, two counters, a flag | `Add…Check`, `Start`, `Stop`, `SetReady`, `/livez`, `/readyz` | runners, requests and shutdown interleave; flags are atomics loaded one by one |
| lifecycle: `internal/app`, `cmd/api-server` | phase of the server, its pool, the readiness flag | start, drain, shutdown | joining the drain before the pool is closed; timeouts |
| other middleware: CORS, request id, recovery, logging | none | wrap each request | order of the chain; wildcard with credentials; caches in between |
| generated code: `gen/oas` | none | route, decode, validate, encode, on both sides of the wire | refuses some requests before the service can; two copies of the router; escaped paths; repeated keys |

The parts meet in these places. A request passes the middleware (among it the
rate limiter), then the generated decoder and the security handler, then the
service, which calls the three repositories one after the other. The tools
write rows of tables the service is reading. The health checks ping the pool
the repositories use; the readiness flag is withdrawn by the shutdown goroutine
of `app.Run`. The only shared state between an order and anything else is
therefore the database, and `Checkout` is built around its statements.

What makes each part correct:

- **orders and coupons**: a usage limit is not overrun by more than the race
  allows; every redemption is counted; a refused request uses nothing up; an
  answer tells the truth about the outcome; amounts are storable and
  consistent; history is not re-written; every request ends;
- **discounts**: the documented formula; nothing is lost between discount and
  total; more goods never cost less; overflow grants nothing;
- **ingest**: exactly the codes in two or more files are written, whatever
  fails; a run that reports success is complete; every run ends;
- **rate limiter**: how many requests can pass in a window; refusals are
  earned; the map does not keep the absent;
- **health**: flags follow consecutive results; lasting changes are seen;
  runners end;
- **lifecycle**: the database outlives the requests; drain before stop; `Run`
  returns;
- **generated code**: what the client hands its caller is what the handler
  said, and nothing else is mistaken for it; the handler sees what the body
  says; an id arrives as it was named; telemetry tells what happened;
- **CORS**: whoever is permitted, in the spelling that is listed, can read any
  answer, nobody else can, also out of a shared cache;
- **seed-db**: a key that is accepted comes after the catalogue it orders from.

## Modules

| module | role |
|---|---|
| `Pricing` | pure operators: discounts and totals, in integer cents |
| `MCPricing` | every small cart under every small rule, as a state machine that adds lines |
| `PricingProofs` | its four properties, proved for carts of any length |
| `OrderLedger` | abstract: the books that placing orders keeps |
| `Checkout` | order placement: requests, repositories, tables, tools, crashes |
| `MCCheckout` | its instances for TLC |
| `CheckoutProofs` | its safety properties, and that it implements `OrderLedger`, proved |
| `CouponImport` | abstract: what `coupon-ingest` promises |
| `CouponIngest` | what it does, goroutine by goroutine; implements `CouponImport` |
| `MCCouponIngest`, `CouponIngestProofs` | its instance and theorems |
| `RateLimiter`, `MCRateLimiter`, `RateLimiterProofs` | the sliding window limiter |
| `Health`, `MCHealth`, `HealthProofs` | the health checks and their endpoints |
| `Lifecycle`, `MCLifecycle`, `LifecycleProofs` | the process from configuration to return, its requests and a load balancer |
| `Wire` | the JSON codecs and validators of `gen/oas`, as operators |
| `Router` | paths as the client writes, the mux and both routers read them |
| `Cors` | the CORS middleware as a function of configuration and request |
| `SeedDb` | runs of `seed-db` against catalogue and key |
| `Gateway` | an HTTP exchange from client through middlewares and generated code to the handlers and back; composes the four above |
| `MCGateway` | its instance: calls, browser requests, configurations |
| `GatewayProofs` | what is proved of an exchange |
| `FoldLemmas` | induction, and the folds of the community modules, as lemmas that other proofs cite |

A definition named `XyzSomething` under a comment "Mutant:" is a plausible bug
of `Xyz`. It is used nowhere; putting it in the place of `Xyz` breaks the
property `PROJECT.json` names with it, which shows that the property can see
the bug.

### Checkout

Each `POST /api/order` is an attempt `a` with a program counter `pc[a]` and the
locals that survive from one database call to the next (`req`, `lines`,
`rule`). One action is one database call together with all that happens up to
the next one:

| action | code |
|---|---|
| `Receive` | a client sends one of `Requests`; bounded by `MaxInFlight` |
| `Authenticate` | the generated handler: key lookup (401), then decoding and validation (400) |
| `FetchProducts` | `PlaceOrder` from its tests of the items to `GetByIDs` and the refusals after it |
| `FindByCode` | the lookup without regard to case; more than one match is an error |
| `CheckRule` | window and usage tests on the row as it was read, then the discount's minimum of items |
| `IncrementUses` | the counter's own statement, committed by itself, exact in case |
| `CreateOrder` | totals, the bounds of `NUMERIC(10,2)`, the insert and the answer |
| `Crash` | the process dies: everything in flight is lost |
| `ApplyStray`, `DropStray` | a statement whose caller has given up is executed late, or never |
| `UpsertProduct`, `UpsertCoupon` | one row of `seed-db` or `coupon-ingest` |
| `Tick` | the clock the window tests read |

Every call may fail. A failed `IncrementUses` or `CreateOrder` answers 500 and
may have been executed, may still be executed (`stray`) or not at all. A client
that leaves cancels the context of the request, and the next call fails: any
call may.

Data is abstracted to what the properties tell apart: codes with their
upper-case form, prices in cents, quantities, templates of coupon rows. The key
lookup is membership in `ActiveKeys`; the HMAC is not modelled.

`OrderLedger` says what all this amounts to, with three variables and no
handlers: an order is entered once and for good, under a listed code it spends
a use counted before; uses only grow and terms stand; a client hears one thing
at most, of an order that is entered at that moment, or of one that never will
be, or that it is not known. `KeepsLedger` is this specification under the
mapping `Ledger` at the end of `Checkout`.

### CouponIngest

The tool runs up to `MaxRuns` times on the same files and the same table. Each
file has a goroutine `worker[f]` that reads one line per step. `AddToFilter`
and `TestInFilters` are the callbacks of the two passes; `EndPass1` and
`EndPass2` are the code after `g.Wait()`. A bloom filter is the set of codes
added to it, and `TestInFilters` lets any eligible code become a candidate: a
false positive is chance. `StreamFails` covers missing, broken and unreadable
files and a cancelled context. `WriteFails` and `Kill` leave the current upsert
done or not. The run may be interrupted at any point (`Interrupt`), which is
seen before the next line and by the next database call.

A statement that the server executes after the tool is gone is not modelled
here: it writes the row a later run writes as well, to a code that is shared.

`CouponImport` says no more than what a user may rely on: `Advance(S, s)`
writes rows to some shared codes and may end the run, successfully only if
every shared code has its row. The refinement mapping takes `shared` to
`Shared`, the codes in two files or more, and `status` to the outcome, or
"running".

### RateLimiter

`Arrive` reads the clock, `Allow` is the critical section: these are two steps
because `time.Now()` is called before the mutex is taken (lines 156 and 56).
`Found`, `Rotated`, `Overlap`, `Effective`, `Admits` and `Counted` are `allow`
line by line. The `float64` count is multiplied by the window and compared as
an integer. `Cleanup` is the ticker goroutine; it evicts by the time of the
tick, which may be older than the present. `MaxLag` bounds how long a runnable
goroutine is kept waiting, and is assumed to be less than a window. `admitted`
is a history variable: no action reads it.

### Health

A runner's round has three steps between which others can act: the check
returns (`Return`), its error is stored (`StoreError`), counters and flag are
updated (`Count`). `TakeTick` and `Exit` are the two branches of the `select`;
when both are ready, either may be taken. `Ask`, `LoadFlag` and `Respond` are a
request: `/readyz` loads the flag of `SetReady` first and then the flag of one
check after the other. `Turn` breaks or repairs what a check looks at. Counters
stop at their thresholds, beyond which the code tells them apart no more.

### Lifecycle

`main` is the place in `Run` (`LoadConfig`, `NewPool`, `RunMigrations`,
`StartHealth`, `NewServer`, `ListenAndServe`, `JoinDrain`, `BeginClose`,
`EndClose`), `drain` the place in the goroutine that waits for the signal
(`BeginDrain` withdraws readiness, `BeginShutdown` follows the delay,
`EndShutdown` is the return of `Shutdown`, `EndDrain` stops the checks). Every
step that may fail has the branch that returns, with the deferred close where
it is registered by then. A request takes and returns connections (`Acquire`,
`Release`) until it is answered; the load balancer asks (`Poll`) and sends only
where it was last told yes (`Send`). `Tick` moves the three timers.

What `net/http` and `pgxpool` do is external and taken from how `Run` uses
them: `Shutdown` closes the listener at once and returns when nothing is served
or its context ends; `ListenAndServe` returns as soon as the listener is
closed; `Close` of the pool refuses new connections and waits for those that
are out.

### Gateway

One exchange at a time is in `ex`: the call that made it, the request, the
stage it is at (`ex.at`), what was sent, what telemetry was told, what the
handler was asked and said, and what the client got. Exchanges share no state
in the code but the rate limiter, so one after the other is enough; what they
do share outside of it is a cache, `cache`, which `cors.go` writes `Vary` for.

| stage | code |
|---|---|
| `Ask`, `Follow`, `Deliver` | the generated client: `send…`, redirects, `decode…Response` |
| `FromCache` | a shared cache that honours `Vary` (external) |
| `CORS`, `RateLimit`, `RequestID`, `Labeler` | the chain of `app.go` in the order `Wrap` gives it |
| `Route` | the mux with the health endpoints, then `ServeHTTP` with 404 and 405 |
| `Security`, `DecodeParams`, `DecodeRequest` | the first half of `handle…Request` |
| `Handle` | `handler/`: the answers of the three operations, an error, a panic |
| `Encode`, `ErrorHandler`, `Recover` | the ways an answer goes out |

`Chain` and `Steps` are the orders in which the stages follow one another.
`RateLimit` may refuse any request here and `Handle` may refuse any order:
`RateLimiter` and `Checkout` say when they do.

`Wire` writes ogen's template once instead of once for every schema: a schema
is a sequence of fields, `DecodeObject` is the loop over the pairs of a JSON
object with the bit set of required fields, `Reset` what happens to a slot
before a field is decoded into it (a repeated key replaces). `EncodeObject`
writes the fields that are set. The response decoders and the client choose a
schema by status (`Types`), the encoders a status by type (`StatusOf`): the two
tables are translated from different files, and the properties compare them.

`Router` has a path as a sequence of characters, each escaped or not, over an
`Alphabet` that has the words of the routes. `ServeHTTP`
and `FindPath` are the two copies of the routing tree; they unescape an argument
under different conditions.

`SeedDb` has one step per upsert, in the order of the tool's phases, and may
break off before or after any of them. Its coupon rows are those of `Checkout`.

## Runs

`cd tla; tlc -workers 2 -config X.cfg M` runs a configuration.

| run | instance | checks |
|---|---|---|
| `pricing` | carts of up to 3 lines with 3 prices and 3 quantities, 32 rules: every strategy, with and without cap and minimum; a Go int of 8 values (`IntLimit = 4`) so that the sum of quantities wraps | the formula, amounts, monotonicity, overflow |
| `limit` | 4 requests, 2 at a time, 1 statement left behind, a coupon with `max_uses = 1` and a code without a row, tools writing both | `RedemptionBound`, `RedemptionsCounted`, `UsesExplained`, `KeepsLedger` (refinement) |
| `answers` | 2 requests, good and malformed, a code stored in two cases with a window and 150 %, one of them inactive, 3 instants, tools writing all along | `AmountsConsistent`, `AnswerTellsOutcome`, `WindowHonoured`, `EveryRequestEnds` |
| `ingest` | 3 files of up to 2 lines, 3 codes, 2 runs | `ScanIsExact`, `KeepsPromise` (refinement), `EveryRunEnds` |
| `rate_limit` | 2 goroutines, 1 client, a limit of 4, a window of 2 ticks, 10 instants, a lag of 1 | `WindowBound`, `RefusalEarned`, `StaleEntriesGo` |
| `health` | the checks "postgres" and "goroutines", one `Start`, threshold 2 | `FlagFollowsResults` and four liveness properties |
| `lifecycle` | 3 requests, a delay of 3 ticks, a timeout of 2, a balancer that asks every 2 | `PoolOutlivesRequests`, `DrainedBeforeRefusing`, `RunReturns` |
| `gateway` | 2 exchanges out of 11 calls and 31 browser requests, 5 CORS configurations, 2 products, one run of `seed-db` | `ClientNeverMistaken`, `IdSurvives`, `OrdersAsSent`, `AuthorisedSeesCatalog`, `AnswersReadable`, `CacheNeverStale`, `RecordedAsSent`, `LabelIsRoute` |
| `over_limit`, `lower_case`, `cors_echo`, `cors_case` | violations, see below | |

Why the bounds are enough. *limit*: an overrun needs one request that passes
the test while another one's increment is outstanding; with two in flight and
one statement left behind each kind of claim occurs, and four requests allow
the bound to be reached and tested again. The second code is listed, redeemed
created and re-written along the way. *answers*: a window has a before, an
inside and an after; one spelling is active and one inactive, and a tool that
re-writes both makes the code ambiguous; `MaxAmount` is below the largest total,
which an order of two items without a coupon has. *ingest*:
three files, as in the code, with a code in one, in two and in three of them; a
code that is too short; a second run after each way the first can end.
*rate_limit*: five windows, since an eviction takes four; two goroutines are
enough to swap the order of two clock readings; with a limit of 4 a late request
can be refused after three. *health*: a threshold of 2
already tells consecutive failures from failures in total; the code's is 3, and
checks do not touch one another. *lifecycle*: the smallest delay above the
period of a balancer that asks every other tick; three requests are one that
ends, one that holds a connection and one that comes late. *gateway*: two
exchanges are what a cache needs; the ids hold a slash, a percent sign, a dot or
nothing; the bodies have a repeated, a missing, an unknown and a null field,
another type, two documents and none; an origin is known, unknown or absent, and
it is listed as it is, in another case only, in both before a wildcard, or not
at all, with and without credentials.

Deadlock is checked except in `pricing`, where a cart is full after `MaxLines`
lines, `ingest`, whose tool is done after `MaxRuns` runs, and `gateway`, where
exchanges and runs of `seed-db` are bounded. The other systems never stop: tools
may write, requests may come in, a balancer goes on asking.

### Where documents and code differ

Four runs look for what a document or comment says and find it violated:

- `over_limit`: two requests read `uses` before either increments it, and both
  are stored under a coupon with `max_uses = 1` (ARCHITECTURE.md:86).
- `lower_case`: a code in another case is found but not counted
  (ARCHITECTURE.md:84, 90).
- `cors_echo`: with a wildcard and credentials the origin is not echoed
  (cors.go:30, 58) but refused, unless it is listed before the wildcard.
- `cors_case`: an origin listed in another case is matched (cors.go:11, 44), but
  the header has the spelling of the configuration, and a browser that compares
  it byte for byte refuses the answer. `Readable` compares as a browser does,
  and `Permitted` therefore asks for the spelling that is listed.

Others were met while modelling. The first three have their formula in a
module, and TLC refutes it there under the constants given:

- A use is counted and the order then not stored, so `uses` is not the
  redemption count (README.md:118; `UsesAreRedemptions` in `Checkout`, under
  the configuration of `limit`).
- A window as `X-RateLimit-Reset` tells of it lets more than `Max` requests
  pass, because the first window of a client starts at its first request and
  the next at a multiple of the window (ratelimit.go:17; `WindowRespected` in
  `RateLimiter`, with `Window = 3`, one handler and no lag). `WindowBound` is
  what does hold: fewer than twice `Max`.
- A second `Start` runs each check twice (health.go:141; `OneRunnerPerCheck` in
  `Health`, with two `Starts`) and replaces the only cancel function `Stop`
  has, against health.go:204.
- README.md:97 gives 422 for a quantity that is not positive; the generated
  decoder answers 400 before the service is asked (`WellFormed` in
  `Authenticate`).
- cors.go:80-85 wants caches kept right for requests without an `Origin`, but
  with a bare wildcard the answer to one has neither
  `Access-Control-Allow-Origin` nor `Vary`: a shared cache that kept it answers
  a browser with something it cannot read. `CacheNeverStale` therefore leaves
  that configuration out.
- The error handler writes `{"error_message": …}` under the declared statuses
  400 and 401, whose schema requires `code` and `message`: the generated client
  returns an error of decoding, not the declared type (`ErrorHandler`;
  `ClientNeverMistaken` counts that as an error, not as a mistake).

### Fairness

- `Checkout`: weak fairness of each attempt's handler. A goroutine is
  scheduled, and a call to the database returns, at the latest with an error.
  Nothing makes clients send, tools run, statements left behind execute, or
  processes die or live.
- `CouponIngest`: weak fairness of the tool's own steps: reads and statements
  return. `Start`, `Interrupt` and `Kill` are not fair.
- `Health`: weak fairness of each runner, because tickers fire and a check
  returns within its timeout (the two of the application do); strong fairness
  of `Exit`, because Go's `select` chooses uniformly among ready cases, so the
  tick cannot win forever. Strong is needed: taking the tick disables `Exit`
  until the next round.
- `Lifecycle`: weak fairness of both goroutines, of time, of the balancer's
  questions, and of `Release`, because a statement of the database returns or
  its connection breaks. A request may be served for ever: `Shutdown` has its
  timeout for that. Signals and failures are not fair.
- `Gateway`, `Pricing`, `RateLimiter`: none; their properties are about safety.

## Proofs

`tlapm M.tla` checks a module. All proofs hold for every value of the constants
under the named `ASSUME` of the component.

**`CheckoutProofs`** (assumes `CheckoutAssumption`: types, distinct model
values). `TypeCorrect` is `Spec => []TypeOK`. `Redemptions` is `Spec =>
[]RedemptionBound`, which is not inductive: the counter may be incremented by
any request that has passed the usage test, so one has to count those. The
strengthening is a conjunction: `TypeOK`; `Sent` (a request under way is one of
`Requests`); `WithinBounds` (the requests in flight and the statements left
behind are finite and within their bounds); `StrayOK` (each statement left
behind belongs to an attempt of its own that is over, and carries its code);
`PastCheck` (a request at `"increment"` read a row with uses left); `LimitKept`
(a row keeps its limit); and `ClaimsBound`: for every limited code, `uses` plus
the number of its *claims* (requests past the check whose copy of the row
showed a use left, and increments left behind) stays below `maxUses +
MaxInFlight + MaxStray`. As long as `uses` is below the limit, a new claim
finds room because the claims number at most `MaxInFlight + MaxStray`. Once the
limit is reached a row that is read shows no use left, so no claim is added,
and each increment takes one away. Each conjunct has its lemma `Step…`, with
one step per action.

Every step of a handler goes on, gives up without having stored an order, or
stores one (`HandleCases`); on that rest four theorems.
`Truthful` (`[]AnswerTellsOutcome`) has the invariant `Outcomes`: `TypeOK`,
`Sent`, `StrayOK` and `Told`, which says that a statement left behind belongs to
an attempt answered 500 or cut off, and that 200 comes with the row.
`Windows` (`WindowHonoured`) needs `RuleKnown`: the copy of the rule that
a request tests still has the window of an active row in the table, since no
step changes the window of a row or retires it; without it the copy could be
stale.
`OrdersCounted` (`[]RedemptionsCounted`) needs `Covered`: the attempts whose
order is stored *or may yet be* (at `"create"`, or left behind there) are at most
the uses. The count of stored orders alone is not inductive, as a stored order
costs its use two steps before. `UsesAccounted` (`[]UsesExplained`) goes the
other way with `Accounted`: the uses, and the increments left behind that may
still add to them, are at most the initial uses and the attempts that explain
one. For the counting, only finitely many attempts have been seen.

`LedgerKept` is `Spec => KeepsLedger`
under `NoCaseVariants`: `Checkout` implements `OrderLedger`. The mapping takes
for the entry of a code the terms of its row, its `uses` and, as *spent*, the
number of stored orders under it; for what a client was told, its status. Each
step is one entry or none: `Counting` and `Upserting` for the table,
`Telling` and `Entering` for answers and orders. An order that is entered needs
a use that is not spent: its attempt is among those `Covered` counts, and not
yet among the stored (`RoomForOne`). A row that a tool creates has no order
under it (`NoneSpent`), again by `Covered`. An order that was left behind is
entered after its client was told 500, or nothing, by `Told`.

`AmountsProper` (`[]AmountsConsistent`) has `AmountsOK`: the rows that are stored
*or left behind* to be stored have proper amounts, and no rule is held by a
request without a coupon (`Ruled`). That amounts are not negative takes a fact
about each strategy, a least price among them; that they fit is the test of
`CreateOrder`.

**`PricingProofs`** (assumes `PricingAssumption`: prices, percentages, amounts
and caps are not negative, quantities are positive, all unbounded). A cart has
any length here, and `IntLimit` any value: `MinItemsHold` says of a Go int of
any width that a sum of quantities that wraps round does not reach a minimum
the cart has not. `DiscountIsTheFormula`, `AmountsMakeUp` and `MoreCostsMore`
(an action property) are the other three. `Priceable`, the type of cart and
rule, is invariant; the rest is arithmetic: `calcSubtotal` is a sum over the
lines (`FoldSeq` unfolded through `FoldLemmas`), rounding is within half a cent
and monotone, and the least price of a cart only falls when a line is added,
by no more than that line costs.

**`CouponIngestProofs`** (assumes `IngestAssumption`). `ScanInv` joins
`TypeOK` (theorem `TypeCorrect`), `Streaming` (which stage has which workers, and how far they have
read), `FiltersExact` (a filter holds exactly the eligible codes among the
lines read; in pass 2, of the whole file) and `CandidatesExact` (candidates
come from the file's own lines, and every line read whose code is in another
file is one). The lemma `ValidIsShared` gets `Valid = Shared` from it once all
goroutines are joined: a false positive adds a bit in one file only.
`Exactness` is `[]ScanIsExact`; `Promise` is `Spec => KeepsPromise`, the
refinement of `CouponImport`, step by step under the invariant.

**`RateLimiterProofs`** (assumes `LimiterAssumption`: a positive window, a lag
below it). `LimiterInv` is `TypeOK` and `Timely` (clock readings and ticks are
no older than the lag, and an entry is not older than the last tick allows nor
begins in the future).
`ChargesBounded` is `[]TypeOK`, whose counters range over `0..Max`: `Admits`
implies that the current count is below `Max` even when the weight of the
previous window exceeds one. `Eviction` is `[]StaleEntriesGo`.

What was let through in a span of time is a sum over the history variable
`admitted`. `HistoryInv` ties it to the entries: an entry counts at least the
requests since its window began, but for those that a misaligned window borrows
from the one before (`Borrowed`, at most the previous count less one); it counts
no more than were let through since its window began, give or take the lag;
nothing is let through in the future; and a client without an entry has nothing
recent. `WindowBounded` (`[]WindowBound`, for a positive `Max`) adds the two
counts, each at most `Max`. `RefusalsEarned` (an action property) goes the other
way: the estimate that refused is at most what the two windows hold (`Outweighs`).
It covers rotations, evictions and requests that are decided after a later one.
For one that read the clock `late` ticks before the current window began, the
weight of the previous window is more than one, `(Window + late) / Window`; such
a request may be refused after fewer than `Max` were let through, and no fewer
than that weight explains. As `late` is less than a window, they are more than
half of `Max` (`LateHalf`).

**`HealthProofs`** (assumes `HealthAssumption`: positive thresholds).
`TypeCorrect` is `[]TypeOK`: saturating counters, for any number of `Start`s.
`FlagsFollow` is `[]FlagFollowsResults` under `OneStart`, a single call of
`Start`, as the application makes it. Its invariant `FlagInv` has `Follows(c)`:
the flag says whether the counter is below the threshold *at all times*; the
counter holds the failures in a row between two runs, and during a run it lags
by exactly the result that came last. `Uncalled` (no runner before its `Start`)
lets `Start` happen between two runs.

**`LifecycleProofs`** (assumes `LifecycleAssumption`: times are natural
numbers). `TypeCorrect` (`[]TypeOK`, which says what becomes of the pool on
every way out of `Run`) and `PoolOutlives` rest on `ServingInv`: `TypeOK`;
`Order` (what the place in `Run` and the place in the drain say of the listener
and the pool); and `Settled` (nothing is served before the listener opens, nor
after `Shutdown` returned, unless it gave up). `DrainFirst` alone assumes
`PollingAssumption` too: the balancer asks more often than the readiness delay
lasts, and a deployment has to see to that. Its `LifecycleInv` adds `Withdrawn`:
while the drain sleeps, a balancer that still believes in the server has not
asked since, so the ticks left of the delay and the ticks since it asked add up
to the delay at least. With the delay over that would be more than its period.

**`GatewayProofs`** (assumes what `Gateway`, `Router` and `SeedDb` assume:
origins have a lower case, which is empty for the absent origin only; a percent
sign that a browser means as one arrives escaped; paths and ids are sequences
over an `Alphabet` that has the words of the routes; the documents that are sent
as bodies and the lines of an order are finite). The catalogue, the calls,
the visits, the configurations and the number of exchanges are arbitrary. An
exchange is a record of eighteen fields that each layer changes a little; the
lemmas `…Moves` say which, and each invariant is kept by what a layer leaves
alone. All of them speak of the entries of the cache too.

- `TellInv` (theorem `StatusesTold`): what has been sent, recorded and suffered
  at each stage. `MetricsTrue` (`[]RecordedAsSent`) follows; it needs that a
  body can only break off after the status of the operation went out.
- `WayInv` (`RoutedRight`): an operation that is served has a leaf of the router
  behind it, and the label is what `FindPath` made of the same URL.
- `AskedInv` (`RequestsWellFormed`): a request for a product is the URL of its
  id, or, when a redirect was followed (an id of dots), a path too short to
  name a product. From `WayInv` and `AskedInv`, `LabelsTrue` (`[]LabelIsRoute`)
  and `IdsSurvive` (`[]IdSurvives`). The first is `RoutersAgree`: `ServeHTTP`
  unescapes where the normalised path holds an escape, `FindPath` where the URL
  came with a raw path, and on paths without a bare percent sign the two
  conditions make the same argument. The second is `ProductArgument`: characters
  six and following of the path, whatever way it was decoded.
- `FramedInv`: behind CORS the headers are those of the request's origin, or the
  answer comes from a cache under a bare wildcard. `AnswersAreReadable` and
  `CacheReadable` are the two properties; `MatchIs` says what the map of origins
  amounts to: the last listing before a wildcard that names the origin in
  whatever case, in the spelling it is listed in.
- `SeedInv` (`KeyComesLast`): the rows below the place of a run are stored, and
  where there is a key there is the whole catalogue. `KeyedInv` adds that an
  authorised order found a key, and that keys once stored never leave no key;
  `CatalogSeen` is `[]AuthorisedSeesCatalog`.
- The codecs, for documents of any length. A
  decoder is a `FoldLeft` over pairs or elements that carries a *set* of structs
  (none when decoding failed). `ChainOf` unrolls such a fold; `ListChain` and
  `ObjectChain` say what comes out: the lists of what the elements decode to,
  and the structs whose slots hold what the *last* pair with their key says
  (`Readings`), with the required ones filled. From them a lemma per schema
  (`DecodeProductIs`, ...), and with `JoinChain` for the encoders' side the round
  trips `FlatTrip`, `ProductTrip` and `OrderTrip`: decoding what was encoded
  gives that value and no other.
- `PostedInv`: what the handler was given is a reading of the one document that
  was sent. `OrdersRead` is `[]OrdersAsSent`: the coupon and every line are those
  of the body, whatever other keys it has and however often it repeats one.
- `CarriedInv`: what is on its way to the client (status, type, body) is the
  encoding of what the handler said, or an answer of a layer or of the error
  handler that no schema reads as an answer. Only an unclean path is
  redirected, and that of the orders is clean (`CleanOrder`), so the operation
  that is served in the end takes the method of the one called. What the handler
  says decodes to itself (`AnswersProper`), and statuses are expected for one
  type only (`StatusesExpected`). `ClientsNeverMistaken` is
  `[]ClientNeverMistaken`.
- `CountedInv`: `FindPath` finds one route at most (`OneRoute`), and only the
  statuses of the operations are counted. `TypesKept` is `[]TypeOK`, which also
  says that the client gets one value at most.

**`FoldLemmas`**. The library's induction theorems take an operator, which the
provers cannot instantiate. Here a predicate is the set of what it holds of:
`NatSet` (induction on the naturals) follows from the fact that a finite set has
no injection into a smaller one, `FinSet` (on finite sets) from that, and then
folds exist (`FoldExists`), are unique (`FoldIs`) and, where their steps
commute, go in any order (`FoldCommutes`). `SumFacts` and its kin do the sums.

Every invariant of the passing runs is thus a theorem. Model-checked only is
liveness (no proof system for `ENABLED`).

## Not modelled

- HMAC of keys (a hash stands for its key), scopes, formats, the values of
  headers other than those of CORS, metrics beyond route and status, logs,
  spans: no decision of the program depends on them beyond what is kept.
- The options, servers and plumbing of `oas_cfg_gen.go` beyond what the three
  operations use of them: dashboards, container files, CI.
- Floating point: the rounding of the limiter's `float64`, and prices that leave
  the server as `float32` (handler/product.go:50), which from 131072 on cannot
  hold every cent. `Wire` carries numbers as they are.
- Steps of the wall clock (`Truncate` strips the monotonic reading); how many
  clients come in between two cleanups.
- In `SeedDb`, a statement that is executed after the tool is gone, and a second
  run with another key: the one row "default" then has the new key only, and the
  old key is refused from there on.
- Two `Start`s in the passing runs of `Health`: the counters are then written
  by two goroutines without synchronisation; the application calls `Start`
  once.
- In `Health`, what an answer shows of a check while its run is half-way: the
  error is stored before the flag, so a check that has just recovered may be
  reported unhealthy without an error. health.go:264 has a text for that.
- The health endpoints inside `Gateway` and `Lifecycle`: there they may answer
  200 or 503 at will, and `Health` says when they do.

## Plan

Done so far, in this order: `Pricing`, `Checkout` with its bound on
redemptions and its abstract specification `OrderLedger`, `CouponIngest` with
the abstract `CouponImport`, `RateLimiter`,
`Health`, `Lifecycle`, and `Gateway` over `Wire`, `Router`, `Cors` and `SeedDb`,
each with its proofs. What follows:

1. `Lifecycle` composed with `Health`, and `Checkout` behind `RateLimiter`, if
   the state spaces allow.
