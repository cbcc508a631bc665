# Commission quote app: specification and proofs

A TLA+ development of the program in `src/`: modules that model its components, TLC configurations
that check them on small instances, and theorems about them that TLAPS checks for every value of the
constants. `PROJECT.json` lists every run, mutant, theorem, finding and hazard, and for each
definition the lines of source it stands for. Paths below are relative to `src/`.

1. [The system](#1-the-system): inventory of components, their state, operations and hard parts
2. [Modules and the code](#2-modules-and-the-code)
3. [Runs](#3-runs): what each checks, its bounds
4. [Disagreements found](#4-disagreements-found)
5. [Fairness](#5-fairness)
6. [Proofs](#6-proofs)
7. [What is left out](#7-what-is-left-out) and the assumptions of the models
8. [Plan](#8-plan)

## 1. The system

A staff member signs in from a browser, enters a loan, and gets a commission quote that an external
vendor (cqapi) computes. Creating a quote at the vendor is billable and **not idempotent**.

```
browser (web/src) -> edge (nginx) -> BFF (cqappbff) -> Middleware (cqappmiddleware) -> vendor (cqapi, mocked by cqapimock)
   tabs, cookie       static+/api     sessions, token     auth, validate, Breaker(Retrier(client))
```

| component | state it keeps | operations | calls |
|---|---|---|---|
| Web app (`web/src`) | per tab: who is signed in, the form, the quote, its calls under way | load session, sign in, sign out, submit, edit | BFF over `/api`; the tabs share the browser's cookie |
| Edge (`deploy/nginx.conf`) | none | serves the app, proxies `/api/` with a 30 s read timeout | BFF |
| BFF (`internal/cqappbff`) | session store: id -> staff, expiry; one lock per operation; nothing persisted | SignIn, CurrentSession, SignOut, Quote | mints a token per quote, calls the Middleware (8 s) |
| Middleware (`internal/cqappmiddleware`) | the circuit breaker, shared by all requests, in memory | authenticate, entitle, validate, quote | the vendor, with retries inside a 6 s request budget |
| Vendor mock (`internal/cqapimock`) | a random source under a mutex | check the API key, inject faults, price | none |
| Platform (`internal/platform`) | none that changes, except the server's lifecycle | error envelope, timeouts, tokens, money, staff directory, configuration, server | used by the three services |
| Tools (`cmd/devstaff`, `cmd/devtoken`) | the two fixture files | append a staff member and a credential; mint a token | files |

### Circuit breaker (`internal/cqappmiddleware/breaker.go`)

*State*: `state`, the last `Window` outcomes, `openedAt`, `successes` and `inFlight`, under one mutex.
*Operations*: `reject()` before a call and `record()` after it; the call itself is outside the lock.
*Hard*: any number of calls can move the circuit between the two halves of one; early returns in
`record()` after it has given the slot back; late outcomes of calls admitted before an opening;
opening and half-opening by time. *Correct when*: slots are counted exactly, probes are a trickle,
evidence of one era is never used in the next, the wait it advises is honest, and a settled vendor
settles the circuit.

### Retrier and vendor client (`retry.go`, `vendor.go`)

*State*: the loop's locals, the request's context. *Operations*: attempt, classify, back off, wait,
give up. *Hard*: a timeout leaves the vendor's side in doubt and the quote is not idempotent; the
budget is shared by attempts and sleeps; `Retry-After`; a caller that disconnects. *Correct when*: a
second quote is only ever created behind an ambiguous failure, a retry always has budget left, the
vendor's `Retry-After` is honoured, and no request waits for an attempt it cannot make.

### Middleware quote path (`handler.go`, `router.go`, `platform/httpx`)

*State*: none of its own. *Operations*: authenticate the bearer token, check the scope, decode and
validate, call the breaker, write a quote or the error envelope with `Retry-After`. *Hard*: the
deadline comes from a `Timeout` middleware around everything; an error has to be the right code, once;
what one request does to the shared breaker depends on every path of the retrier. *Correct when*: the
breaker hears of each request exactly once and in time, the circuit opens on failures of the vendor,
and the answer carries the wait the breaker computed.

### BFF sessions and handlers (`session.go`, `router.go`, `auth.go`, `quotes.go`)

*State*: the session map. *Operations*: `Create`, `Get` (which removes an expired session), `Delete`
and the four handlers. *Hard*: `SignOut` is two critical sections; `Quote` checks the session, then
spends seconds in the Middleware; a connection may be gone when a handler answers; a restart forgets
all. *Correct when*: a sign out that was carried out is final, and a session is never taken for
somebody else's. The Middleware client maps statuses to the browser's errors, a Middleware 401 to
502; `Authenticate` compares a password hash, with a decoy for unknown ids.

### Web app (`web/src/App.tsx`, `api.ts`, `components`)

*State*: `staff`, `loading`, Quoting's `quote`, `values`, `errors`, `failure`, `forbidden`, and promises under way.
*Hard*: an answer may arrive after the component that asked is gone and somebody else has signed in;
buttons that stay enabled; the cookie is the browser's, the name on the screen the tab's. *Correct
when*: the person on the screen is the person the cookie stands for, a quote is shown to the person
it was made for, and what the banner says of a failure is true.

### A request's own way (`web/src/validation.ts`, `QuoteForm.tsx`, `validate.go`, `vendor.go`, `cqapimock`, `platform/money`)

*State*: the form's texts, its errors, the quote shown. *Operations*: three validators of one request, on
the text typed, on the JSON another program made of it, and on the amount written out again with two
places; the price; the figures back. *Hard*: floats and regular expressions on one side, exact decimals on
the other; bounds, ties, zeros before and behind; a form that stays open while its request is under way.
*Correct when*: what one layer lets through the next does too (a vendor 400 is defined to be our bug), the
details name exactly what stands in the way, the figures shown are the vendor's and its price the
contract's, and the summary shows what the quote was made from.

### Tokens and entitlement (`platform/authtoken`, `auth.go`, `entitle.go`, `cmd/devtoken`)

A token per request, signed by the BFF, life one minute, checked with a skew allowance. *Hard*: two
clocks, either of which may be set; dates in whole seconds; a directory that is read once and a token that
asks for itself. *Correct when*: no token the BFF sends in time is refused, none is good beyond its life
plus the allowance, and entitlement is the directory's, never the token's.

### Staff fixtures (`platform/staffdir`, `cmd/devstaff`, `auth.go`)

Two CSV files that must agree: directory and credentials. *Hard*: the tool checks, then appends to one
after the other; two runs, a crash or a failure between the two; a field that breaks the line.

### Vendor mock (`internal/cqapimock`)

*State*: a random source under a mutex. *Operations*: check the key, draw a request's fate, sleep, fail or
price. *Hard*: a fate takes two or three values of the stream; a caller that gives up during the sleep; the
Middleware's retry rule takes a 503 at its word. *Correct when*: a seed and the order of requests fix every
fate, a 503 has made no quote, and no path keeps the lock.

### Configuration, lifecycle, observability

`platform/config` gathers all errors of the environment. `httpx.Serve` serves until a signal, then drains
for 10 s: long enough for what is in hand only because the budgets of a request are shorter. Logging,
telemetry, correlation and health observe and decide nothing.

## 2. Modules and the code

```
Httpx <- VendorClient <- Retrier <- Middleware -- INSTANCE --> Breaker <- BreakerRecovery
  ^                                     ^                         ^
Journey <- JourneyProofs         MiddlewareProofs           BreakerProofs
  +-- INSTANCE --> QuoteService

Money <- QuoteRequest <- QuoteRequestProofs      Auth          <- AuthProofs
Sessions              <- SessionsProofs          CqapiMock     <- CqapiMockProofs
                                                 StaffFixtures <- StaffFixturesProofs
```

**`Breaker`** models `breaker.go`. `Calls` are request goroutines inside `Breaker.Quote`. Under the
lock a call does all of `reject()` in one step, `Admit` or `Refuse`, and all of `record()` in one step,
`Record`. The fields are the variables `state`, `outcomes`, `sinceOpened` (the clock minus
`openedAt`), `successes` and `inFlight`. `Tick` advances the clock; `age` says how long a call has been
out, and no call is older than `CallBound`, the request budget. `told` (the wait a refused caller was
given) and `stale` (calls admitted before the last opening) are history. A threshold is the fraction
`ThresholdNum/ThresholdDen`, compared by cross-multiplication. `HalfOpenIfCooled` is `reject()`'s own
state change, before the decision; `ProbesBusy` its second refusal; `ShouldTrip`, `Remembered`,
`EnterOpen`, `EnterHalfOpen`, `EnterClosed` are `record()` and `enter()`.

**`BreakerRecovery`** adds the vendor's health, which is `mixed` for any time and then settles `up` or
`down`, and with it what a call can return; it states the liveness of the breaker.

**`Httpx`** has the errors of the quote path as records (code, status, marker, wait). **`VendorClient`** is `vendor.go`: `TransportError`
and `Translate` from what the network or the vendor did to the error and its marker `ErrTransient` or
`ErrRequestFault`.

**`Retrier`** is the loop of `retry.go` for any number of concurrent requests, with the vendor and the
network it meets. An attempt ends by `Responded`, `Expired`, `Canceled` or `NetworkFails`; `AfterAttempt`
is what the loop then does: return, retry at once, or sleep (`Backoff`), with the jitter drawn from
`Jitter`. `Wake` and `SleepAborted` are the two branches of `sleepCtx`. `VendorCreates` is the moment the
vendor's handler runs; `made` counts its quotes.

**`Middleware`** composes `Breaker(Retrier(VendorClient))` as `NewRouter` does. It extends `Retrier` and
instantiates `Breaker` with `Calls <- Requests`, `age <- used`, `CallBound <- RequestBudget` and `pc`
computed from the retrier's stages; `Finish` is the retrier's return, `record()` and the answer in one
step, because nothing shared happens between them.

**`Sessions`** is `session.go`, the four handlers of `router.go`, the cookie, and the tabs. A call of the
web app goes through `sent`, (`working`,) `answered`, `received`; `Send` attaches the cookie as it is then, `Headers`
applies `Set-Cookie`, and the tab's continuation is a later step (`Loaded`, `SignedIn`, `SignedOut`,
`Quoted`, `SessionLost`, `NotQuoted`, `Broken`). `mounted` says whether the Quoting that sent a quote
still exists: a `setState` of one that does not does nothing, but `onSessionLost` is `App`'s and works.

**`Journey`** is one submission of the page after another, through BFF and Middleware and back. `page`
and `shown` are `submit()`'s promise and what `handle()` makes of its error; `bff` and `mw` are the two
handlers, `bffAge` and `mwAge` the clocks of their deadlines, `front` and `back` the connections between
them. A connection can break, which both ends notice (`FrontBreaks`, `BackBreaks`, then `BFFNotices` and
`MiddlewareNotices` cancel what runs), or fall silent, which nobody does: then only a timer ends the wait.
The BFF's `Rewrite` is `quotes.go`'s `rewrite`. `Signal`, `Exit` and `StartAgain` are `Serve`. The time the
Middleware spends with the vendor is one stretch within `RequestBudget`, which `Retrier` shows it keeps to.
`Due` lists what does not wait for the clock.

**`QuoteService`** is the abstract specification of all that: a submission is asked, decided once, and
told; connections break or fall silent; nothing else. It has no layers, deadlines or messages. `Journey`
implements it with `verdict` the view of what the Middleware answered (or of a missing session), `working`
the submissions in hand at either service, and `broken` and `silent` what either connection suffered.

**`Money`** is `platform/money` as operators on decimals `units / 10^places`, and on texts by their shape,
value and places. **`QuoteRequest`** follows one request: `Type` and `Submit` are the form and `submit()` with
`validate()` (`PageErrors`), `PageBody` what `Number` and `JSON.stringify` make of it, `ClientPosts` another
client's JSON, `Validate` the Middleware's handler up to the vendor (`ValidationErrors`), `VendorBody` the body
sent, `VendorAnswers` the mock's handler and `Generate`, `Decode` what `translate` and `decode` make of the answer
(`VendorAnswersOddly` is a vendor with habits of its own), `Receive` what the page shows.

**`Auth`** counts time in ticks of the BFF's clock since a token was minted, several to a second, with the
Middleware's clock `skew` ahead. `Minted` cuts the dates to whole seconds as `NewNumericDate` does, `InLife` is
the parser's check with leeway, `Arrive` is `Authenticate` and `Authorise`. `ClockIsSet`, `MiddlewareRestarts` (with
another directory) and `SessionsChange` happen at any time.

**`CqapiMock`** has one goroutine per request, with a step for each value `draw()` takes, so that what the lock
is for is visible. `taken` is the part of the stream used, `order` the order in which requests took the lock.

**`StaffFixtures`** is `devstaff` and what the services make of its two files. A line stands for the run
that wrote it, so a file is a set of runs; `args` is what the operator typed. `Check` is `run()` up to the
look-up, `AppendStaff` and `AppendCredential` its two appends, `Fails` every way it can end in between,
a write cut short included. `StaffParses`, `CredentialsParse` and `FixtureAuthAccepts` are the checks of a
start; the BFF reads the directory (`LoadStaff`) and later the credentials (`LoadCredentials`).

## 3. Runs

Counts are of distinct states.

| run | what it asks | bounds and why they suffice |
|---|---|---|
| `breaker` | slots, probes, staleness, advice, window and successes under every interleaving | 4 calls, window 4, 2 probes: stragglers, probes and refused callers at once; more probes than one so that a trial can be half done; the open period (4) longer than a request (3), as in the default configuration (10 s, 6 s) |
| `breaker_recovery` | the circuit closes for good after the vendor settles up, opens after it settles down | 3 calls, window 2; the open period is *shorter* than a request, the hard case: late answers of the outage reach the half-open circuit |
| `retrier` | duplicates, budget, `Retry-After`, sleeps | the default shape: 3 attempts of 3 ticks in a budget of 9, backoff windows of 2 and then 3, the cap, `minAttemptBudget` 1, a vendor that asks for nothing, 1 or 4 ticks; requests share nothing, so one suffices |
| `middleware` | the composition implements `Breaker`; why it opens; who still calls while it is open | 2 requests of 2 attempts in a budget of 3, the circuit opens on half of two outcomes and for 4: one request can be retrying while the other opens it, and a full cycle of the states is reachable |
| `sessions` | nobody is taken for somebody else; a sign out that was carried out is final | one tab, 2 people, 2 session ids, 3 calls under way, TTL 1: two sessions after each other, with a late call of the first, a call of the second and a second sign out at once |
| `journey` | that the layers together are `QuoteService`, that drains cut nothing, and that the page is answered | 2 submissions, the second can meet what is left of the first; deadlines of 2 and 3 and a grace of 4: nested as 6 s, 8 s and 10 s are, with one tick to spare, so that one less is seen |
| `fixtures` | the two files agree, on disk and in a serving BFF; services start from what is left behind | two runs beside the committed lines, the same or different ids, every way to type them: check and append of one between those of the other, around both reads of a start |
| `requests` | what one layer lets through the next does too; exact details; prices and figures | 12 amounts and 12 terms typed, 23 and 24 posted: every bound and its neighbours, whole years and the cap, a tie, zeros before and behind, three places, a sign, an exponent, a text too long, every JSON type; 6 answers the mock would not give |
| `tokens` | no token in time refused, none good for more than its life and its subject's scopes | half seconds; a life of 3 s into which a wait of 2 s and the lost second just fit; clocks apart by up to 1.5 s with a leeway of 1 s, so that the leeway is both enough and exceeded; lives of none, less than none, odd and longer |
| `vendor_mock` | fates fixed by seed and order, honest statuses, every request ends | 3 requests: one draws between the values of another while a third waits; values 0 and 1 decide every rate and two latencies |
| `caller_trips`, `summary_edited` | one claim of the repository each, that the code does not keep | as above, the smallest that shows it |

The states: `requests` 785,000, `tokens` 1.4 million, `vendor_mock` 524,000, `journey` 982,000.

Symmetry is used only where invariants or action properties that treat the elements alike are checked,
never with liveness. Deadlock is checked everywhere but in the fixtures, where the system may stop (with
files that do not parse nothing starts until somebody edits them), and in the mock, which is idle when every
request has been answered.

The properties, by what they protect:

* *Breaker.* `InFlightExact`: `inFlight` is the number of calls between `reject()` and `record()`.
  `ProbesTrickle`: a half-open circuit has at most `Probes` new requests out. `NoStaleEvidence`: no answer
  of a call admitted before an opening is counted in a later era. `AdviceHonest`: a caller that waits as
  long as it was told is not refused by the same opening. `WindowCurrent` and `SuccessesOfThisTrial`:
  what counts toward a transition belongs to the period it ends. `Recovers`, `TripsInOutage`: liveness.
* *Retrier.* `NoNeedlessDuplicate`: one quote, plus at most one for each attempt that timed out or was cut
  off after the vendor's handler ran. `RetryHasBudget`, `RetryAfterHonoured`, `SleepNotCutShort`: the three
  things that share the budget do not steal from each other.
* *Middleware.* `ImplementsBreaker`: with the real retrier inside, the breaker is the one `Breaker` specifies,
  with `CallBound` the request budget. `OpensForCause`: it does not open on request faults alone.
  `OnlyStragglersCall`: with the circuit open the vendor is called only by requests admitted before it
  opened, and not once a request budget has passed.
* *Sessions.* `SignOutInvalidates`, `OwnSession`, `QuoteIsOwn`.
* *Journey.* `ImplementsService`: with connections that deliver, the page shows what was decided and never a
  timeout of a layer around it; no fault behind the BFF sends somebody with a session to sign in, or shows a
  quote, or field errors; when the form comes back to life nothing is at work for the last submission, unless
  a connection broke, also behind one that fell silent. `DrainCutsNothing`, and `PageIsAnswered` (liveness),
  through restarts.
* *Requests.* `NoDrift`: neither does the Middleware send back what the page let through, nor the vendor what
  the Middleware did. `SameVerdict`: nor does the page refuse what the Middleware would take, and on plain numbers
  they name the same codes. `DetailsAreExact`: the details are the fields to set right, all of them and no others.
  `PricedByContract`: rate and commission against a definition without division, to the half cent.
  `FiguresAreVendors`: the figures are not changed by reading and writing them, and an unusable one is no quote.
* *Tokens.* `InTimeIsNot401`, `GoodForNoMore`.
* *Vendor mock.* `FateBySeedAndOrder`, `StatusTellsTheTruth` (which the retrier's `NoNeedlessDuplicate` takes for
  granted), `EveryRequestEnds` (liveness).
* *Fixtures.* `NoOrphanCredential` and `NoCredentialWithoutIdentity`: nobody has a credential and no identity,
  on disk and in memory. `StartableUnlessMishap`: what devstaff leaves behind, a half-added person included, does
  not keep a service from starting, with three exceptions that are named. `ComesUp` (liveness): a start that met a
  run half way is not final.

Every property has a mutant in `PROJECT.json`: a change of one mapped definition, the way a bug would
make it, under which the run fails.

## 4. Disagreements found

Each is a run that must fail and an entry under `findings`.

* **A caller that hangs up counts against the vendor** (`caller_trips`). `context.Canceled` reaches
  `record()` as a failure; enough abandoned requests open the circuit of a healthy vendor.
* **The summary shows the form, not the quote's input** (`summary_edited`). While a request is under way only the
  button is disabled. An amount edited before the answer arrives stands beside the quote of another amount.

Others were met and have no run of their own; the first four are stated in the modules.

* `OnlyTimeoutsDuplicate` (`Retrier`): `vendor.go:163-164` says that a reset before headers proves that no quote
  exists. A reset after the handler ran is the same error, and the retry makes a second quote without any timeout.
* `FailureMeansNoQuote` (`Retrier`): "No quote was created" (`App.tsx:115`) is said after timeouts, 500s and
  unreadable 201s, all of which can have left a quote.
* `ExpiredMeansExpired` (`Sessions`): a 401 for a quote of somebody who has signed out takes the next person,
  whose session is alive, back to the sign in form (`App.tsx:99`).
* `DuplicateRefused` (`StaffFixtures`): an id typed with a space before it passes `devstaff`'s look-up, is trimmed
  into a duplicate, and no service starts until the file is edited.
* "Trailing content after the object is not a valid single request body" (`validate.go:68`), but `dec.More()` is
  false before a `}` or a `]`, and a body followed by one of them, and anything after it, is accepted.
* The codes differ at the edges: a term of `-6` is invalid to the page and out of range to the Middleware, a term
  of `true` or `1e1` "not an integer" to the Middleware and invalid to the page, a text of more than 32 characters
  invalid to the Middleware and out of range to the page. Both refuse all of them (`SameVerdict`).
* A vendor that wrote a rate with more than four places would have it rounded on the way out, while
  `vendor.go:227-229` says its figures are not recomputed. The published rate has four.
* `Load` accepts `Window = MinSamples = 0`, with which the failure rate is 0/0 and the circuit never opens;
  `contract.md:273` says startup refuses such a breaker.
* It accepts a threshold of 0 as well (`config.go:93-98`), with which a full window of successes opens the circuit.
  `OpenedByFailures` supposes more.
* `breaker_test.go:116`, "While open, nothing reaches the vendor", is true of new requests only, as
  `OnlyStragglersCall` says precisely.
* `WriteError` rounds `Retry-After` down (`errors.go:202`), to 0 in the last second; the BFF drops it anyway.
* `QuoteSummary.tsx:19` says "Signed in as" with the tab's own copy of the name. The token is for whoever
  holds the browser's cookie: with two tabs `QuoteIsOwn` fails.
* `contract.md:245` lists a 10 s abort of the front end that `api.ts:32` does not have. A page whose
  connection falls silent waits as long as the browser does, which is why `PageIsAnswered` excepts it.
* A 200 whose body is lost becomes a null quote (`api.ts:48`): neither a quote nor an error is shown.
* `cmd/cqapp-bff/main.go:68-69` says that the services "cannot disagree about who exists" because they read
  the same file. They read it when they start, and a service restarted after `devstaff` has run knows more.
* `SessionStore.Count` counts expired sessions nobody has asked for.

## 5. Fairness

`RecoverySpec`: `CodeFairness` is the code's own: the clock advances, and every admitted
call returns, because its context has a deadline (`httpx.Timeout`) and `http.Client` a timeout.
`UserFairness` is about the callers: a refusal does not keep its caller for ever, requests keep arriving,
and valid requests that a healthy vendor prices are among those completed infinitely often (strong
fairness: a vendor whose every answer is a request fault gives the breaker no evidence at all). Nothing
is assumed of the vendor after it has settled down, nor of the order in which callers come.

`JourneySpec`: handlers run on and connections that are neither broken nor silent deliver (`Handled`), a
drain that is over ends (`Exit`), and time passes when nothing is due, so that deadlines are reached. The
operator, the user and every failure are free, and nobody need start the BFF again.

`MockSpec`: goroutines run on, the mutex is handed to whoever waits for it, and timers fire. No caller need
give up, and none need arrive.

`FixturesSpec`: a service that is down is started (`restart: unless-stopped` in `deploy/compose.yaml`) and a
start that has begun ends. Nothing is assumed of `devstaff`, nor that anybody repairs a file.

## 6. Proofs

For every number of calls and every configuration the assumptions admit.

**`BreakerProofs`** assumes what `Load` ensures (`ConfigAssumption`) and finite `Calls`. Two strengthenings carry it. `Counted`
is the types together with `InFlightExact`: a slot is given back only by a call that holds one, so the
count never passes below zero, and neither is inductive alone. `Dated` orders the clocks: while
the circuit is open, every call that is out is from before the opening and at least as old as it
(`age >= sinceOpened`), and every refusal of the opening was told enough (`told + sinceOpened >= OpenFor`).
The first gives `EvidenceFresh`: once the circuit has cooled, `sinceOpened` is `OpenFor`, and
with `OpenFor > CallBound` a call from before would have to be older than any call can be. The second gives
`AdviceKept`, and the first again `TrickleKept`. The hypothesis `OpenFor > CallBound` is needed: TLC
refutes `NoStaleEvidence` at `OpenFor = CallBound`. The defaults (10 s and 6 s) satisfy it; `Load` does not
check it. `SuccessesKept` needs `Probes >= 1`, which `Load` does not check either: with none, a half-open
circuit lets nobody through, and the only thing that can close it is the late answer of an old call.

**`MiddlewareProofs`** begins with the retrier and proves one invariant of it, `IInv`: the types, and for each request `Sound(c)`, of four parts.
`Accounted` ties the vendor's quotes to the attempts: before the next attempt, each is behind a timeout or a
cut connection, and during one its own handler may add another. It is needed because `NoNeedlessDuplicate`
allows one quote that nothing explains, and an attempt begun in that state could make a second: that no such state is
retried is what `Translate` marking only some failures transient has to ensure. `Budgeted`: a sleep ends
with more than `minAttemptBudget` to spare. `Patient`: the sleep covers what the vendor asked. `Hopeful`: whoever sleeps has an attempt left.
The theorems `RetrierTyped`, `DuplicatesExplained`, `BudgetKept`, `VendorNotHurried` and
`SleepsEndByThemselves` follow from it.

Its second half is the composition. `RetriesAsSpecified`: every step of the stack is one of `Retrier` or leaves it
alone, so all of the above holds inside the breaker. `StackImplementsBreaker` shows the refinement action by action.
It needs `IInv`, because a call of `Breaker` may not grow older than `CallBound`: that a request is never in the
loop beyond its budget is the retrier's doing. It also needs `Apart`, that a request holding a refusal is not in the loop as
well. `OnlyOldRequestsCall` rests on `Late`: while the circuit is open, every request in the retrier is from before
the opening and has used at least as much of its budget as has passed since. `OpenedByFailures` rests on `Caused`:
a failure in the window has somebody behind it. `BreakerProofs`' theorems are about `Breaker`; they reach the stack
through the refinement, and are not restated for it, since the prover does not instantiate another module's theorems.

**`JourneyProofs`** assumes that the budgets nest: `RequestBudget < BFFTimeout` for all of it, and
`BFFTimeout < Grace` for `DrainKept` and `ServiceImplemented` (6 s, 8 s and 10 s; `Load` checks neither). `JourneyInv` says of each submission how
its two handlers' stages, clocks and answers and the two connections belong together. The first inequality makes the BFF's
own deadline strike only when a connection has failed, so that no timeout of a layer is shown in place of a decision;
the second makes `Exit` find nothing in hand, so that in the abstract service a shutdown is a stutter. With both,
every step of `Journey` is a step of `QuoteService` or none: `ServiceImplemented` covers the whole of `ImplementsService`.

**`SessionsProofs`** takes any number of people, ids, calls and, but for the last two theorems, tabs. `TabsInv` says
which calls can be under way together and what the tab of each looks like: a tab that loads waits for one answer only,
one that somebody is signed in on waits for no sign in. It gives the types. `SignedOutForGood` needs of it only that a
stored id has been issued. `OneTabIsOwn` and `OneTabQuoteIsOwn` follow a name from the session's owner through the
answers to the tab (`NamesOwn`): every call that will set a name carries that of the session it will leave in the
cookie. One tab is assumed at one place, where `Set-Cookie` changes whom the cookie stands for; with two tabs TLC refutes both.

**`AuthProofs`**: an answer speaks of the token, the clocks and the directory it was given for, because every other
step withdraws it. What remains is arithmetic on what is lost when a date is cut to whole seconds
(`WholeSeconds`): less than one second, which is the one that `AuthAssumption` leaves between the BFF's
timeout and the life of a token.

**`CqapiMockProofs`**: the lock makes the draws one behind the other. Who holds it is last in the order, what is used
of the stream ends where its draws so far end, and all before it have drawn all of theirs (`LockOK`, `ChainOK`,
`PastOK`). What is used never changes again, so a fate read off it once can be read off it for ever. `order` keeps
with each request where in the stream its draws began, as history, so that the property needs no recursion.

**`StaffFixturesProofs`** takes any number of runs of `devstaff`, any ids and any way to type them. That nobody has a
credential on disk without a row is not inductive: `WritesInv` says of each place in `run()` what the run
has written by then, and that what a run typed no longer changes once it has a line. That a serving BFF
knows everybody it has a credential of (`IdentitiesServed`) needs nothing of the files, only the check of
the start: a directory read before a concurrent append is refused with the credentials read after it. `StartsUnlessMishap`
needs of the names what the look-up ensures as long as no two runs raced (`NamesOK`): runs that are under way have
different ids, the id of a run past its look-up stands in no line, and lines without padding are distinct.

**`QuoteRequestProofs`** takes any texts, any bounds and any vendor's answers. A text that is let through has at most two
places, so of the powers of ten only a few occur, and `RendersExactly` (what has few enough places is written without
rounding), `CanonicalKeeps` (`JSON.stringify(Number(t))` keeps the value) and `InRange` are case distinctions. With
these the two validators and the vendor's checks come down to one predicate, `Sendable`. `RequestInv` says
what each stage of a request has been found to be. `NothingDrifts`, `VerdictsAgree` and `DetailsNameAllAndOnly` follow,
and `PricedAsContracted`, where the mock's division of months and its rounding are compared with the contract's
definition without division (`RateOfContract`, `GeneratedAnswer`). `FiguresAsAnswered` supposes that the vendor
writes no more places than the wire format has (`WireForm`, `contract.md:27-28`): a figure with more is rounded.
`RequestAssumption` says of the vendor's texts what it says of other clients': they stand in JSON, which has no padded numbers.

Every invariant and every action property that a passing run checks is a theorem. Only model-checked are the
liveness properties (`Recovers`, `TripsInOutage`, `PageIsAnswered`, `ComesUp`, `EveryRequestEnds`), which the prover does not do.
No theorem says that a hypothesis such as `OpenFor > CallBound` is needed; where this text says so, TLC has shown it.

## 7. What is left out

Not to be modelled: static files, what `Load` does with the environment (its checks are the modules'
assumptions), `Cents`, `TenThousandths` and `Add` of `money.go`, which only tests use, logging, telemetry, correlation and health (they observe), wording and JSON.

Assumptions of the models, beyond what their comments say:

* The vendor is external. What `contract.md` section 6 says of it is assumed: 502, 503, 504, 429 and the
  4xx mean that the handler did not run, 201 that it did, 500 either.
* A request whose context is cancelled may still reach the vendor: a backoff of zero does not look at the
  context, and the transport may have written the request. This allows more than the code does.
* Timers fire on time: a call ends on the tick its timeout is due, unless something ends it before.
* `Base << (attempt-1)` is taken without overflow; it needs more attempts than a budget has room for.
* A session id is issued once (256 random bits), and a failure of the random source is left out.
* `record()` is not deferred. A panic in between would leak a slot; no statement there was found that can
  panic, so the step is not in the model.
* In `Sessions`, a quote's answer is any of a quote, a 403 or another failure: which one the Middleware's
  error leads to is `Journey`'s subject, where in turn there is one person and one page.
* In `Journey` transit takes no time and deadlines count whole ticks; the edge's own 30 s timer does not fire
  before the BFF's 8 s; a page that was told "not entitled" is not loaded again; the drain is the BFF's.
* In `QuoteRequest` a text is its shape, value and places: what cannot differ between the layers by these is not
  told apart. `MaxAmount` is 40,000.00 in the run, because TLC's integers have 32 bits and a commission is
  computed in millionths; the other bounds and all rates are the program's. One number that is no finite decimal
  cannot arise, because nothing divides. `JSON.stringify(Number(t))` is exact for the amounts the page lets through
  (at most nine digits).
* In `Auth` signatures are ideal, and the leeway is as jwt v5 applies it: before `exp` plus leeway, and not before
  `iat` minus leeway. `AuthAssumption` wants the BFF's wait and one second within `BFF_TOKEN_TTL`; the defaults (8 s,
  60 s) are, `Load` does not check it. A token says nothing of others, so one at a time is followed.
* In `CqapiMock` `Int64N` takes one value of the stream (it may take more, by rejection, which depends on the stream
  alone), and nobody writes to a caller that has gone.
* In `StaffFixtures` `appendRow`'s look at the last byte and its write are one step, a file is read in one
  step, and a service is not stopped in the middle of its start.

## 8. Plan

Done: all modules of section 2, and the proofs of all safety properties that the runs check.

Next:

1. The general lemma on rounding: `RoundHalfUp` is within half a unit for every number of places, which needs that
   powers of ten are positive, an induction that `NaturalsInduction` states with an operator parameter.
2. Types for `QuoteRequest`'s history of a shown quote, and for `Middleware`'s own variables.
3. More of the configuration: what `Load` would have to check for each module's assumptions to hold.

New passing runs replace the failing ones of least interest, so that the list stays short.
