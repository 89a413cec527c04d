# EventTicketingPlatform: specifications and proofs

TLA+ modules, TLC configurations and TLAPS proofs for the ticketing platform in
this repository (Go, Encore, one Postgres database). Paths below are relative to
the repository root.

## 1. The system

| component | code | state it keeps | operations | makes it correct |
|---|---|---|---|---|
| holds | `booking/holds.go` | `tickets`, `holds` | CreateHold, ReleaseHold, GetHold | a running lease is broken by nobody else; all seats of a request or none; both tables agree; a retry makes no second hold; the quota |
| reaper | `booking/reaper.go` | the same tables | ReapExpiredHolds (cron, every minute) | frees lapsed seats only, never a SOLD one, and every lapsed one in the end |
| purchase saga | `booking/purchase.go` | `tickets`, `holds`, `bookings`, `outbox` | Purchase; GetBooking, ListBookings | a sold ticket stays sold; one sale per hold; confirmed means paid; lost seats mean a durable obligation and one refund |
| integrity audit | `booking/integrity.go` | none | CheckIntegrity | reports an inconsistency only when there is one |
| payments | `payments/payments.go` | `payments` | Charge, Refund | at most one charge per key; a recorded outcome is the provider's |
| provider | `payments/provider.go` | the provider's books | Charge, Refund (mock) | external: remembers the result of a key |
| organizer | `organizer/*.go` | `venues`, `seats`, `events`, `price_tiers`, new `tickets` | CreateVenue, AddSeats, CreateEvent, UpdateEvent, PublishEvent | one ticket per seat of the venue; a published venue's seats do not change; every change bumps the version |
| catalog | `catalog/*.go` | two caches, rebuild slots | GetEvent, GetAvailability, GetSeatMap, RefreshAvailability | a read never returns an event older than the version it saw; bounded load on the database |
| search | `search/*.go` | none | Search | pages neither skip nor repeat |
| cursor, seatmap | `internal/*` | none | Encode/Decode, Generate, RowLabel | round trip; unique seats |
| clock | `internal/clock/clock.go` | offset (tests) | Now | moves forward outside tests |
| store | `store/*` | the schema | migrations, GetStats, TruncateAll | constraints; deletion in dependency order |
| identity, health, testsupport, e2e, scripts | | none | | not part of the core logic |

All services share one database at READ COMMITTED. Within booking, requests, the
cron job and other requests meet only in rows: a transaction locks what it
writes, but a request reads its timestamp, its quota count, its priced seats and
its payment outcome in one place and uses them in another. Booking calls payments
outside every transaction, and payments calls the provider outside every
transaction. There is no background worker besides the reaper: a purchase that
dies is resumed by nobody, only repeated by its client under the same
idempotency key. `PROJECT.json` lists the behaviours that are hard to test, each
at its line, and the properties aimed at them.

## 2. The modules

| module | models | correspondence |
|---|---|---|
| `Schema` | the tables of `store/migrations` | a row is a record, a table a function; the CHECK constraints are `TicketChecks`; bookings and payments are keyed by their unique index |
| `Holds` | createHold, releaseHold, the reaper | one action per transaction, or per stretch of work between two of them |
| `Payments` | Charge, replay, Refund, the mock provider | one action per statement or provider call |
| `PaymentsCalls` | payments alone | every call its private API accepts |
| `Booking` | the purchase saga | extends `Holds` and `Payments`; a purchase and its payment call run in one goroutine, so `buy[b]` and `pay[b]` are the two halves of one caller |
| `TicketInventory` | the promise of `booking/booking.go:1-10` | abstract: owners, leases and time; no tables, no requests |
| `Organizer` | CreateVenue, AddSeats, CreateEvent, UpdateEvent, PublishEvent | a statement that sees what others have committed is a step; what a publication inserts stays in its own record until the commit |
| `Audit` | CheckIntegrity | extends `Booking`; one action per query, each on what has been committed by then |
| `RowLocks` | the order in which booking's transactions lock rows | one action per row a statement comes to and per row lock it gets; the transactions of `Holds` and `Booking` with their data left out |
| `Catalog` | GetEvent, GetAvailability, RefreshAvailability, `withDBSlot`, single-flight, both caches | one action per cache lookup, rebuild step and answer; `flights` is `rebuildGroup`, `slots` is `dbFallbackSlots` |
| `SearchPages` | Search's pages, `parseLimit`, `cursor` | one action per page a client asks for; what the filters select is the set `matching`, the statement's WHERE is `Following` and its ORDER BY with LIMIT is `FirstRows` |
| `TableOrder` | TruncateAll, `deletionOrder` | one action per table a pass or the remainder loop visits and per DELETE |
| `Seatmap` | Generate, RowLabel, TotalSeats | one action per row of seats |
| `HoldsProofs`, `PaymentsProofs`, `OrganizerProofs`, `RowLocksProofs`, `CatalogProofs` | theorems | extend the module they name (`PaymentsProofs`: `PaymentsCalls`) |
| `BookingProofs`, `PurchaseProofs` | theorems about sales and leases; about budgets and money | extend `Booking` and each other |
| `SupportProofs` | theorems about the audit, the truncation and the pages | extends `Audit`, `TableOrder`, `SearchPages` |
| `MCHolds`, `MCPayments`, `MCBooking`, `MCOrganizer` | constants and symmetry for TLC | |
| `MCSupport` | constants for TLC | puts the components around the core into one run: they share no state, so each behaviour is a behaviour of one of them, chosen by `part` |

What one step is. A transaction that takes its row locks with its first write and
keeps them to its commit is one step, since no other transaction can act on those
rows in between. What the code reads outside that protection is a step of its own,
kept in the caller's local record and used later:

- `claim[c].now` and the quota answer in createHold (`CreateHold`, `AssertQuota`,
  then `ClaimSeats` or `ClaimRejected`);
- `buy[b].now` in prepareLease, captured before its transaction (`Purchase`, then
  `PrepareLease`);
- `buy[b].seats` and `.total`, priced in prepareLease and sold in convertToSold;
- `sweep[r].now`, one timestamp for a whole sweep of several commits;
- the payment's outcome, between RecordCharge and ConvertToSold or RecordDeclined;
- in `Organizer`, AddSeats's answer that no event of the venue is published (`AddSeats`,
  then `InsertSeats`), and a publication's price check, seat count and new tickets
  (`CheckTiers`, `CountSeats`, `MaterialiseTickets`, `CommitPublish`). The event's row,
  which PublishEvent locks first, is `RowLocked`: UpdateEvent and other publications
  wait for it;
- in `Catalog`, the version a request read first, while the view and the availability
  are looked up, built, cached and shared; a restart loses flights and slots, and the
  cache stays;
- in `Audit`, each query's answer, until the report.

A request can die in any state (`ClaimFails`, `ReapFails`, `PurchaseFails`,
`AddSeatsFails`, `PublishFails`):
process crash, cancelled context, database error, deadlock victim, or the
"unreachable" row-count mismatches of the code. Committed statements stay, and so
does what the provider did.

`RowLocks` opens what the other booking modules take as one step, the waits inside a
transaction. Rows are numbered, tickets before holds; `granted` has the lock modes and
`work[x].left` the rows the current statement has still to come to. A ticket's status and
every time are left out, so a lease may lapse and a claim be refused at any moment, which
allows more interleavings than the code does. One assumption is about the database: the
claim's UPDATE of the holds it displaces (`booking/holds.go:160`, no ORDER BY) takes them
in the order of the primary key, by which it looks them up. All other unordered UPDATEs
take their rows in any order. prepareLease without an extension locks the hold alone and
ends as a `RollBack` does.

Abstractions. Hold tokens are unique per hold, so the token a client sends is
modelled as the hold it was issued for. Generated ids are replaced by what the
unique indexes make of them. `holds[h].seats` is a history field: no action reads
it, properties do. Time is a natural number that advances by one; it never goes
backwards (`clock.Set` and `Reset` can do that, in tests only). The reads that
change nothing (GetHold, GetBooking, ListBookings, the idempotent replays) have no
action. Prices, event membership and onsale times are constants in the booking
modules: nothing in the booking service changes them. `Organizer` has its own tables:
`inventory[e]` is the set of seats for which `e` has tickets, and their later fate is
booking's; `edits` stands for the columns UpdateEvent overwrites; `opening`, the venue's
seats when the publication began, is a history field. The provider may approve, decline or be
unreachable at any call, and its answer may be lost after it acted: the code calls
a transport error ambiguous (`payments/payments.go:97-104`), which the mock, whose
errors never take effect, does not exercise.

## 3. What is checked

Each cfg fixes the bounds; `MaxTime` and `LastCall` end the clock and the arrival
of requests, `HoldIds` bounds the number of holds, `Keys` the number of purchases.

| run | question | result |
|---|---|---|
| `holds_safety` | two concurrent claims, retries of a key, releases and a sweep in batches of one, over two seats and two holds | passes |
| `holds_live` | does an abandoned seat always come back? | passes, with the fairness below |
| `holds_quota` | is the anti-hoarding quota a bound? | **violated**: two requests count before either inserts |
| `payments` | three concurrent calls on two keys, lost answers, deaths | passes |
| `booking_race` | two purchases with two keys for one hold, with sweep, release and a new claim | passes |
| `booking_takeover` | a two-seat hold is paid while another user takes over its seats | passes |
| `booking_lifecycle` | does a converted hold stay converted? | **violated**: a later decline overwrites it |
| `booking_crash` | is money without a booking marked IN_PROGRESS, as the docs say? | **violated**: it is COMPLETED |
| `booking_shared_key` | does the buyer pay for the booking? | **violated** when two users send the same key |
| `organizer` | two events, two publications and two seat imports at once, edits in between | passes |
| `organizer_frozen` | do the seats of a published venue stay as they are? | **violated**: AddSeats looks before the publication commits and inserts after it |
| `support` | the components around the core, each on an instance of its own (below) | passes |

The properties, by hazard:

- *Leases*: `LeaseAgreement` (a HELD seat answers to a hold that was granted it, with
  one expiry in both tables), `LiveHoldIsWhole`, `LiveLeaseKept`, `OneHoldPerKey`.
- *Sales*: `SoldIsFinal`, `OneSalePerHold`, `SalesMatchBookings` (the audit of
  `booking/integrity.go`, seat by seat and with the price), `BudgetProtectsPayment` (D9).
- *Money*: `ChargedOncePerKey`, `OutcomeIsTheProviders`, `RefundsAreOfCharges`,
  `OutcomeIsFinal`, `ConfirmedIsPaid`, `RefundIsOwed`.
- *Publication*: `PublishedWhole` (a publication reads the venue three times while seats
  are added, and still sells all that were there when it began, each with a price),
  `PublishedOnce`, `VersionNamesContents` (what catalog's cache keys rely on).
- *Reports*: `AuditOneSided`. The audit's queries see different snapshots: a sale between
  them, or a refund under way, makes a report inconsistent when nothing is wrong. What
  holds is one-sided: it never counts more sold seats than seats in confirmed bookings, so
  a report that does is evidence of an oversell or a lost record.
- *Lock order*: `ClaimsNeverDeadlock`, for claims among themselves. A claim and a release
  or payment of the lease it displaces can deadlock (opposite orders); the database aborts
  one of them, which is `RollBack`.
- *Cached reads*: `ViewNotOlder` (no client ends a request with a body older than the
  event was when it began, whoever built it), `AvailabilityBounded` (nor with numbers
  older than a TTL and one rebuild, across sharing, refreshing and 304 answers),
  `SlotsAreQueries` (no slot leaks, the limit is kept, nobody waits for a flight that is
  gone), and the liveness property `RequestEnds`.
- *Algorithms*: `PagesExact` (pages of any sizes, with events published and edited in
  between, are in order, never repeat and miss nothing that matched all along),
  `TruncationWhole` (any foreign keys: a legal order, or a genuine cycle), `LabelsSucceed`
  (against the successor of a label, defined without division).
- *Refinement*: `RefinesInventory`. `Booking` implements `TicketInventory` under
  `owner[t]` = the hold or booking of the row, `until[t]` = the lease's expiry. Every
  request, sweep and crash is an abstract lease, extension, return, reclaim, sale or
  nothing at all.

Why the bounds are enough. Every conflict in this code is about one row, or about
two rows of one hold: two tickets distinguish partial from whole holds, two holds
a displaced from a displacing one, two keys or callers make a race, and a third
party is the sweep. A TTL of 1 and a clock up to 2 let a lease be granted, lapse
and be taken over while requests that captured each earlier time are in flight; a
`PaymentBudget` of 2 exceeds the TTL, so that extensions happen. Batches of one
with two batches per sweep make both the short batch and the batch limit occur.
In `organizer`, three seats in two sections let a publication begin with some seats,
count others and meet an unpriced one; two calls of each kind overlap; `MaxVersion` = 3
is creation, an edit and the publication. In `support`: one event with a draft, a published and an edited version; two readers, so
that rebuilds are shared, with one slot, so that load is shed; one of them keeps and
revalidates what it got; a TTL and a rebuild of one tick each, so that an entry expires
while another is built. Four events, of which two start at one instant and a third in the
same second, with limits below, at and above the clamp. Two tickets, two holds and two
transactions of any kind, from any assignment of leases. All foreign-key graphs over three
tables. A section whose rows cross Z/AA and ZZ/AAA, and lists that are refused. The audit
runs beside one purchase of one seat. `booking_race` has a single seat and `booking_takeover` a single key: each leaves
out what the other varies, since both together do not fit.

Fairness (`ReaperFairness`). Time passes. The cron job starts a sweep every minute
and a sweep goes on unless it is killed, so its steps are weakly fair; that it may
be killed each time is not excluded, but a sweep that dies again and again still
commits batches. A row is skipped only while some transaction holds its lock, so a
row that sweep after sweep could take is taken: strong fairness of a batch that
contains it. Nothing is assumed of clients: no hold need be released or paid.

In `Catalog` (`CatalogFairness`) the goroutine that serves a request goes on, either by
itself or, while it waits in single-flight, by the rebuild that runs in the leader's
goroutine: weak fairness of the two together, per request. A query or a cache call that
was sent returns, with an error if need be. Nothing is assumed of the organizer, of
evictions, failures or restarts, and none of them is needed for a request to end.

Deadlock is checked in every passing run of holds, payments, booking and support: a sweep can always start, and in
`booking_takeover`, which has none, a request can always arrive (`LastCall` is
`MaxTime`) and one under way can always end. `organizer` may stop, since with
every event published and at `MaxVersion` no request is left to send, and its cfg says so.

## 4. What is proved

`HoldsProofs` proves, for all finite sets of tickets and holds and any users, keys,
calls, sweeps, TTL, quota, batch sizes and bounds:

- `HoldsTypeCorrect`: `HoldsSpec => []HoldTypeOK`. The step that needs an argument
  is the CHECK constraint on HELD rows under each write, and that a captured
  timestamp is never later than the clock.
- `LeasesAgree`: `HoldsSpec => []LeaseAgreement`. Inductive together with
  `HoldTypeOK`: a claim only takes seats whose lease has lapsed at its own, older,
  timestamp, hence has lapsed now; it expires every ACTIVE hold it displaces; and a
  sweep expires only holds that have lapsed, whose remaining seats carry the same
  expiry.
- `LiveLeasesKept`: `HoldsSpec => LiveLeaseKept`, from the same invariant: every
  conditional write compares with a timestamp that is not in the future.
- `LiveHoldsAreWhole`, `RetriesShareAHold`: the remaining invariants of the run.

`PaymentsProofs` proves every property of the run `payments`, for any keys, amounts and
overlapping calls (`PaymentsTypeCorrect`, `KeysAreChargedOnce`, `OutcomesAreTheProviders`,
`OnlyChargesAreRefunded`, `OutcomesAreFinal`). The properties alone are not inductive;
`PayIInv` adds that at most one call per key is between its insert and its outcome
(`OneCharger`), that the provider has not heard of a key without a row (`NoRowNoCharge`),
and what each call knows at its statement (`PayCallKnows`): a call that is about to record
an outcome has it from the provider, and the row is still IN_PROGRESS at its amount.

`BookingProofs` proves, for the whole booking service `Spec`, with any users, tickets,
holds, keys, callers and sweeps:

- `SoldNeverReleased`: `Spec => SoldIsFinal`. It needs no invariant: each write's own
  predicate passes over SOLD rows, which is what makes the promise robust.
- `BookingTypeCorrect`, from `TypeIInv`: all tables and requests, over `PayIInv`.
- `SalesBalance` (`SalesMatchBookings`) and `HoldsAreSoldOnce` (`OneSalePerHold`), from
  `SalesIInv`. Seats are priced in one transaction and sold in another. What survives in
  between is `BuyKnows`: the hold has no seat that was not priced, for a hold never gets a
  seat back. So the sale's row count can equal the number of priced seats only if the hold
  still has exactly those; and a sale leaves its hold without seats (`BookingKnows`), so
  that no second purchase of it can match a nonzero count.
- `LeasesAgreeThroughSales`, `LiveLeasesKeptThroughSales`: the lease properties, now through
  extensions, sales and declines.
- `TablesAreAnInventory`: `Spec => RefinesInventory`, the refinement of `TicketInventory`.
  Step by step: a claim is `Lease` of what it takes; an extension `Extend` of exactly the
  hold's seats; releases and declines `GiveBack`; a batch `Reclaim` of lapsed seats; a
  sale `Sell`; every other step leaves owners, leases and clock alone.

`PurchaseProofs` proves what the saga does with time and money:

- `PaymentsHaveTheirBudget` (`BudgetProtectsPayment`): from pricing to the charge's answer
  the budget has run out, or the owner has ended the hold, or the hold still owns all priced
  seats until `now + PaymentBudget` (`BudgetKept`).
- `PurchasesUsePaymentsWell`: the payment invariants hold under the saga's calls.
- `BookingsAccountForMoney` (`PaidIInv`), whatever keys clients choose: a CONFIRMED booking
  has a COMPLETED payment of its total under its key, a COMPENSATED one a payment marked
  refunded, and no money goes back under a key without a booking of it that recorded the
  obligation.
- `ConfirmedBookingsArePaid` (`ConfirmedIsPaid`) and `RefundsAreOwed` (`RefundIsOwed`), which
  also say that the money stays and goes back once (`MoneyIInv`), under the hypothesis
  `KeysAreUsersOwn`: no two users send one key. The code does not enforce it, and it cannot
  be dropped: payments are named by the key alone (finding 4), so that another user's
  purchase under the same key finds the same payment and may have it refunded. On the
  instance of `booking_shared_key`, where two users share a key, TLC refutes both
  properties. Keys that clients draw at random meet it; `booking_race`, which checks the
  two properties, has one user who sends keys.

`CatalogProofs` proves `SlotsNeverLeak`, `ViewsAreNeverOlder` and `AvailabilityIsBounded`, for
any events, versions, readers, browsers, limits and TTLs. `CatalogIInv` is what every holder
of data knows: nothing under a view key is older than the key (`CachedKnows`), a rebuild's
result is no older than its key and was read at most `MaxRebuild` ago (`FlightKnows`), a
cached snapshot's age and remaining TTL stay within the bound, and a request carries a
version that its answer is not older than (`ReaderKnows`). The slots taken are counted as the
cardinality of the set of rebuilds that query.

`SupportProofs` proves

- `AuditsErrOnOneSide` (`AuditOneSided`), beside the whole booking service: `SalesIInv`, the
  finality of sales, and that a hold's seats are of one event;
- `TruncationsAreWhole` (`TruncationWhole`), for any number of tables and any foreign keys:
  unless the keys form a cycle, what is in the order has all its children before it
  (`ChildrenFirst`), and a pass without progress exhibits a cycle, the tables not yet placed;
- `PagesAreExact` (`PagesExact`), for any events, start times and limits: between two pages the
  cursor is the key of the last row shown, and an event that has matched throughout is shown
  or comes after that row. It rests on the row comparison being a total order on the rows'
  keys, as the event id is one of its columns (`KeyBeforeByColumn`), and on a cursor naming
  its row's key exactly (`CursorsRoundTrip`).

`OrganizerProofs` proves every property of the run `organizer`, for any venues, events,
finite set of seats and any number of overlapping requests:

- `OrganizerTypeCorrect`, `PublicationIsWhole`, `PublicationHappensOnce`. The property
  alone is not inductive, since a commit writes what earlier statements read. `IInv` adds
  what each answer still guarantees when it is used (`CallKnows`): the row lock keeps the
  event a DRAFT without tickets, so that the rows a call inserts are its only ones; a seat
  that was priced stays priced and in the venue; a positive count makes the rows nonempty.
  `OneHolder` says that two calls never hold one row.
- `VersionsNameContents`, from `IInv` and the fact that an id not yet created has version 0.

`RowLocksProofs` proves `ClaimsDoNotDeadlock`, `LockSpec => []ClaimsNeverDeadlock`, for any
number of tickets, holds and transactions. Its invariant, `LockInv`, says that the rows a
claim has locked, waits for and has left follow one another (`Rising`); the sorted FOR
UPDATE gives it within the first statement, and holds coming after tickets gives it
across to the second (`AmongTickets`). Along claims that wait for one another the awaited
row rises, so the one that waits for the highest row of a set waits for none of the set;
that one exists because distances from the last row are well-founded. The run's instance
is too small for two claims that share two displaced holds; the theorem covers them, under
the assumption on the order of that one UPDATE.

The proofs assume the named assumptions on the constants: finite inventory, seats, events and
limits that are positive, `NULL` is no identifier, and what the database guarantees of names
and times (`pg_class` has a table's name once: `TableNames` is injective; no event starts in
year 1). TLC evaluates each of them in the runs of its module. `KeysAreUsersOwn` is the only
hypothesis of a theorem beyond them.

Only model-checked: liveness (`SeatComesBack`, `RequestEnds`), which the provers do not
reach, and `LabelsSucceed`, which is about a recursive operator. With these three exceptions
every property of the passing runs is a theorem. The expected violations are runs only.

## 5. Findings

Five statements of the repository are not what the code does; each is a run with a
short counterexample and is quoted in `PROJECT.json`:

1. The quota is a count and an insert with no lock in between (`booking/holds.go:403`).
2. `recordDeclined` overwrites the status of a hold that has been sold
   (`booking/purchase.go:391`).
3. After a crash between charge and conversion the payment is COMPLETED and without a
   booking; a search for IN_PROGRESS payments misses it (`booking/purchase.go:123`).
4. Payment keys carry no user (`booking/purchase.go:97`), bookings are unique per user.
5. AddSeats reads that no event of the venue is published and inserts without a lock
   that a publication waits for (`organizer/venues.go:120`), so that a venue can get
   seats which its published event does not sell.

Three further observations are not runs. `RefreshAvailability` deletes the snapshot "so the
next read rebuilds it" (`catalog/cache.go:181`), but a rebuild that is under way stores
what it read before, and the next read gets that; the number stays within
`AvailabilityBounded`. For the other two no text promises otherwise. A
sweep that has freed one seat of a lapsed hold, but not yet marked the hold, lets a
purchase that captured its time before the lapse buy the seats that are left: it
pays for those only (`SalesMatchBookings` holds). And `Refund` alone is not safe
against two concurrent calls for one payment; the saga never makes them, because
only the call that inserted the COMPENSATING row refunds (`RefundIsOwed`).

## 6. Not modelled, and the plan

Not modelled:

- HTTP, authentication, field validation, metrics, logging, the test endpoints and the
  counters they read;
- GetSeatMap, GetHold, GetBooking, ListBookings and GetStats, which only read;
- what search's filters select (text, dates, distance): an arbitrary set here;
- a second catalog process on the same cache: slots and flights are per process;
- the 64-bit overflow of `rows * seats_per_row` (`internal/seatmap/seatmap.go:65`), and
  `clock.Set` and `Reset`;
- a retry of a refund that failed: the code has none.

Next:

1. GetSeatMap and a second catalog process: its own slots and flights on the same cache.
2. Should the payment key ever carry the user (finding 4): payments by user and key, when
   `ConfirmedBookingsArePaid` and `RefundsAreOwed` need no hypothesis.
3. `RowLocks` with the displaced holds locked in any order, to say which pairs of claims the
   assumption on that UPDATE protects.
