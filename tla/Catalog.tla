------------------------------- MODULE Catalog -------------------------------
(***************************************************************************)
(* The catalog's cached reads (catalog/catalog.go, cache.go,               *)
(* event_http.go), as one process serves them.                             *)
(*                                                                         *)
(* A read of an event is                                                   *)
(*                                                                         *)
(*   version -> view -> availability -> answer                             *)
(*                                                                         *)
(* and each of view and availability is a cache lookup or, on a miss, a    *)
(* rebuild shared with every request for the same single-flight key:       *)
(*                                                                         *)
(*   slot -> query -> store.                                               *)
(*                                                                         *)
(* Edits of the event, sales, evictions, cache failures, cancelled         *)
(* requests and restarts come between any two of these steps.  A restart   *)
(* loses the flights and the slots; the cache is another server's.         *)
(***************************************************************************)
EXTENDS Naturals, FiniteSets

CONSTANTS
    Listings,           \* events.event_id
    Readers,            \* clients, each with one request at a time
    Browsers,           \* those that keep the event they got and revalidate it
    MaxListingVersion,  \* bound: no event is changed beyond this version
    availabilityTTL,
    MaxRebuild,         \* assumption: ticks from a snapshot's query to its cache entry
    dbFallbackLimit

ASSUME CatalogAssumption ==
    /\ IsFiniteSet(Listings) /\ Listings \subseteq Nat \ {0}
    /\ Browsers \subseteq Readers
    /\ MaxListingVersion \in Nat \ {0} /\ MaxRebuild \in Nat
    /\ availabilityTTL \in Nat \ {0} /\ dbFallbackLimit \in Nat \ {0}

VARIABLES
    listings,   \* table events: version and visibility
    views,      \* cache: views[e][v] is the version of the body under key (e, v)
    snapshots,  \* cache: the availability snapshot of each event
    flights,    \* rebuildGroup, by key
    slots,      \* tokens in dbFallbackSlots
    readers,    \* readers[r]: the request of client r
    held        \* held[r]: the event body browser r keeps

catalogVars == <<listings, views, snapshots, flights, slots, readers, held>>

ListingVersions == 1 .. MaxListingVersion

\* Mutation: cacheKeyString leaves the version out.
SharedViewKey(e, v) == <<e, 1>>

\* The two kinds of single-flight key; no event has version 0.
ViewKey(e, v) == <<e, v>>
AvailabilityKey(e) == <<e, 0>>
FlightKeys == Listings \X (0 .. MaxListingVersion)

\* Ages count ticks since the snapshot's query and stop at Old, past every bound.
Old == availabilityTTL + MaxRebuild + 1
Older(age) == IF age < Old THEN age + 1 ELSE age

\* A cache entry whose ttl is 0 is not there; neither is a view of version 0.
NoSnapshot == [age |-> 0, ttl |-> 0]
NoFlight == [stage |-> "none", view |-> 0, age |-> 0]
NoResponse == [event |-> 0, view |-> 0, age |-> 0]

\* pc: idle, view, awaitView, availability, awaitAvailability, respond.  A request
\* for availability alone has view 0.
NoRequest == [pc |-> "idle", event |-> 0, version |-> 0, view |-> 0, age |-> 0]

AtRest(r) == readers[r].pc = "idle"

AwaitedKey(r) ==
    IF readers[r].pc = "awaitView" THEN ViewKey(readers[r].event, readers[r].version)
                                   ELSE AvailabilityKey(readers[r].event)

Awaits(r, k) == readers[r].pc \in {"awaitView", "awaitAvailability"} /\ AwaitedKey(r) = k

-----------------------------------------------------------------------------
\* The organizer: every change of an event raises its version.
EditListing(e) ==
    /\ listings[e].version < MaxListingVersion
    /\ listings' = [listings EXCEPT ![e].version = @ + 1]
    /\ UNCHANGED <<views, snapshots, flights, slots, readers, held>>

PublishListing(e) ==
    /\ ~listings[e].public
    /\ listings[e].version < MaxListingVersion
    /\ listings' = [listings EXCEPT ![e] = [version |-> @.version + 1, public |-> TRUE]]
    /\ UNCHANGED <<views, snapshots, flights, slots, readers, held>>

-----------------------------------------------------------------------------
\* Both endpoints begin with currentVersion; a DRAFT event is not found.
GetEvent(r, e) ==
    /\ AtRest(r)
    /\ listings[e].public
    /\ readers' = [readers EXCEPT ![r] =
           [NoRequest EXCEPT !.pc = "view", !.event = e, !.version = listings[e].version]]
    /\ UNCHANGED <<listings, views, snapshots, flights, slots, held>>

GetAvailability(r, e) ==
    /\ AtRest(r)
    /\ listings[e].public
    /\ readers' = [readers EXCEPT ![r] = [NoRequest EXCEPT !.pc = "availability", !.event = e]]
    /\ UNCHANGED <<listings, views, snapshots, flights, slots, held>>

\* rebuildGroup.Do: the first caller starts the rebuild, later ones wait for it.
Rebuild(r, k, pc) ==
    /\ flights' = IF flights[k].stage = "none"
                  THEN [flights EXCEPT ![k] = [NoFlight EXCEPT !.stage = "slot"]]
                  ELSE flights
    /\ readers' = [readers EXCEPT ![r].pc = pc]

\* A miss, or a cache that answers with an error, rebuilds.
ReadView(r) ==
    LET e == readers[r].event  v == readers[r].version IN
    /\ readers[r].pc = "view"
    /\ \/ /\ views[e][v] # 0
          /\ readers' = [readers EXCEPT ![r].pc = "availability", ![r].view = views[e][v]]
          /\ UNCHANGED flights
       \/ Rebuild(r, ViewKey(e, v), "awaitView")
    /\ UNCHANGED <<listings, views, snapshots, slots, held>>

ReadAvailability(r) ==
    LET e == readers[r].event IN
    /\ readers[r].pc = "availability"
    /\ \/ /\ snapshots[e].ttl # 0
          /\ readers' = [readers EXCEPT ![r].pc = "respond", ![r].age = snapshots[e].age]
          /\ UNCHANGED flights
       \/ Rebuild(r, AvailabilityKey(e), "awaitAvailability")
    /\ UNCHANGED <<listings, views, snapshots, slots, held>>

\* Mutation: the validator is the event's version alone.
SameVersion(h, body) == h.event = body.event /\ h.view = body.view

\* The ETag is a hash of the whole body, which holds BuiltAt: two snapshots of one
\* age are one snapshot here.
matchesETag(h, body) == h = body

Body(r) == [event |-> readers[r].event, view |-> readers[r].view, age |-> readers[r].age]

\* 304 leaves a browser what it has; any other event body replaces it.
Respond(r) ==
    /\ readers[r].pc = "respond"
    /\ held' = IF r \notin Browsers \/ readers[r].view = 0 \/ matchesETag(held[r], Body(r))
               THEN held ELSE [held EXCEPT ![r] = Body(r)]
    /\ readers' = [readers EXCEPT ![r] = NoRequest]
    /\ UNCHANGED <<listings, views, snapshots, flights, slots>>

-----------------------------------------------------------------------------
\* Every caller of the key gets the one result, and the key is forgotten.
FlightFails(k) ==
    /\ readers' = [r \in Readers |-> IF Awaits(r, k) THEN NoRequest ELSE readers[r]]
    /\ flights' = [flights EXCEPT ![k] = NoFlight]

FlightReturns(k) ==
    /\ readers' = [r \in Readers |->
           IF ~Awaits(r, k) THEN readers[r]
           ELSE IF readers[r].pc = "awaitView"
                THEN [readers[r] EXCEPT !.pc = "availability", !.view = flights[k].view]
                ELSE [readers[r] EXCEPT !.pc = "respond", !.age = flights[k].age]]
    /\ flights' = [flights EXCEPT ![k] = NoFlight]

\* A slot is free: the queries run, and see the event as it is now.
TakeSlot(k) ==
    /\ flights[k].stage = "slot"
    /\ slots < dbFallbackLimit
    /\ slots' = slots + 1
    /\ flights' = [flights EXCEPT ![k] =
           [NoFlight EXCEPT !.stage = "query", !.view = IF k[2] = 0 THEN 0 ELSE listings[k[1]].version]]
    /\ UNCHANGED <<listings, views, snapshots, readers, held>>

\* Mutation: the rebuild queues for a slot instead of being shed.
NeverShed(k) == FALSE /\ UNCHANGED catalogVars

\* No slot: the load is shed, for every caller of the key.
ShedLoad(k) ==
    /\ flights[k].stage = "slot"
    /\ slots = dbFallbackLimit
    /\ FlightFails(k)
    /\ UNCHANGED <<listings, views, snapshots, slots, held>>

\* Mutation: only a query that succeeds gives its slot back.
LeakSlot(k) ==
    /\ flights[k].stage \in {"slot", "query"}
    /\ FlightFails(k)
    /\ UNCHANGED <<listings, views, snapshots, slots, held>>

\* The first caller's context is cancelled, or a query fails.
RebuildFails(k) ==
    /\ flights[k].stage \in {"slot", "query"}
    /\ slots' = IF flights[k].stage = "query" THEN slots - 1 ELSE slots
    /\ FlightFails(k)
    /\ UNCHANGED <<listings, views, snapshots, held>>

\* The rows are read and the slot given back, before the result is cached.
QueryReturns(k) ==
    /\ flights[k].stage = "query"
    /\ flights' = [flights EXCEPT ![k].stage = "store"]
    /\ slots' = slots - 1
    /\ UNCHANGED <<listings, views, snapshots, readers, held>>

\* Cache.Set, which may fail, and the return.
StoreRebuilt(k) ==
    LET e == k[1]  v == k[2] IN
    /\ flights[k].stage = "store"
    /\ \/ UNCHANGED <<views, snapshots>>
       \/ /\ v # 0
          /\ views' = [views EXCEPT ![e][v] = flights[k].view]
          /\ UNCHANGED snapshots
       \/ /\ v = 0
          /\ snapshots' = [snapshots EXCEPT ![e] =
                 [age |-> flights[k].age, ttl |-> availabilityTTL]]
          /\ UNCHANGED views
    /\ FlightReturns(k)
    /\ UNCHANGED <<listings, slots, held>>

-----------------------------------------------------------------------------
\* AllKeysLRU, and the view's own expiry.
EvictView(e, v) ==
    /\ views[e][v] # 0
    /\ views' = [views EXCEPT ![e][v] = 0]
    /\ UNCHANGED <<listings, snapshots, flights, slots, readers, held>>

\* RefreshAvailability deletes the snapshot; an eviction does the same.
RefreshAvailability(e) ==
    /\ snapshots[e].ttl # 0
    /\ snapshots' = [snapshots EXCEPT ![e] = NoSnapshot]
    /\ UNCHANGED <<listings, views, flights, slots, readers, held>>

Remaining(ttl) == ttl - 1

\* Time passes.  A snapshot's rebuild takes at most MaxRebuild, and an answer that
\* is complete leaves at once.
CatalogTick ==
    /\ \A e \in Listings : LET f == flights[AvailabilityKey(e)] IN
           f.stage \in {"query", "store"} => f.age < MaxRebuild
    /\ \A r \in Readers : readers[r].pc # "respond"
    /\ snapshots' = [e \in Listings |->
           IF snapshots[e].ttl = 0 \/ Remaining(snapshots[e].ttl) = 0 THEN NoSnapshot
           ELSE [age |-> Older(snapshots[e].age), ttl |-> Remaining(snapshots[e].ttl)]]
    /\ flights' = [k \in FlightKeys |->
           IF k[2] = 0 /\ flights[k].stage \in {"query", "store"}
           THEN [flights[k] EXCEPT !.age = @ + 1] ELSE flights[k]]
    /\ held' = [r \in Readers |->
           IF held[r] = NoResponse THEN held[r] ELSE [held[r] EXCEPT !.age = Older(@)]]
    /\ UNCHANGED <<listings, views, slots, readers>>

\* The process restarts: its requests fail, but for answers on their way.
CatalogRestart ==
    /\ flights' = [k \in FlightKeys |-> NoFlight]
    /\ slots' = 0
    /\ readers' = [r \in Readers |-> IF readers[r].pc = "respond" THEN readers[r] ELSE NoRequest]
    /\ UNCHANGED <<listings, views, snapshots, held>>

-----------------------------------------------------------------------------
CatalogInit ==
    /\ listings = [e \in Listings |-> [version |-> 1, public |-> FALSE]]
    /\ views = [e \in Listings |-> [v \in ListingVersions |-> 0]]
    /\ snapshots = [e \in Listings |-> NoSnapshot]
    /\ flights = [k \in FlightKeys |-> NoFlight]
    /\ slots = 0
    /\ readers = [r \in Readers |-> NoRequest]
    /\ held = [r \in Readers |-> NoResponse]

ServeRequest(r) == ReadView(r) \/ ReadAvailability(r) \/ Respond(r)

ServeRebuild(k) == TakeSlot(k) \/ ShedLoad(k) \/ QueryReturns(k) \/ StoreRebuilt(k)

CatalogNext ==
    \/ \E e \in Listings :
           \/ EditListing(e)
           \/ PublishListing(e)
           \/ RefreshAvailability(e)
           \/ \E v \in ListingVersions : EvictView(e, v)
           \/ \E r \in Readers : GetEvent(r, e) \/ GetAvailability(r, e)
    \/ \E r \in Readers : ServeRequest(r)
    \/ \E k \in FlightKeys : ServeRebuild(k) \/ RebuildFails(k)
    \/ CatalogTick
    \/ CatalogRestart

\* A goroutine that can go on does, by itself or, while it waits, in the goroutine
\* that runs its rebuild; a query that was sent returns.
Serve(r) == ServeRequest(r) \/ (Awaits(r, AwaitedKey(r)) /\ ServeRebuild(AwaitedKey(r)))

CatalogFairness == \A r \in Readers : WF_catalogVars(Serve(r))

CatalogSpec == CatalogInit /\ [][CatalogNext]_catalogVars /\ CatalogFairness
-----------------------------------------------------------------------------
Answers(r) == readers[r].pc = "respond" /\ readers'[r].pc = "idle"

\* What the client of an answered request has then.
Shown(r) == IF r \in Browsers /\ readers[r].view # 0 THEN held'[r] ELSE Body(r)

\* "an edit is visible on the very next read with no invalidation" (catalog.go:125):
\* the body a client ends a GetEvent with, from the cache, from another request's
\* rebuild or kept by a 304, is no older than the event was when the request began.
ViewNotOlder ==
    [][\A r \in Readers : Answers(r) /\ readers[r].view # 0 =>
           Shown(r).view >= readers[r].version]_catalogVars

\* "availabilityTTL bounds staleness of an advisory number" (cache.go:48): what a
\* client has after a request was read at most the TTL and one rebuild ago, however
\* it was evicted, refreshed, shared, revalidated or rebuilt meanwhile.
AvailabilityBounded ==
    [][\A r \in Readers : Answers(r) =>
           Shown(r).age <= availabilityTTL + MaxRebuild]_catalogVars

\* "dbFallbackLimit caps how many requests may rebuild" (cache.go:137): the slots
\* taken are those of the queries under way, whichever way earlier ones ended, so
\* the limit neither leaks away nor is exceeded.
SlotsAreQueries ==
    /\ slots = Cardinality({k \in FlightKeys : flights[k].stage = "query"})
    /\ slots <= dbFallbackLimit
    /\ \A r \in Readers :
           readers[r].pc \in {"awaitView", "awaitAvailability"} =>
               flights[AwaitedKey(r)].stage # "none"

\* "shed rather than queued, so latency fails fast" (cache.go:141): every request
\* ends, whatever the other requests do.
RequestEnds == \A r \in Readers : []<>AtRest(r)
=============================================================================
