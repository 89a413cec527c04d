----------------------------- MODULE CatalogProofs -----------------------------
(***************************************************************************)
(* The catalog's cached reads, proved for any events, clients, TTL, rebuild *)
(* time and number of slots, and for any number of versions of an event.   *)
(*                                                                         *)
(* What an answer shows was decided several statements earlier, by the     *)
(* cache, by the request's own rebuild or by another request's.            *)
(* CatalogIInv says what each of the three carries along: nothing that is  *)
(* cached or being rebuilt under a key is older than the version in the    *)
(* key (CachedKnows, FlightKnows), a snapshot expires before it is too old *)
(* (CachedKnows), and a request keeps the version it began with            *)
(* (ReaderKnows).                                                          *)
(***************************************************************************)
EXTENDS Catalog, FiniteSetTheorems, TLAPS

Stages == {"none", "slot", "query", "store"}

Flights == [stage : Stages, view : 0 .. MaxListingVersion, age : Nat]

Requests ==
    [pc      : {"idle", "view", "awaitView", "availability", "awaitAvailability", "respond"},
     event   : Listings \cup {0},
     version : 0 .. MaxListingVersion,
     view    : 0 .. MaxListingVersion,
     age     : Nat]

CatalogTypeOK ==
    /\ listings \in [Listings -> [version : ListingVersions, public : BOOLEAN]]
    /\ views \in [Listings -> [ListingVersions -> 0 .. MaxListingVersion]]
    /\ snapshots \in [Listings -> [age : Nat, ttl : Nat]]
    /\ flights \in [FlightKeys -> Flights]
    /\ slots \in Nat
    /\ readers \in [Readers -> Requests]

\* What the cache has under a key is no older than the key says, and a snapshot
\* expires before it is too old.
CachedKnows(e) ==
    /\ \A v \in ListingVersions : views[e][v] # 0 => views[e][v] >= v
    /\ snapshots[e].ttl # 0 =>
           snapshots[e].age + snapshots[e].ttl <= availabilityTTL + MaxRebuild

\* So is what a rebuild has read.
FlightKnows(k) ==
    /\ flights[k].stage # "none" => k[2] <= listings[k[1]].version
    /\ flights[k].stage \in {"query", "store"} =>
           /\ k[2] <= flights[k].view
           /\ k[2] = 0 => flights[k].age <= MaxRebuild

\* What a request knows at its statement pc.
ReaderKnows(r) ==
    LET q == readers[r] IN
    /\ q.pc # "idle" => q.event \in Listings /\ q.version <= listings[q.event].version
    /\ q.pc \in {"view", "awaitView"} => q.version # 0
    /\ q.pc \in {"availability", "awaitAvailability", "respond"} => q.version <= q.view
    /\ q.pc = "respond" => q.age <= availabilityTTL + MaxRebuild

\* A request that waits, waits for a rebuild under way.
WaitsForFlight(r) ==
    readers[r].pc \in {"awaitView", "awaitAvailability"} =>
        flights[AwaitedKey(r)].stage # "none"

Querying == {k \in FlightKeys : flights[k].stage = "query"}

CatalogIInv ==
    /\ CatalogTypeOK
    /\ SlotsAreQueries
    /\ \A e \in Listings : CachedKnows(e)
    /\ \A k \in FlightKeys : FlightKnows(k)
    /\ \A r \in Readers : ReaderKnows(r)

-----------------------------------------------------------------------------
\* The keys, and how many rebuilds can query at once.

LEMMA FlightKeysFinite == IsFiniteSet(FlightKeys)
<1>1. IsFiniteSet(0 .. MaxListingVersion)
  BY CatalogAssumption, FS_Interval
<1>2. IsFiniteSet(Listings)
  BY CatalogAssumption
<1>3. IsFiniteSet(Listings \X (0 .. MaxListingVersion))
  BY <1>1, <1>2, FS_Product
<1>. QED
  BY <1>3 DEF FlightKeys

LEMMA KeyFields ==
    /\ \A k \in FlightKeys : k[1] \in Listings /\ k[2] \in 0 .. MaxListingVersion
    /\ \A e \in Listings, v \in 0 .. MaxListingVersion :
           <<e, v>> \in FlightKeys /\ <<e, v>>[1] = e /\ <<e, v>>[2] = v
BY CatalogAssumption DEF FlightKeys

\* A request that waits, waits under a key of its event.
LEMMA AwaitedKeys ==
    ASSUME CatalogTypeOK, NEW r \in Readers, ReaderKnows(r),
           readers[r].pc \in {"awaitView", "awaitAvailability"}
    PROVE  /\ AwaitedKey(r) \in FlightKeys
           /\ AwaitedKey(r)[1] = readers[r].event
           /\ readers[r].pc = "awaitView" => AwaitedKey(r)[2] = readers[r].version
           /\ readers[r].pc = "awaitAvailability" => AwaitedKey(r)[2] = 0
<1>1. readers[r] \in Requests /\ readers[r].event \in Listings
  BY DEF CatalogTypeOK, ReaderKnows
<1>2. readers[r].version \in 0 .. MaxListingVersion /\ 0 \in 0 .. MaxListingVersion
  BY <1>1, CatalogAssumption DEF Requests
<1>3. CASE readers[r].pc = "awaitView"
  BY <1>1, <1>2, <1>3, KeyFields DEF AwaitedKey, ViewKey
<1>4. CASE readers[r].pc = "awaitAvailability"
  BY <1>1, <1>2, <1>4, KeyFields DEF AwaitedKey, AvailabilityKey
<1>. QED
  BY <1>3, <1>4

LEMMA SlotsCounted ==
    SlotsAreQueries <=>
        /\ slots = Cardinality(Querying)
        /\ slots <= dbFallbackLimit
        /\ \A r \in Readers : WaitsForFlight(r)
BY DEF SlotsAreQueries, Querying, WaitsForFlight

LEMMA QueryingFinite == IsFiniteSet(Querying) /\ Cardinality(Querying) \in Nat
<1>1. Querying \in SUBSET FlightKeys
  BY DEF Querying
<1>. QED
  BY <1>1, FlightKeysFinite, FS_Subset, FS_CardinalityType

\* A rebuild that begins or ends its query moves the count by one.
LEMMA QueryBegins ==
    ASSUME CatalogTypeOK, NEW k \in FlightKeys, NEW f \in Flights,
           flights[k].stage # "query", f.stage = "query",
           flights' = [flights EXCEPT ![k] = f]
    PROVE  Cardinality(Querying') = Cardinality(Querying) + 1
<1>1. Querying' = Querying \cup {k} /\ k \notin Querying
  BY DEF CatalogTypeOK, Querying
<1>. QED
  BY <1>1, QueryingFinite, FS_AddElement

LEMMA QueryEnds ==
    ASSUME CatalogTypeOK, NEW k \in FlightKeys, NEW f \in Flights,
           flights[k].stage = "query", f.stage # "query",
           flights' = [flights EXCEPT ![k] = f]
    PROVE  /\ Cardinality(Querying') = Cardinality(Querying) - 1
           /\ Cardinality(Querying) > 0
<1>1. Querying' = Querying \ {k} /\ k \in Querying
  BY DEF CatalogTypeOK, Querying
<1>2. Cardinality(Querying') = Cardinality(Querying) - 1 /\ IsFiniteSet(Querying')
  BY <1>1, QueryingFinite, FS_RemoveElement
<1>. QED
  BY <1>2, QueryingFinite, FS_CardinalityType

LEMMA QueriesGoOn ==
    ASSUME CatalogTypeOK, NEW k \in FlightKeys, NEW f \in Flights,
           flights[k].stage # "query", f.stage # "query",
           flights' = [flights EXCEPT ![k] = f]
    PROVE  Querying' = Querying
BY DEF CatalogTypeOK, Querying

-----------------------------------------------------------------------------
\* One lemma for each kind of step: the invariant survives it.

LEMMA InitKnows == CatalogInit => CatalogIInv
<1>. SUFFICES ASSUME CatalogInit PROVE CatalogIInv
  OBVIOUS
<1>1. CatalogTypeOK
  BY CatalogAssumption DEF CatalogInit, CatalogTypeOK, ListingVersions, NoSnapshot, NoFlight,
     NoRequest, Flights, Stages, Requests
<1>2. \A k \in FlightKeys : flights[k].stage = "none"
  BY DEF CatalogInit, NoFlight
<1>3. \A r \in Readers : readers[r].pc = "idle"
  BY DEF CatalogInit, NoRequest
<1>4. slots = Cardinality(Querying) /\ slots <= dbFallbackLimit
  <2>1. Querying = {}
    BY <1>2 DEF Querying
  <2>. QED
    BY <2>1, FS_EmptySet, CatalogAssumption DEF CatalogInit
<1>5. \A e \in Listings : CachedKnows(e)
  BY DEF CatalogInit, CachedKnows, NoSnapshot
<1>6. \A k \in FlightKeys : FlightKnows(k)
  BY <1>2 DEF FlightKnows
<1>7. \A r \in Readers : ReaderKnows(r) /\ WaitsForFlight(r)
  BY <1>3 DEF ReaderKnows, WaitsForFlight
<1>. QED
  BY <1>1, <1>4, <1>5, <1>6, <1>7, SlotsCounted DEF CatalogIInv

\* Versions only rise, so what was not older than one stays so.
LEMMA ListingsRise ==
    ASSUME CatalogIInv, NEW e \in Listings, EditListing(e) \/ PublishListing(e)
    PROVE  CatalogIInv'
<1>1. listings[e].version \in ListingVersions /\ listings[e].public \in BOOLEAN
  BY DEF CatalogIInv, CatalogTypeOK
<1>2. listings[e].version + 1 \in ListingVersions
  BY <1>1, CatalogAssumption DEF EditListing, PublishListing, ListingVersions
<1>3. PICK l \in [version : ListingVersions, public : BOOLEAN] :
          l.version = listings[e].version + 1 /\ listings' = [listings EXCEPT ![e] = l]
  <2>1. CASE EditListing(e)
    <3>1. listings' = [listings EXCEPT ![e] =
              [listings[e] EXCEPT !.version = listings[e].version + 1]]
      BY <2>1 DEF EditListing
    <3>2. listings[e] \in [version : ListingVersions, public : BOOLEAN]
      BY DEF CatalogIInv, CatalogTypeOK
    <3>3. /\ [listings[e] EXCEPT !.version = listings[e].version + 1]
                  \in [version : ListingVersions, public : BOOLEAN]
          /\ [listings[e] EXCEPT !.version = listings[e].version + 1].version
                  = listings[e].version + 1
      BY <1>2, <3>2
    <3>. QED
      BY <3>1, <3>3
  <2>2. CASE PublishListing(e)
    BY <1>1, <1>2, <2>2 DEF PublishListing
  <2>. QED
    BY <2>1, <2>2
<1>4. UNCHANGED <<views, snapshots, flights, slots, readers>>
  BY DEF EditListing, PublishListing
<1>5. CatalogTypeOK'
  BY <1>3, <1>4 DEF CatalogIInv, CatalogTypeOK
<1>6. \A x \in Listings : listings[x].version \in Nat /\ listings'[x].version \in Nat
                              /\ listings[x].version <= listings'[x].version
  <2>. TAKE x \in Listings
  <2>1. listings[x].version \in ListingVersions /\ listings'[x].version \in ListingVersions
    BY <1>5 DEF CatalogIInv, CatalogTypeOK
  <2>2. listings'[x].version = IF x = e THEN listings[x].version + 1 ELSE listings[x].version
    BY <1>3 DEF CatalogIInv, CatalogTypeOK
  <2>. QED
    BY <2>1, <2>2, CatalogAssumption DEF ListingVersions
<1>7. SlotsAreQueries'
  BY <1>4 DEF CatalogIInv, SlotsAreQueries, AwaitedKey
<1>8. \A x \in Listings : CachedKnows(x)'
  BY <1>4 DEF CatalogIInv, CachedKnows
<1>9. \A k \in FlightKeys : FlightKnows(k)'
  <2>. TAKE k \in FlightKeys
  <2>1. FlightKnows(k) /\ k[1] \in Listings /\ k[2] \in 0 .. MaxListingVersion
    BY KeyFields DEF CatalogIInv
  <2>2. k[2] \in Nat
    BY <2>1, CatalogAssumption
  <2>3. /\ listings[k[1]].version \in Nat /\ listings'[k[1]].version \in Nat
        /\ listings[k[1]].version <= listings'[k[1]].version
    BY <1>6, <2>1
  <2>4. flights[k].stage # "none" => k[2] <= listings[k[1]].version
    BY <2>1 DEF FlightKnows
  <2>5. flights[k].stage # "none" => k[2] <= listings'[k[1]].version
    BY <2>2, <2>3, <2>4
  <2>6. flights' = flights
    BY <1>4
  <2>. QED
    BY <2>1, <2>5, <2>6 DEF FlightKnows
<1>10. \A r \in Readers : ReaderKnows(r)'
  <2>. TAKE r \in Readers
  <2>1. ReaderKnows(r) /\ readers[r].version \in 0 .. MaxListingVersion
    BY DEF CatalogIInv, CatalogTypeOK, Requests
  <2>2. readers' = readers
    BY <1>4
  <2>3. readers[r].version \in Nat
    BY <2>1, CatalogAssumption
  <2>4. readers[r].pc # "idle" =>
            readers[r].version <= listings'[readers[r].event].version
    <3>. SUFFICES ASSUME readers[r].pc # "idle"
                  PROVE  readers[r].version <= listings'[readers[r].event].version
      OBVIOUS
    <3>1. /\ readers[r].event \in Listings
          /\ readers[r].version <= listings[readers[r].event].version
      BY <2>1 DEF ReaderKnows
    <3>2. /\ listings[readers[r].event].version \in Nat
          /\ listings'[readers[r].event].version \in Nat
          /\ listings[readers[r].event].version <= listings'[readers[r].event].version
      BY <1>6, <3>1
    <3>. QED
      BY <2>3, <3>1, <3>2
  <2>. QED
    BY <2>1, <2>2, <2>4 DEF ReaderKnows
<1>. QED
  BY <1>5, <1>7, <1>8, <1>9, <1>10 DEF CatalogIInv

LEMMA CacheForgets ==
    ASSUME CatalogIInv, NEW e \in Listings,
           RefreshAvailability(e) \/ \E v \in ListingVersions : EvictView(e, v)
    PROVE  CatalogIInv'
<1>1. UNCHANGED <<listings, flights, slots, readers>>
  BY DEF RefreshAvailability, EvictView
<1>2. /\ views' \in [Listings -> [ListingVersions -> 0 .. MaxListingVersion]]
      /\ snapshots' \in [Listings -> [age : Nat, ttl : Nat]]
      /\ \A x \in Listings : CachedKnows(x)'
  <2>1. CASE RefreshAvailability(e)
    <3>1. snapshots' = [snapshots EXCEPT ![e] = NoSnapshot] /\ UNCHANGED views
      BY <2>1 DEF RefreshAvailability
    <3>. QED
      BY <3>1 DEF CatalogIInv, CatalogTypeOK, CachedKnows, NoSnapshot
  <2>2. ASSUME NEW v \in ListingVersions, EvictView(e, v)
        PROVE  /\ views' \in [Listings -> [ListingVersions -> 0 .. MaxListingVersion]]
               /\ snapshots' \in [Listings -> [age : Nat, ttl : Nat]]
               /\ \A x \in Listings : CachedKnows(x)'
    <3>1. UNCHANGED snapshots /\ views' = [views EXCEPT ![e] = [views[e] EXCEPT ![v] = 0]]
      BY <2>2 DEF EvictView, CatalogIInv, CatalogTypeOK
    <3>2. views' \in [Listings -> [ListingVersions -> 0 .. MaxListingVersion]]
      BY <3>1, CatalogAssumption DEF CatalogIInv, CatalogTypeOK
    <3>3. \A x \in Listings, w \in ListingVersions :
              views'[x][w] = 0 \/ views'[x][w] = views[x][w]
      BY <3>1 DEF CatalogIInv, CatalogTypeOK
    <3>. QED
      BY <3>1, <3>2, <3>3 DEF CatalogIInv, CatalogTypeOK, CachedKnows
  <2>. QED
    BY <2>1, <2>2
<1>. QED
  BY <1>1, <1>2 DEF CatalogIInv, CatalogTypeOK, SlotsAreQueries, AwaitedKey, FlightKnows,
     ReaderKnows

\* A step of one request alone.
LEMMA OneReaderMoves ==
    ASSUME CatalogIInv, NEW r \in Readers, NEW q \in Requests,
           readers' = [readers EXCEPT ![r] = q],
           UNCHANGED <<listings, views, snapshots, flights, slots>>,
           q.pc \notin {"awaitView", "awaitAvailability"},
           ReaderKnows(r)'
    PROVE  CatalogIInv'
<1>1. CatalogTypeOK'
  BY DEF CatalogIInv, CatalogTypeOK
<1>2. readers'[r] = q /\ \A o \in Readers \ {r} : readers'[o] = readers[o]
  BY DEF CatalogIInv, CatalogTypeOK
<1>3. \A o \in Readers : ReaderKnows(o)'
  BY <1>2 DEF CatalogIInv, ReaderKnows
<1>4. SlotsAreQueries'
  <2>1. Querying' = Querying
    BY DEF Querying
  <2>2. \A o \in Readers : WaitsForFlight(o)'
    BY <1>2, SlotsCounted DEF CatalogIInv, WaitsForFlight, AwaitedKey
  <2>. QED
    BY <2>1, <2>2, SlotsCounted DEF CatalogIInv, SlotsAreQueries, Querying, WaitsForFlight
<1>. QED
  BY <1>1, <1>3, <1>4 DEF CatalogIInv, CachedKnows, FlightKnows

LEMMA RequestBegins ==
    ASSUME CatalogIInv, NEW r \in Readers, NEW e \in Listings,
           GetEvent(r, e) \/ GetAvailability(r, e)
    PROVE  CatalogIInv'
<1>0. NoRequest \in Requests /\ NoRequest.version = 0 /\ NoRequest.view = 0
  BY CatalogAssumption DEF NoRequest, Requests
<1>1. listings[e].version \in 1 .. MaxListingVersion
  BY DEF CatalogIInv, CatalogTypeOK, ListingVersions
<1>2. CASE GetEvent(r, e)
  <2> DEFINE q == [NoRequest EXCEPT !.pc = "view", !.event = e, !.version = listings[e].version]
  <2>1. /\ q \in Requests /\ q.pc = "view" /\ q.event = e
        /\ q.version = listings[e].version /\ q.view = 0
    <3>1. listings[e].version \in 0 .. MaxListingVersion /\ e \in Listings \cup {0}
      BY <1>1, CatalogAssumption
    <3>2. q \in Requests
      BY <1>0, <3>1 DEF Requests
    <3>. QED
      BY <1>0, <3>1, <3>2 DEF Requests
  <2>2. readers' = [readers EXCEPT ![r] = q] /\ UNCHANGED <<listings, views, snapshots, flights, slots>>
    BY <1>2 DEF GetEvent
  <2>3. readers'[r] = q
    BY <2>2 DEF CatalogIInv, CatalogTypeOK
  <2> HIDE DEF q
  <2>4. ReaderKnows(r)'
    BY <1>1, <2>1, <2>2, <2>3, CatalogAssumption DEF ReaderKnows
  <2>. QED
    BY <2>1, <2>2, <2>4, OneReaderMoves
<1>3. CASE GetAvailability(r, e)
  <2> DEFINE q == [NoRequest EXCEPT !.pc = "availability", !.event = e]
  <2>1. /\ q \in Requests /\ q.pc = "availability" /\ q.event = e
        /\ q.version = 0 /\ q.view = 0
    BY <1>0, CatalogAssumption DEF Requests
  <2>2. readers' = [readers EXCEPT ![r] = q] /\ UNCHANGED <<listings, views, snapshots, flights, slots>>
    BY <1>3 DEF GetAvailability
  <2>3. readers'[r] = q
    BY <2>2 DEF CatalogIInv, CatalogTypeOK
  <2> HIDE DEF q
  <2>4. ReaderKnows(r)'
    BY <1>1, <2>1, <2>2, <2>3, CatalogAssumption DEF ReaderKnows
  <2>. QED
    BY <2>1, <2>2, <2>4, OneReaderMoves
<1>. QED
  BY <1>2, <1>3

LEMMA RequestEndsWell ==
    ASSUME CatalogIInv, NEW r \in Readers, Respond(r)
    PROVE  CatalogIInv'
<1>1. NoRequest \in Requests /\ NoRequest.pc = "idle" /\ NoRequest.version = 0
  BY CatalogAssumption DEF NoRequest, Requests
<1>2. /\ readers' = [readers EXCEPT ![r] = NoRequest]
      /\ UNCHANGED <<listings, views, snapshots, flights, slots>>
  BY DEF Respond
<1>3. readers'[r] = NoRequest
  BY <1>2 DEF CatalogIInv, CatalogTypeOK
<1>4. ReaderKnows(r)'
  BY <1>1, <1>3 DEF ReaderKnows
<1>. QED
  BY <1>1, <1>2, <1>4, OneReaderMoves

\* A request joins the rebuild under its key, or starts it.
LEMMA JoinsRebuild ==
    ASSUME CatalogIInv, NEW r \in Readers, NEW k \in FlightKeys,
           NEW pc \in {"awaitView", "awaitAvailability"},
           Rebuild(r, k, pc),
           UNCHANGED <<listings, views, snapshots, slots>>,
           ReaderKnows(r)', AwaitedKey(r)' = k,
           k[2] <= listings[k[1]].version
    PROVE  CatalogIInv'
<1> DEFINE q == [readers[r] EXCEPT !.pc = pc]
<1>1. readers[r] \in Requests /\ q \in Requests /\ q.pc = pc
  BY DEF CatalogIInv, CatalogTypeOK, Requests
<1>2. readers' = [readers EXCEPT ![r] = q]
  BY DEF Rebuild
<1> HIDE DEF q
<1>3. readers'[r] = q /\ \A o \in Readers \ {r} : readers'[o] = readers[o]
  BY <1>2 DEF CatalogIInv, CatalogTypeOK
<1>4. PICK f \in Flights : /\ flights' = [flights EXCEPT ![k] = f] /\ f.stage # "none"
                           /\ flights[k].stage = "none" => f.stage = "slot"
                           /\ flights[k].stage # "none" => f = flights[k]
  <2>1. CASE flights[k].stage = "none"
    <3> DEFINE f == [NoFlight EXCEPT !.stage = "slot"]
    <3>1. f \in Flights /\ f.stage = "slot"
      BY CatalogAssumption DEF NoFlight, Flights, Stages
    <3>. QED
      BY <2>1, <3>1 DEF Rebuild
  <2>2. CASE flights[k].stage # "none"
    <3>1. flights[k] \in Flights /\ flights' = [flights EXCEPT ![k] = flights[k]]
      BY <2>2 DEF Rebuild, CatalogIInv, CatalogTypeOK
    <3>. QED
      BY <2>2, <3>1
  <2>. QED
    BY <2>1, <2>2
<1>5. /\ flights'[k] = f
      /\ \A j \in FlightKeys \ {k} : flights'[j] = flights[j]
      /\ f.stage \in {"query", "store"} => f = flights[k]
      /\ f.stage = "query" <=> flights[k].stage = "query"
  BY <1>4 DEF CatalogIInv, CatalogTypeOK
<1>6. CatalogTypeOK'
  BY <1>1, <1>2, <1>4 DEF CatalogIInv, CatalogTypeOK
<1>7. Querying' = Querying
  BY <1>5 DEF Querying
<1>8. \A o \in Readers : WaitsForFlight(o)'
  <2>1. \A j \in FlightKeys : flights[j].stage # "none" => flights'[j].stage # "none"
    BY <1>4, <1>5
  <2>2. WaitsForFlight(r)'
    BY <1>4, <1>5 DEF WaitsForFlight
  <2>3. ASSUME NEW o \in Readers \ {r} PROVE WaitsForFlight(o)'
    <3>1. SUFFICES ASSUME readers[o].pc \in {"awaitView", "awaitAvailability"}
                   PROVE  WaitsForFlight(o)'
      BY <1>3 DEF WaitsForFlight
    <3>2. AwaitedKey(o) \in FlightKeys /\ flights[AwaitedKey(o)].stage # "none"
      BY <3>1, AwaitedKeys, SlotsCounted DEF CatalogIInv, WaitsForFlight
    <3>3. AwaitedKey(o)' = AwaitedKey(o)
      BY <1>3 DEF AwaitedKey, ViewKey, AvailabilityKey
    <3>. QED
      BY <2>1, <3>2, <3>3 DEF WaitsForFlight
  <2>. QED
    BY <2>2, <2>3
<1>9. SlotsAreQueries'
  BY <1>7, <1>8, SlotsCounted DEF CatalogIInv, SlotsAreQueries, Querying, WaitsForFlight
<1>10. \A j \in FlightKeys : FlightKnows(j)'
  <2>1. FlightKnows(k)'
    BY <1>5 DEF FlightKnows, CatalogIInv
  <2>2. \A j \in FlightKeys \ {k} : FlightKnows(j)'
    BY <1>5 DEF FlightKnows, CatalogIInv
  <2>. QED
    BY <2>1, <2>2
<1>11. \A o \in Readers : ReaderKnows(o)'
  BY <1>3 DEF CatalogIInv, ReaderKnows
<1>. QED
  BY <1>6, <1>9, <1>10, <1>11 DEF CatalogIInv, CachedKnows

LEMMA ReadsView ==
    ASSUME CatalogIInv, NEW r \in Readers, ReadView(r)
    PROVE  CatalogIInv'
<1> DEFINE e == readers[r].event
           v == readers[r].version
<1>1. /\ readers[r] \in Requests /\ readers[r].pc = "view"
      /\ e \in Listings /\ v <= listings[e].version /\ v # 0
      /\ v \in 0 .. MaxListingVersion
  BY DEF CatalogIInv, CatalogTypeOK, Requests, ReaderKnows, ReadView
<1>2. v \in ListingVersions
  BY <1>1, CatalogAssumption DEF ListingVersions
<1>3. CASE /\ views[e][v] # 0
           /\ readers' = [readers EXCEPT ![r].pc = "availability", ![r].view = views[e][v]]
           /\ UNCHANGED flights
  <2> DEFINE q == [readers[r] EXCEPT !.pc = "availability", !.view = views[e][v]]
  <2>1. views[e][v] \in 0 .. MaxListingVersion /\ views[e][v] >= v
    BY <1>1, <1>2, <1>3 DEF CatalogIInv, CatalogTypeOK, CachedKnows
  <2>2. readers' = [readers EXCEPT ![r] = q]
    BY <1>3 DEF CatalogIInv, CatalogTypeOK
  <2>3. /\ q \in Requests /\ q.pc = "availability" /\ q.event = e /\ q.version = v
        /\ q.view = views[e][v]
    BY <1>1, <2>1 DEF Requests
  <2>4. readers'[r] = q
    BY <2>2 DEF CatalogIInv, CatalogTypeOK
  <2>5. UNCHANGED <<listings, views, snapshots, flights, slots>>
    BY <1>3 DEF ReadView
  <2> HIDE DEF q
  <2>6. ReaderKnows(r)'
    BY <1>1, <2>1, <2>3, <2>4, <2>5, CatalogAssumption DEF ReaderKnows
  <2>. QED
    BY <2>2, <2>3, <2>5, <2>6, OneReaderMoves
<1>4. CASE Rebuild(r, ViewKey(e, v), "awaitView")
  <2>1. ViewKey(e, v) \in FlightKeys /\ ViewKey(e, v)[1] = e /\ ViewKey(e, v)[2] = v
    BY <1>1, KeyFields DEF ViewKey
  <2>2. readers' = [readers EXCEPT ![r] = [readers[r] EXCEPT !.pc = "awaitView"]]
    BY <1>4 DEF Rebuild
  <2>3. readers'[r] = [readers[r] EXCEPT !.pc = "awaitView"]
    BY <2>2 DEF CatalogIInv, CatalogTypeOK
  <2>4. readers'[r].pc = "awaitView" /\ readers'[r].event = e /\ readers'[r].version = v
    BY <1>1, <2>3 DEF Requests
  <2>5. UNCHANGED <<listings, views, snapshots, slots>>
    BY DEF ReadView
  <2>6. ReaderKnows(r)' /\ AwaitedKey(r)' = ViewKey(e, v)
    BY <1>1, <2>4, <2>5 DEF ReaderKnows, AwaitedKey, ViewKey
  <2>. QED
    BY <1>1, <1>4, <2>1, <2>5, <2>6, JoinsRebuild
<1>. QED
  BY <1>3, <1>4 DEF ReadView

LEMMA ReadsAvailability ==
    ASSUME CatalogIInv, NEW r \in Readers, ReadAvailability(r)
    PROVE  CatalogIInv'
<1> DEFINE e == readers[r].event
<1>1. /\ readers[r] \in Requests /\ readers[r].pc = "availability"
      /\ e \in Listings /\ readers[r].version <= listings[e].version
      /\ readers[r].version <= readers[r].view
  BY DEF CatalogIInv, CatalogTypeOK, ReaderKnows, ReadAvailability
<1>2. CASE /\ snapshots[e].ttl # 0
           /\ readers' = [readers EXCEPT ![r].pc = "respond", ![r].age = snapshots[e].age]
           /\ UNCHANGED flights
  <2> DEFINE q == [readers[r] EXCEPT !.pc = "respond", !.age = snapshots[e].age]
  <2>1. /\ snapshots[e].age \in Nat /\ snapshots[e].ttl \in Nat
        /\ snapshots[e].age + snapshots[e].ttl <= availabilityTTL + MaxRebuild
    BY <1>1, <1>2 DEF CatalogIInv, CatalogTypeOK, CachedKnows
  <2>2. snapshots[e].age <= availabilityTTL + MaxRebuild
    BY <2>1, CatalogAssumption
  <2>3. readers' = [readers EXCEPT ![r] = q]
    BY <1>2 DEF CatalogIInv, CatalogTypeOK
  <2>4. /\ q \in Requests /\ q.pc = "respond" /\ q.event = e
        /\ q.version = readers[r].version /\ q.view = readers[r].view
        /\ q.age = snapshots[e].age
    BY <1>1, <2>1 DEF Requests
  <2>5. readers'[r] = q
    BY <2>3 DEF CatalogIInv, CatalogTypeOK
  <2>6. UNCHANGED <<listings, views, snapshots, flights, slots>>
    BY <1>2 DEF ReadAvailability
  <2> HIDE DEF q
  <2>7. ReaderKnows(r)'
    BY <1>1, <2>2, <2>4, <2>5, <2>6 DEF ReaderKnows
  <2>. QED
    BY <2>3, <2>4, <2>6, <2>7, OneReaderMoves
<1>3. CASE Rebuild(r, AvailabilityKey(e), "awaitAvailability")
  <2>1. /\ AvailabilityKey(e) \in FlightKeys
        /\ AvailabilityKey(e)[1] = e /\ AvailabilityKey(e)[2] = 0
    <3>1. 0 \in 0 .. MaxListingVersion
      BY CatalogAssumption
    <3>. QED
      BY <1>1, <3>1, KeyFields DEF AvailabilityKey
  <2>2. readers' = [readers EXCEPT ![r] = [readers[r] EXCEPT !.pc = "awaitAvailability"]]
    BY <1>3 DEF Rebuild
  <2>3. readers'[r] = [readers[r] EXCEPT !.pc = "awaitAvailability"]
    BY <2>2 DEF CatalogIInv, CatalogTypeOK
  <2>4. /\ readers'[r].pc = "awaitAvailability" /\ readers'[r].event = e
        /\ readers'[r].version = readers[r].version /\ readers'[r].view = readers[r].view
    BY <1>1, <2>3 DEF Requests
  <2>5. UNCHANGED <<listings, views, snapshots, slots>>
    BY DEF ReadAvailability
  <2>6. ReaderKnows(r)' /\ AwaitedKey(r)' = AvailabilityKey(e)
    BY <1>1, <2>4, <2>5 DEF ReaderKnows, AwaitedKey, AvailabilityKey
  <2>7. 0 <= listings[e].version
    <3>1. listings[e].version \in ListingVersions
      BY <1>1 DEF CatalogIInv, CatalogTypeOK
    <3>. QED
      BY <3>1, CatalogAssumption DEF ListingVersions
  <2>. QED
    BY <1>1, <1>3, <2>1, <2>5, <2>6, <2>7, JoinsRebuild
<1>. QED
  BY <1>2, <1>3 DEF ReadAvailability

\* A step of one rebuild that no request sees.
LEMMA FlightGoesOn ==
    ASSUME CatalogIInv, NEW k \in FlightKeys, NEW f \in Flights,
           flights' = [flights EXCEPT ![k] = f], f.stage # "none",
           FlightKnows(k)',
           slots' = Cardinality(Querying'), slots' \in Nat, slots' <= dbFallbackLimit,
           UNCHANGED <<listings, views, snapshots, readers>>
    PROVE  CatalogIInv'
<1>1. /\ flights'[k] = f
      /\ \A j \in FlightKeys \ {k} : flights'[j] = flights[j]
  BY DEF CatalogIInv, CatalogTypeOK
<1>2. CatalogTypeOK'
  BY DEF CatalogIInv, CatalogTypeOK
<1>3. \A j \in FlightKeys : FlightKnows(j)'
  <2>1. \A j \in FlightKeys \ {k} : FlightKnows(j)'
    BY <1>1 DEF FlightKnows, CatalogIInv
  <2>. QED
    BY <2>1
<1>4. \A o \in Readers : WaitsForFlight(o)'
  <2>. SUFFICES ASSUME NEW o \in Readers, readers[o].pc \in {"awaitView", "awaitAvailability"}
                PROVE  WaitsForFlight(o)'
    BY DEF WaitsForFlight
  <2>1. AwaitedKey(o) \in FlightKeys /\ flights[AwaitedKey(o)].stage # "none"
    BY AwaitedKeys, SlotsCounted DEF CatalogIInv, WaitsForFlight
  <2>2. AwaitedKey(o)' = AwaitedKey(o)
    BY DEF AwaitedKey
  <2>. QED
    BY <1>1, <2>1, <2>2 DEF WaitsForFlight
<1>5. SlotsAreQueries'
  BY <1>4 DEF SlotsAreQueries, Querying, WaitsForFlight
<1>6. \A o \in Readers : ReaderKnows(o)'
  BY DEF CatalogIInv, ReaderKnows
<1>. QED
  BY <1>2, <1>3, <1>5, <1>6 DEF CatalogIInv, CachedKnows

LEMMA RebuildQueries ==
    ASSUME CatalogIInv, NEW k \in FlightKeys, TakeSlot(k)
    PROVE  CatalogIInv'
<1> DEFINE seen == IF k[2] = 0 THEN 0 ELSE listings[k[1]].version
           f == [NoFlight EXCEPT !.stage = "query", !.view = seen]
<1>1. /\ flights[k].stage = "slot" /\ slots < dbFallbackLimit /\ slots' = slots + 1
      /\ flights' = [flights EXCEPT ![k] = f]
      /\ UNCHANGED <<listings, views, snapshots, readers>>
  BY DEF TakeSlot
<1>2. k[1] \in Listings /\ k[2] \in 0 .. MaxListingVersion
  BY KeyFields
<1>3. listings[k[1]].version \in ListingVersions /\ k[2] <= listings[k[1]].version
  BY <1>1, <1>2 DEF CatalogIInv, CatalogTypeOK, FlightKnows
<1>4. seen \in 0 .. MaxListingVersion /\ k[2] <= seen
  BY <1>2, <1>3, CatalogAssumption DEF ListingVersions
<1> HIDE DEF seen
<1>5. f \in Flights /\ f.stage = "query" /\ f.view = seen /\ f.age = 0
  BY <1>4 DEF NoFlight, Flights, Stages
<1> HIDE DEF f
<1>6. flights'[k] = f
  BY <1>1 DEF CatalogIInv, CatalogTypeOK
<1>7. FlightKnows(k)'
  BY <1>1, <1>3, <1>4, <1>5, <1>6, CatalogAssumption DEF FlightKnows
<1>8. Cardinality(Querying') = Cardinality(Querying) + 1
  BY <1>1, <1>5, QueryBegins DEF CatalogIInv
<1>9. slots' = Cardinality(Querying') /\ slots' \in Nat /\ slots' <= dbFallbackLimit
  BY <1>1, <1>8, CatalogAssumption, SlotsCounted DEF CatalogIInv, CatalogTypeOK
<1>. QED
  BY <1>1, <1>5, <1>7, <1>9, FlightGoesOn

LEMMA QueryKnows ==
    ASSUME CatalogIInv, NEW k \in FlightKeys, QueryReturns(k)
    PROVE  CatalogIInv'
<1> DEFINE f == [flights[k] EXCEPT !.stage = "store"]
<1>1. /\ flights[k] \in Flights /\ flights[k].stage = "query" /\ slots' = slots - 1
      /\ flights' = [flights EXCEPT ![k] = f]
      /\ UNCHANGED <<listings, views, snapshots, readers>>
  BY DEF QueryReturns, CatalogIInv, CatalogTypeOK
<1>2. /\ f \in Flights /\ f.stage = "store" /\ f.view = flights[k].view
      /\ f.age = flights[k].age
  BY <1>1 DEF Flights, Stages
<1> HIDE DEF f
<1>3. flights'[k] = f
  BY <1>1 DEF CatalogIInv, CatalogTypeOK
<1>4. FlightKnows(k)'
  BY <1>1, <1>2, <1>3 DEF FlightKnows, CatalogIInv
<1>5. Cardinality(Querying') = Cardinality(Querying) - 1 /\ Cardinality(Querying) > 0
  BY <1>1, <1>2, QueryEnds DEF CatalogIInv
<1>6. slots' = Cardinality(Querying') /\ slots' \in Nat /\ slots' <= dbFallbackLimit
  BY <1>1, <1>5, CatalogAssumption, SlotsCounted DEF CatalogIInv, CatalogTypeOK
<1>. QED
  BY <1>1, <1>2, <1>4, <1>6, FlightGoesOn

\* The end of a rebuild: its key is free again and nobody waits under it.
LEMMA FlightEnds ==
    ASSUME CatalogIInv, NEW k \in FlightKeys,
           flights' = [flights EXCEPT ![k] = NoFlight],
           readers' \in [Readers -> Requests],
           \A o \in Readers : IF Awaits(o, k)
               THEN readers'[o].pc \notin {"awaitView", "awaitAvailability"}
               ELSE readers'[o] = readers[o],
           \A o \in Readers : Awaits(o, k) => ReaderKnows(o)',
           UNCHANGED listings
    PROVE  /\ flights' \in [FlightKeys -> Flights]
           /\ \A j \in FlightKeys : FlightKnows(j)'
           /\ \A o \in Readers : WaitsForFlight(o)' /\ ReaderKnows(o)'
           /\ flights[k].stage # "query" => Querying' = Querying
           /\ flights[k].stage = "query" =>
                  /\ Cardinality(Querying') = Cardinality(Querying) - 1
                  /\ Cardinality(Querying) > 0
<1>1. NoFlight \in Flights /\ NoFlight.stage = "none"
  BY CatalogAssumption DEF NoFlight, Flights, Stages
<1>2. /\ flights'[k] = NoFlight
      /\ \A j \in FlightKeys \ {k} : flights'[j] = flights[j]
  BY DEF CatalogIInv, CatalogTypeOK
<1>3. flights' \in [FlightKeys -> Flights]
  BY <1>1 DEF CatalogIInv, CatalogTypeOK
<1>4. \A j \in FlightKeys : FlightKnows(j)'
  <2>1. FlightKnows(k)'
    BY <1>1, <1>2 DEF FlightKnows
  <2>2. \A j \in FlightKeys \ {k} : FlightKnows(j)'
    BY <1>2 DEF FlightKnows, CatalogIInv
  <2>. QED
    BY <2>1, <2>2
<1>5. ASSUME NEW o \in Readers PROVE WaitsForFlight(o)' /\ ReaderKnows(o)'
  <2>1. CASE Awaits(o, k)
    BY <2>1 DEF WaitsForFlight
  <2>2. CASE ~Awaits(o, k)
    <3>1. readers'[o] = readers[o] /\ ReaderKnows(o)
      BY <2>2 DEF CatalogIInv
    <3>2. ReaderKnows(o)'
      BY <3>1 DEF ReaderKnows
    <3>3. SUFFICES ASSUME readers[o].pc \in {"awaitView", "awaitAvailability"}
                   PROVE  WaitsForFlight(o)'
      BY <3>1, <3>2 DEF WaitsForFlight
    <3>4. AwaitedKey(o) \in FlightKeys /\ flights[AwaitedKey(o)].stage # "none"
      BY <3>1, <3>3, AwaitedKeys, SlotsCounted DEF CatalogIInv, WaitsForFlight
    <3>5. AwaitedKey(o) # k /\ AwaitedKey(o)' = AwaitedKey(o)
      BY <2>2, <3>1, <3>3 DEF Awaits, AwaitedKey, ViewKey, AvailabilityKey
    <3>. QED
      BY <1>2, <3>4, <3>5 DEF WaitsForFlight
  <2>. QED
    BY <2>1, <2>2
<1>6. flights[k].stage # "query" => Querying' = Querying
  BY <1>1, QueriesGoOn DEF CatalogIInv
<1>7. flights[k].stage = "query" =>
          /\ Cardinality(Querying') = Cardinality(Querying) - 1
          /\ Cardinality(Querying) > 0
  BY <1>1, QueryEnds DEF CatalogIInv
<1>. QED
  BY <1>3, <1>4, <1>5, <1>6, <1>7

LEMMA RebuildIsLost ==
    ASSUME CatalogIInv, NEW k \in FlightKeys, ShedLoad(k) \/ RebuildFails(k)
    PROVE  CatalogIInv'
<1>1. FlightFails(k) /\ UNCHANGED <<listings, views, snapshots>>
  BY DEF ShedLoad, RebuildFails
<1>2. NoRequest \in Requests /\ NoRequest.pc = "idle"
  BY CatalogAssumption DEF NoRequest, Requests
<1>3. \A o \in Readers : readers'[o] = IF Awaits(o, k) THEN NoRequest ELSE readers[o]
  BY <1>1 DEF FlightFails
<1>4. readers' \in [Readers -> Requests]
  BY <1>1, <1>2 DEF FlightFails, CatalogIInv, CatalogTypeOK
<1>5. \A o \in Readers : Awaits(o, k) => ReaderKnows(o)'
  BY <1>2, <1>3 DEF ReaderKnows
<1>6. flights' = [flights EXCEPT ![k] = NoFlight]
  BY <1>1 DEF FlightFails
<1>7. \A o \in Readers : IF Awaits(o, k)
          THEN readers'[o].pc \notin {"awaitView", "awaitAvailability"}
          ELSE readers'[o] = readers[o]
  BY <1>2, <1>3
<1>8. /\ flights' \in [FlightKeys -> Flights]
      /\ \A j \in FlightKeys : FlightKnows(j)'
      /\ \A o \in Readers : WaitsForFlight(o)' /\ ReaderKnows(o)'
      /\ flights[k].stage # "query" => Querying' = Querying
      /\ flights[k].stage = "query" =>
             /\ Cardinality(Querying') = Cardinality(Querying) - 1
             /\ Cardinality(Querying) > 0
  BY <1>1, <1>4, <1>5, <1>6, <1>7, FlightEnds
<1>9. slots' = IF flights[k].stage = "query" THEN slots - 1 ELSE slots
  BY DEF ShedLoad, RebuildFails
<1>10. slots' = Cardinality(Querying') /\ slots' \in Nat /\ slots' <= dbFallbackLimit
  BY <1>8, <1>9, CatalogAssumption, SlotsCounted DEF CatalogIInv, CatalogTypeOK
<1>11. SlotsAreQueries'
  BY <1>8, <1>10 DEF SlotsAreQueries, Querying, WaitsForFlight
<1>12. \A e \in Listings : CachedKnows(e)'
  BY <1>1 DEF CatalogIInv, CachedKnows
<1>. QED
  BY <1>1, <1>4, <1>8, <1>10, <1>11, <1>12 DEF CatalogIInv, CatalogTypeOK

\* Every caller of the key goes on with what the rebuild read.
LEMMA RebuildIsShared ==
    ASSUME CatalogIInv, NEW k \in FlightKeys, flights[k].stage = "store",
           FlightReturns(k), UNCHANGED listings
    PROVE  /\ readers' \in [Readers -> Requests]
           /\ \A o \in Readers : IF Awaits(o, k)
                  THEN readers'[o].pc \notin {"awaitView", "awaitAvailability"}
                  ELSE readers'[o] = readers[o]
           /\ \A o \in Readers : Awaits(o, k) => ReaderKnows(o)'
<1>1. /\ flights[k] \in Flights /\ k[2] \in 0 .. MaxListingVersion
      /\ k[2] <= flights[k].view
      /\ k[2] = 0 => flights[k].age <= MaxRebuild
  BY KeyFields DEF CatalogIInv, CatalogTypeOK, FlightKnows
<1>2. ASSUME NEW o \in Readers, ~Awaits(o, k) PROVE readers'[o] = readers[o]
  BY <1>2 DEF FlightReturns
<1>3. ASSUME NEW o \in Readers, Awaits(o, k)
      PROVE  /\ readers'[o] \in Requests
             /\ readers'[o].pc \in {"availability", "respond"}
             /\ ReaderKnows(o)'
  <2>1. /\ readers[o] \in Requests /\ ReaderKnows(o)
        /\ readers[o].pc \in {"awaitView", "awaitAvailability"} /\ AwaitedKey(o) = k
    BY <1>3 DEF CatalogIInv, CatalogTypeOK, Awaits
  <2>2. /\ readers[o].pc = "awaitView" => k[2] = readers[o].version
        /\ readers[o].pc = "awaitAvailability" => k[2] = 0
    BY <2>1, AwaitedKeys DEF CatalogIInv
  <2>3. CASE readers[o].pc = "awaitView"
    <3>1. readers'[o] = [readers[o] EXCEPT !.pc = "availability", !.view = flights[k].view]
      BY <1>3, <2>3 DEF FlightReturns
    <3>2. /\ readers'[o] \in Requests /\ readers'[o].pc = "availability"
          /\ readers'[o].event = readers[o].event /\ readers'[o].version = readers[o].version
          /\ readers'[o].view = flights[k].view
      BY <1>1, <2>1, <3>1 DEF Requests, Flights
    <3>. QED
      BY <1>1, <2>1, <2>2, <2>3, <3>2 DEF ReaderKnows
  <2>4. CASE readers[o].pc = "awaitAvailability"
    <3>1. readers'[o] = [readers[o] EXCEPT !.pc = "respond", !.age = flights[k].age]
      BY <1>3, <2>4 DEF FlightReturns
    <3>2. /\ readers'[o] \in Requests /\ readers'[o].pc = "respond"
          /\ readers'[o].event = readers[o].event /\ readers'[o].version = readers[o].version
          /\ readers'[o].view = readers[o].view /\ readers'[o].age = flights[k].age
      BY <1>1, <2>1, <3>1 DEF Requests, Flights
    <3>3. flights[k].age \in Nat /\ flights[k].age <= availabilityTTL + MaxRebuild
      BY <1>1, <2>2, <2>4, CatalogAssumption DEF Flights
    <3>. QED
      BY <2>1, <2>4, <3>2, <3>3 DEF ReaderKnows
  <2>. QED
    BY <2>1, <2>3, <2>4
<1>4. readers' \in [Readers -> Requests]
  <2>1. \A o \in Readers : readers'[o] \in Requests
    BY <1>2, <1>3 DEF CatalogIInv, CatalogTypeOK
  <2>2. readers' = [o \in Readers |-> readers'[o]]
    BY DEF FlightReturns
  <2>. QED
    BY <2>1, <2>2
<1>. QED
  BY <1>2, <1>3, <1>4

LEMMA RebuildIsCached ==
    ASSUME CatalogIInv, NEW k \in FlightKeys, StoreRebuilt(k)
    PROVE  CatalogIInv'
<1> DEFINE e == k[1]
           v == k[2]
<1>1. /\ flights[k].stage = "store" /\ FlightReturns(k)
      /\ UNCHANGED <<listings, slots>>
      /\ flights' = [flights EXCEPT ![k] = NoFlight]
  BY DEF StoreRebuilt, FlightReturns
<1>2. /\ flights[k] \in Flights /\ e \in Listings /\ v \in 0 .. MaxListingVersion
      /\ v <= flights[k].view
      /\ v = 0 => flights[k].age <= MaxRebuild
  BY <1>1, KeyFields DEF CatalogIInv, CatalogTypeOK, FlightKnows
<1>3. /\ readers' \in [Readers -> Requests]
      /\ \A o \in Readers : IF Awaits(o, k)
             THEN readers'[o].pc \notin {"awaitView", "awaitAvailability"}
             ELSE readers'[o] = readers[o]
      /\ \A o \in Readers : Awaits(o, k) => ReaderKnows(o)'
  BY <1>1, RebuildIsShared
<1>4. /\ flights' \in [FlightKeys -> Flights]
      /\ \A j \in FlightKeys : FlightKnows(j)'
      /\ \A o \in Readers : WaitsForFlight(o)' /\ ReaderKnows(o)'
      /\ Querying' = Querying
  BY <1>1, <1>3, FlightEnds
<1>5. /\ views' \in [Listings -> [ListingVersions -> 0 .. MaxListingVersion]]
      /\ snapshots' \in [Listings -> [age : Nat, ttl : Nat]]
      /\ \A x \in Listings : CachedKnows(x)'
  <2>1. CASE UNCHANGED <<views, snapshots>>
    BY <2>1 DEF CatalogIInv, CatalogTypeOK, CachedKnows
  <2>2. CASE v # 0 /\ views' = [views EXCEPT ![e][v] = flights[k].view] /\ UNCHANGED snapshots
    <3>1. v \in ListingVersions /\ flights[k].view \in 0 .. MaxListingVersion
      BY <1>2, <2>2, CatalogAssumption DEF ListingVersions, Flights
    <3>2. views' = [views EXCEPT ![e] = [views[e] EXCEPT ![v] = flights[k].view]]
      BY <1>2, <2>2 DEF CatalogIInv, CatalogTypeOK
    <3>3. views' \in [Listings -> [ListingVersions -> 0 .. MaxListingVersion]]
      BY <1>2, <3>1, <3>2 DEF CatalogIInv, CatalogTypeOK
    <3>4. \A x \in Listings, w \in ListingVersions :
              views'[x][w] = IF x = e /\ w = v THEN flights[k].view ELSE views[x][w]
      BY <1>2, <3>1, <3>2 DEF CatalogIInv, CatalogTypeOK
    <3>5. flights[k].view >= v
      BY <1>2, <3>1, CatalogAssumption
    <3>6. \A x \in Listings : CachedKnows(x)'
      BY <2>2, <3>4, <3>5 DEF CatalogIInv, CachedKnows
    <3>. QED
      BY <2>2, <3>3, <3>6 DEF CatalogIInv, CatalogTypeOK
  <2>3. CASE /\ v = 0 /\ UNCHANGED views
             /\ snapshots' = [snapshots EXCEPT ![e] =
                    [age |-> flights[k].age, ttl |-> availabilityTTL]]
    <3>1. flights[k].age \in Nat /\ availabilityTTL \in Nat
          /\ flights[k].age + availabilityTTL <= availabilityTTL + MaxRebuild
      BY <1>2, <2>3, CatalogAssumption DEF Flights
    <3>2. snapshots' \in [Listings -> [age : Nat, ttl : Nat]]
      BY <2>3, <3>1 DEF CatalogIInv, CatalogTypeOK
    <3>3. \A x \in Listings : CachedKnows(x)'
      BY <1>2, <2>3, <3>1 DEF CatalogIInv, CatalogTypeOK, CachedKnows
    <3>. QED
      BY <2>3, <3>2, <3>3 DEF CatalogIInv, CatalogTypeOK
  <2>. QED
    BY <2>1, <2>2, <2>3 DEF StoreRebuilt
<1>6. SlotsAreQueries'
  BY <1>1, <1>4, SlotsCounted DEF CatalogIInv, SlotsAreQueries, Querying, WaitsForFlight
<1>. QED
  BY <1>1, <1>3, <1>4, <1>5, <1>6 DEF CatalogIInv, CatalogTypeOK

LEMMA ClockKnows ==
    ASSUME CatalogIInv, CatalogTick
    PROVE  CatalogIInv'
<1>1. UNCHANGED <<listings, views, slots, readers>>
  BY DEF CatalogTick
<1>2. ASSUME NEW e \in Listings
      PROVE  snapshots'[e] \in [age : Nat, ttl : Nat] /\ CachedKnows(e)'
  <2>1. /\ snapshots[e] \in [age : Nat, ttl : Nat]
        /\ snapshots[e].age \in Nat /\ snapshots[e].ttl \in Nat
    BY DEF CatalogIInv, CatalogTypeOK
  <2>2. views'[e] = views[e] /\ CachedKnows(e)
    BY <1>1 DEF CatalogIInv
  <2>3. CASE snapshots[e].ttl = 0 \/ Remaining(snapshots[e].ttl) = 0
    <3>1. snapshots'[e] = NoSnapshot
      BY <2>3 DEF CatalogTick
    <3>. QED
      BY <2>2, <3>1 DEF CachedKnows, NoSnapshot
  <2>4. CASE ~(snapshots[e].ttl = 0 \/ Remaining(snapshots[e].ttl) = 0)
    <3>1. snapshots'[e] = [age |-> Older(snapshots[e].age), ttl |-> Remaining(snapshots[e].ttl)]
      BY <2>4 DEF CatalogTick
    <3>2. /\ Older(snapshots[e].age) \in Nat /\ Remaining(snapshots[e].ttl) \in Nat
          /\ Older(snapshots[e].age) <= snapshots[e].age + 1
          /\ Remaining(snapshots[e].ttl) = snapshots[e].ttl - 1
      BY <2>1, <2>4 DEF Older, Remaining
    <3>3. snapshots[e].age + snapshots[e].ttl <= availabilityTTL + MaxRebuild
      BY <2>2, <2>4 DEF CachedKnows
    <3>4. Older(snapshots[e].age) + Remaining(snapshots[e].ttl) <= availabilityTTL + MaxRebuild
      BY <2>1, <3>2, <3>3, CatalogAssumption
    <3>. QED
      BY <2>2, <3>1, <3>2, <3>4 DEF CachedKnows
  <2>. QED
    BY <2>3, <2>4
<1>3. snapshots' \in [Listings -> [age : Nat, ttl : Nat]]
  <2>1. snapshots' = [e \in Listings |-> snapshots'[e]]
    BY DEF CatalogTick
  <2>. QED
    BY <1>2, <2>1
<1>4. ASSUME NEW k \in FlightKeys
      PROVE  /\ flights'[k] \in Flights /\ flights'[k].stage = flights[k].stage
             /\ FlightKnows(k)'
  <2>1. flights[k] \in Flights /\ FlightKnows(k) /\ k[1] \in Listings
    BY KeyFields DEF CatalogIInv, CatalogTypeOK
  <2>2. CASE k[2] = 0 /\ flights[k].stage \in {"query", "store"}
    <3>1. flights'[k] = [flights[k] EXCEPT !.age = flights[k].age + 1]
      BY <2>2 DEF CatalogTick
    <3>2. /\ flights'[k] \in Flights /\ flights'[k].stage = flights[k].stage
          /\ flights'[k].view = flights[k].view /\ flights'[k].age = flights[k].age + 1
      BY <2>1, <3>1 DEF Flights
    <3>3. k = AvailabilityKey(k[1])
      BY <2>2 DEF FlightKeys, AvailabilityKey
    <3>4. flights[k].age < MaxRebuild /\ flights[k].age \in Nat
      BY <2>1, <2>2, <3>3 DEF CatalogTick, Flights
    <3>5. flights'[k].age <= MaxRebuild
      BY <3>2, <3>4, CatalogAssumption
    <3>. QED
      BY <1>1, <2>1, <3>2, <3>5 DEF FlightKnows
  <2>3. CASE ~(k[2] = 0 /\ flights[k].stage \in {"query", "store"})
    <3>1. flights'[k] = flights[k]
      BY <2>3 DEF CatalogTick
    <3>. QED
      BY <1>1, <2>1, <3>1 DEF FlightKnows
  <2>. QED
    BY <2>2, <2>3
<1>5. flights' \in [FlightKeys -> Flights]
  <2>1. flights' = [k \in FlightKeys |-> flights'[k]]
    BY DEF CatalogTick
  <2>. QED
    BY <1>4, <2>1
<1>6. SlotsAreQueries'
  <2>1. Querying' = Querying
    BY <1>4 DEF Querying
  <2>2. ASSUME NEW o \in Readers, readers[o].pc \in {"awaitView", "awaitAvailability"}
        PROVE  WaitsForFlight(o)'
    <3>1. AwaitedKey(o) \in FlightKeys /\ flights[AwaitedKey(o)].stage # "none"
      BY <2>2, AwaitedKeys, SlotsCounted DEF CatalogIInv, WaitsForFlight
    <3>2. AwaitedKey(o)' = AwaitedKey(o)
      BY <1>1 DEF AwaitedKey
    <3>. QED
      BY <1>4, <3>1, <3>2 DEF WaitsForFlight
  <2>3. \A o \in Readers : WaitsForFlight(o)'
    BY <1>1, <2>2 DEF WaitsForFlight
  <2>. QED
    BY <1>1, <2>1, <2>3, SlotsCounted DEF CatalogIInv, SlotsAreQueries, Querying, WaitsForFlight
<1>7. \A r \in Readers : ReaderKnows(r)'
  BY <1>1 DEF CatalogIInv, ReaderKnows
<1>. QED
  BY <1>1, <1>2, <1>3, <1>4, <1>5, <1>6, <1>7 DEF CatalogIInv, CatalogTypeOK

LEMMA RestartKnows ==
    ASSUME CatalogIInv, CatalogRestart
    PROVE  CatalogIInv'
<1>1. UNCHANGED <<listings, views, snapshots>> /\ slots' = 0
  BY DEF CatalogRestart
<1>2. NoFlight \in Flights /\ NoFlight.stage = "none"
  BY CatalogAssumption DEF NoFlight, Flights, Stages
<1>3. NoRequest \in Requests /\ NoRequest.pc = "idle"
  BY CatalogAssumption DEF NoRequest, Requests
<1>4. \A k \in FlightKeys : flights'[k] = NoFlight
  BY DEF CatalogRestart
<1>5. \A r \in Readers :
          readers'[r] = IF readers[r].pc = "respond" THEN readers[r] ELSE NoRequest
  BY DEF CatalogRestart
<1>6. CatalogTypeOK'
  <2>1. flights' \in [FlightKeys -> Flights]
    BY <1>2 DEF CatalogRestart
  <2>2. readers' \in [Readers -> Requests]
    BY <1>3 DEF CatalogRestart, CatalogIInv, CatalogTypeOK
  <2>. QED
    BY <1>1, <2>1, <2>2 DEF CatalogIInv, CatalogTypeOK
<1>7. \A k \in FlightKeys : FlightKnows(k)'
  BY <1>2, <1>4 DEF FlightKnows
<1>8. \A r \in Readers : ReaderKnows(r)' /\ WaitsForFlight(r)'
  BY <1>1, <1>3, <1>5 DEF CatalogIInv, ReaderKnows, WaitsForFlight
<1>9. SlotsAreQueries'
  <2>1. Querying' = {}
    BY <1>2, <1>4 DEF Querying
  <2>2. slots' = Cardinality(Querying') /\ slots' <= dbFallbackLimit
    BY <1>1, <2>1, FS_EmptySet, CatalogAssumption
  <2>. QED
    BY <1>8, <2>2 DEF SlotsAreQueries, Querying, WaitsForFlight
<1>. QED
  BY <1>1, <1>6, <1>7, <1>8, <1>9 DEF CatalogIInv, CachedKnows

LEMMA CatalogStep == CatalogIInv /\ [CatalogNext]_catalogVars => CatalogIInv'
<1>. SUFFICES ASSUME CatalogIInv, [CatalogNext]_catalogVars PROVE CatalogIInv'
  OBVIOUS
<1>1. CASE UNCHANGED catalogVars
  BY <1>1 DEF catalogVars, CatalogIInv, CatalogTypeOK, SlotsAreQueries, AwaitedKey, CachedKnows,
     FlightKnows, ReaderKnows
<1>2. ASSUME NEW e \in Listings, EditListing(e) \/ PublishListing(e) PROVE CatalogIInv'
  BY <1>2, ListingsRise
<1>3. ASSUME NEW e \in Listings,
             RefreshAvailability(e) \/ \E v \in ListingVersions : EvictView(e, v)
      PROVE  CatalogIInv'
  BY <1>3, CacheForgets
<1>4. ASSUME NEW e \in Listings, NEW r \in Readers, GetEvent(r, e) \/ GetAvailability(r, e)
      PROVE  CatalogIInv'
  BY <1>4, RequestBegins
<1>5. ASSUME NEW r \in Readers, ServeRequest(r) PROVE CatalogIInv'
  BY <1>5, ReadsView, ReadsAvailability, RequestEndsWell DEF ServeRequest
<1>6. ASSUME NEW k \in FlightKeys, ServeRebuild(k) \/ RebuildFails(k) PROVE CatalogIInv'
  BY <1>6, RebuildQueries, QueryKnows, RebuildIsLost, RebuildIsCached DEF ServeRebuild
<1>. QED
  BY <1>1, <1>2, <1>3, <1>4, <1>5, <1>6, ClockKnows, RestartKnows DEF CatalogNext

-----------------------------------------------------------------------------
\* What a browser keeps is a body it was answered with.
Responses == [event : Listings \cup {0}, view : 0 .. MaxListingVersion, age : Nat]

HeldTypeOK == held \in [Readers -> Responses]

LEMMA HeldStep == CatalogIInv /\ HeldTypeOK /\ [CatalogNext]_catalogVars => HeldTypeOK'
<1>. SUFFICES ASSUME CatalogIInv, HeldTypeOK, [CatalogNext]_catalogVars PROVE HeldTypeOK'
  OBVIOUS
<1>1. CASE UNCHANGED held
  BY <1>1 DEF HeldTypeOK
<1>2. ASSUME NEW r \in Readers, Respond(r) PROVE HeldTypeOK'
  <2>1. Body(r) \in Responses
    BY DEF CatalogIInv, CatalogTypeOK, Requests, Body, Responses
  <2>2. held' = held \/ held' = [held EXCEPT ![r] = Body(r)]
    BY <1>2 DEF Respond
  <2>. QED
    BY <2>1, <2>2 DEF HeldTypeOK
<1>3. CASE CatalogTick
  <2>1. ASSUME NEW r \in Readers PROVE held'[r] \in Responses
    <3>1. held[r] \in Responses
      BY DEF HeldTypeOK
    <3>2. Older(held[r].age) \in Nat
      BY <3>1 DEF Older, Responses
    <3>3. [held[r] EXCEPT !.age = Older(held[r].age)] \in Responses
      BY <3>1, <3>2 DEF Responses
    <3>4. held'[r] = held[r] \/ held'[r] = [held[r] EXCEPT !.age = Older(held[r].age)]
      BY <1>3 DEF CatalogTick
    <3>. QED
      BY <3>1, <3>3, <3>4
  <2>2. held' = [r \in Readers |-> held'[r]]
    BY <1>3 DEF CatalogTick
  <2>. QED
    BY <2>1, <2>2 DEF HeldTypeOK
<1>4. ASSUME NEW e \in Listings,
             \/ EditListing(e) \/ PublishListing(e) \/ RefreshAvailability(e)
             \/ \E v \in ListingVersions : EvictView(e, v)
             \/ \E r \in Readers : GetEvent(r, e) \/ GetAvailability(r, e)
      PROVE  UNCHANGED held
  BY <1>4 DEF EditListing, PublishListing, RefreshAvailability, EvictView, GetEvent,
     GetAvailability
<1>5. ASSUME NEW r \in Readers, ReadView(r) \/ ReadAvailability(r) PROVE UNCHANGED held
  BY <1>5 DEF ReadView, ReadAvailability
<1>6. ASSUME NEW k \in FlightKeys, ServeRebuild(k) \/ RebuildFails(k) PROVE UNCHANGED held
  BY <1>6 DEF ServeRebuild, TakeSlot, ShedLoad, QueryReturns, StoreRebuilt, RebuildFails
<1>7. CASE CatalogRestart
  BY <1>1, <1>7 DEF CatalogRestart
<1>8. CASE UNCHANGED catalogVars
  BY <1>1, <1>8 DEF catalogVars
<1>. QED
  BY <1>1, <1>2, <1>3, <1>4, <1>5, <1>6, <1>7, <1>8 DEF CatalogNext, ServeRequest

LEMMA CatalogKnows == CatalogSpec => [](CatalogIInv /\ HeldTypeOK)
<1>1. CatalogInit => HeldTypeOK
  BY CatalogAssumption DEF CatalogInit, HeldTypeOK, Responses, NoResponse
<1>. QED
  BY <1>1, InitKnows, CatalogStep, HeldStep, PTL DEF CatalogSpec

-----------------------------------------------------------------------------
\* dbFallbackLimit: the tokens taken are those of the rebuilds that query, for any
\* limit and any number of keys, however each earlier rebuild ended: they neither leak
\* nor exceed the limit, and no request waits for a rebuild that is not under way.
THEOREM SlotsNeverLeak == CatalogSpec => []SlotsAreQueries
<1>1. CatalogIInv => SlotsAreQueries
  BY DEF CatalogIInv
<1>. QED
  BY <1>1, CatalogKnows, PTL

\* Only Respond ends a request that has its answer: no failure, restart or rebuild of
\* another request takes it away.
LEMMA OnlyRespondAnswers ==
    ASSUME CatalogIInv, [CatalogNext]_catalogVars, NEW r \in Readers, Answers(r)
    PROVE  Respond(r)
<1>1. readers'[r] # readers[r] /\ readers[r].pc = "respond"
  BY DEF Answers
<1>2. ASSUME NEW e \in Listings,
             \/ EditListing(e) \/ PublishListing(e) \/ RefreshAvailability(e)
             \/ \E v \in ListingVersions : EvictView(e, v)
      PROVE  FALSE
  BY <1>1, <1>2 DEF EditListing, PublishListing, RefreshAvailability, EvictView
<1>4. ASSUME NEW e \in Listings, NEW o \in Readers, GetEvent(o, e) \/ GetAvailability(o, e)
      PROVE  FALSE
  <2>1. o # r
    BY <1>1, <1>4 DEF GetEvent, GetAvailability, AtRest
  <2>. QED
    BY <1>1, <1>4, <2>1 DEF GetEvent, GetAvailability, CatalogIInv, CatalogTypeOK
<1>5. ASSUME NEW o \in Readers, ReadView(o) \/ ReadAvailability(o) PROVE FALSE
  <2>1. o # r
    BY <1>1, <1>5 DEF ReadView, ReadAvailability
  <2>. QED
    BY <1>1, <1>5, <2>1 DEF ReadView, ReadAvailability, Rebuild, CatalogIInv, CatalogTypeOK
<1>6. ASSUME NEW o \in Readers, Respond(o) PROVE o = r
  BY <1>1, <1>6 DEF Respond, CatalogIInv, CatalogTypeOK
<1>7. ASSUME NEW k \in FlightKeys, FlightFails(k) \/ FlightReturns(k) PROVE FALSE
  <2>1. ~Awaits(r, k)
    BY <1>1 DEF Awaits
  <2>. QED
    BY <1>1, <1>7, <2>1 DEF FlightFails, FlightReturns
<1>8. ASSUME NEW k \in FlightKeys, ServeRebuild(k) \/ RebuildFails(k) PROVE FALSE
  BY <1>1, <1>7, <1>8 DEF ServeRebuild, TakeSlot, ShedLoad, QueryReturns, StoreRebuilt,
     RebuildFails
<1>9. ~CatalogTick /\ ~CatalogRestart /\ ~UNCHANGED catalogVars
  BY <1>1 DEF CatalogTick, CatalogRestart, catalogVars
<1>. QED
  BY <1>2, <1>4, <1>5, <1>6, <1>8, <1>9 DEF CatalogNext, ServeRequest

\* The body a client ends a request with is the one the request read: a 304 leaves a
\* browser a body that is equal to it.
LEMMA AnswersAreRead ==
    ASSUME CatalogIInv, HeldTypeOK, [CatalogNext]_catalogVars, NEW r \in Readers, Answers(r)
    PROVE  /\ Shown(r).view = readers[r].view
           /\ Shown(r).age = readers[r].age
<1>1. Respond(r)
  BY OnlyRespondAnswers
<1>2. Shown(r) = Body(r)
  BY <1>1 DEF Respond, Shown, HeldTypeOK, matchesETag
<1>. QED
  BY <1>2 DEF Body

\* "an edit is visible on the very next read" (catalog.go:125): the body a client ends
\* a GetEvent with is no older than the event was when the request began, for any
\* clients that share and fill the cache, fail, restart and revalidate what they keep.
THEOREM ViewsAreNeverOlder == CatalogSpec => ViewNotOlder
<1>1. CatalogIInv /\ HeldTypeOK /\ [CatalogNext]_catalogVars =>
          [\A r \in Readers : Answers(r) /\ readers[r].view # 0 =>
              Shown(r).view >= readers[r].version]_catalogVars
  <2>. SUFFICES ASSUME CatalogIInv, HeldTypeOK, [CatalogNext]_catalogVars,
                       NEW r \in Readers, Answers(r)
                PROVE  Shown(r).view >= readers[r].version
    OBVIOUS
  <2>1. readers[r].version <= readers[r].view
    BY DEF Answers, CatalogIInv, ReaderKnows
  <2>2. readers[r].version \in Nat /\ readers[r].view \in Nat
    BY CatalogAssumption DEF CatalogIInv, CatalogTypeOK, Requests
  <2>. QED
    BY <2>1, <2>2, AnswersAreRead
<1>. QED
  BY <1>1, CatalogKnows, PTL DEF CatalogSpec, ViewNotOlder

\* "availabilityTTL bounds staleness of an advisory number" (cache.go:48): whatever is
\* evicted, refreshed, shared or revalidated, what a client has after a request was
\* read at most the TTL and one rebuild ago.
THEOREM AvailabilityIsBounded == CatalogSpec => AvailabilityBounded
<1>1. CatalogIInv /\ HeldTypeOK /\ [CatalogNext]_catalogVars =>
          [\A r \in Readers : Answers(r) =>
              Shown(r).age <= availabilityTTL + MaxRebuild]_catalogVars
  <2>. SUFFICES ASSUME CatalogIInv, HeldTypeOK, [CatalogNext]_catalogVars,
                       NEW r \in Readers, Answers(r)
                PROVE  Shown(r).age <= availabilityTTL + MaxRebuild
    OBVIOUS
  <2>1. readers[r].age <= availabilityTTL + MaxRebuild
    BY DEF Answers, CatalogIInv, ReaderKnows
  <2>. QED
    BY <2>1, AnswersAreRead
<1>. QED
  BY <1>1, CatalogKnows, PTL DEF CatalogSpec, AvailabilityBounded
=============================================================================
