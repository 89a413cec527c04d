------------------------------ MODULE Organizer ------------------------------
(***************************************************************************)
(* The organizer service (organizer/venues.go, organizer/events.go): a     *)
(* venue is given seats, an event is drafted with a price tier for some of *)
(* the venue's sections, and publishing it turns every seat of the venue   *)
(* into a ticket.                                                          *)
(*                                                                         *)
(* AddSeats and PublishEvent run several statements in one READ COMMITTED  *)
(* transaction, and each statement sees what has been committed by then;   *)
(* those are steps of their own.  PublishEvent locks the event's row first *)
(* and keeps it; AddSeats locks nothing another request waits for.         *)
(***************************************************************************)
EXTENDS Naturals, FiniteSets

CONSTANTS
    Venues, Organizers, Events, Sections,
    Seats,          \* a venue's seat: section, row and number
    SectionOf,
    Null,
    Adders,         \* goroutines serving AddSeats
    Publishers,     \* goroutines serving PublishEvent
    MaxVersion      \* bound: no event is edited beyond this version

ASSUME OrganizerAssumption ==
    /\ IsFiniteSet(Seats)
    /\ SectionOf \in [Seats -> Sections]
    /\ Null \notin Venues /\ Null \notin Organizers /\ Null \notin Events
    /\ MaxVersion \in Nat \ {0}

VARIABLES
    venues,     \* table venues: the ids in use
    seats,      \* table seats: seats[v], the seats of venue v
    events,     \* tables events and price_tiers
    inventory,  \* table tickets: inventory[e], the seats event e sells
    adding,     \* adding[a]: local state of the AddSeats call a serves
    publishing  \* publishing[p]: local state of the PublishEvent call p serves

organizerVars == <<venues, seats, events, inventory, adding, publishing>>

\* `edits' counts UpdateEvent calls and stands for title, description and category;
\* `opening' is a history field: the venue's seats when the publish call began.
NoEvent ==
    [status |-> "NONE", venue |-> Null, organizer |-> Null, tiers |-> {}, version |-> 0,
     edits |-> 0, opening |-> {}]

IdleAdd == [pc |-> "idle", venue |-> Null, seats |-> {}]

IdlePublish == [pc |-> "idle", event |-> Null, opening |-> {}, count |-> 0, rows |-> {}]

-----------------------------------------------------------------------------
CreateVenue(v) ==
    /\ v \notin venues
    /\ venues' = venues \cup {v}
    /\ UNCHANGED <<seats, events, inventory, adding, publishing>>

Published(v) == {e \in Events : events[e].venue = v /\ events[e].status = "ON_SALE"}

\* Mutation: the venue is not looked up.
AddSeatsAnywhere(a, v, S) ==
    /\ adding[a].pc = "idle"
    /\ Published(v) = {}
    /\ adding' = [adding EXCEPT ![a] = [pc |-> "insert", venue |-> v, seats |-> S]]
    /\ UNCHANGED <<venues, seats, events, inventory, publishing>>

\* The venue exists and no event of it is published: both read without a lock.
AddSeats(a, v, S) ==
    /\ adding[a].pc = "idle"
    /\ v \in venues
    /\ Published(v) = {}
    /\ adding' = [adding EXCEPT ![a] = [pc |-> "insert", venue |-> v, seats |-> S]]
    /\ UNCHANGED <<venues, seats, events, inventory, publishing>>

\* INSERT ... ON CONFLICT DO NOTHING, and the commit.
InsertSeats(a) ==
    /\ adding[a].pc = "insert"
    /\ seats' = [seats EXCEPT ![adding[a].venue] = @ \cup adding[a].seats]
    /\ adding' = [adding EXCEPT ![a] = IdleAdd]
    /\ UNCHANGED <<venues, events, inventory, publishing>>

AddSeatsFails(a) ==
    /\ adding[a].pc # "idle"
    /\ adding' = [adding EXCEPT ![a] = IdleAdd]
    /\ UNCHANGED <<venues, seats, events, inventory, publishing>>

-----------------------------------------------------------------------------
\* A tier for a section the venue has not got is refused; venues and seats are
\* never deleted, so what the transaction has read stays true.
CreateEvent(e, u, v, T) ==
    /\ events[e].status = "NONE"
    /\ v \in venues
    /\ T # {}
    /\ \A x \in T : \E s \in seats[v] : SectionOf[s] = x
    /\ events' = [events EXCEPT ![e] =
           [NoEvent EXCEPT !.status = "DRAFT", !.venue = v, !.organizer = u, !.tiers = T,
                           !.version = 1]]
    /\ UNCHANGED <<venues, seats, inventory, adding, publishing>>

\* A publish call holds the event's row FOR UPDATE.
RowLocked(e) == \E p \in Publishers : publishing[p].event = e

\* Any event of the caller, whatever its status.
UpdateEvent(e, u) ==
    /\ events[e].status # "NONE" /\ events[e].organizer = u
    /\ ~RowLocked(e)
    /\ events[e].version < MaxVersion
    /\ events' = [events EXCEPT ![e].version = @ + 1, ![e].edits = @ + 1]
    /\ UNCHANGED <<venues, seats, inventory, adding, publishing>>

-----------------------------------------------------------------------------
VenueSeats(p) == seats[events[publishing[p].event].venue]

Priced(S, e) == {s \in S : SectionOf[s] \in events[e].tiers}

\* Mutation: the row is read without FOR UPDATE.
PublishUnlocked(p, e, u) ==
    /\ publishing[p].pc = "idle"
    /\ events[e].status = "DRAFT" /\ events[e].organizer = u
    /\ publishing' = [publishing EXCEPT ![p] =
           [IdlePublish EXCEPT !.pc = "tiers", !.event = e, !.opening = seats[events[e].venue]]]
    /\ UNCHANGED <<venues, seats, events, inventory, adding>>

\* SELECT ... FOR UPDATE waits for the row; only a DRAFT event of the caller goes on.
PublishEvent(p, e, u) ==
    /\ publishing[p].pc = "idle"
    /\ ~RowLocked(e)
    /\ events[e].status = "DRAFT" /\ events[e].organizer = u
    /\ publishing' = [publishing EXCEPT ![p] =
           [IdlePublish EXCEPT !.pc = "tiers", !.event = e, !.opening = seats[events[e].venue]]]
    /\ UNCHANGED <<venues, seats, events, inventory, adding>>

\* Mutation: a seat without a price does not stop the publication.
SomeSectionPriced(p) == Priced(VenueSeats(p), publishing[p].event) # {}

EverySectionPriced(p) == Priced(VenueSeats(p), publishing[p].event) = VenueSeats(p)

CheckTiers(p) ==
    /\ publishing[p].pc = "tiers"
    /\ EverySectionPriced(p)
    /\ publishing' = [publishing EXCEPT ![p].pc = "count"]
    /\ UNCHANGED <<venues, seats, events, inventory, adding>>

CountSeats(p) ==
    /\ publishing[p].pc = "count"
    /\ VenueSeats(p) # {}
    /\ publishing' = [publishing EXCEPT ![p].pc = "insert", ![p].count = Cardinality(VenueSeats(p))]
    /\ UNCHANGED <<venues, seats, events, inventory, adding>>

\* The rows INSERT ... SELECT adds: priced seats the event does not sell already.
NewRows(p) ==
    LET e == publishing[p].event IN Priced(VenueSeats(p), e) \ inventory[e]

\* Fewer or more rows than seats were counted abort the publication.
MaterialiseTickets(p) ==
    /\ publishing[p].pc = "insert"
    /\ Cardinality(NewRows(p)) = publishing[p].count
    /\ publishing' = [publishing EXCEPT ![p].pc = "commit", ![p].rows = NewRows(p)]
    /\ UNCHANGED <<venues, seats, events, inventory, adding>>

PublishRejected(p) ==
    /\ \/ publishing[p].pc = "tiers" /\ ~EverySectionPriced(p)
       \/ publishing[p].pc = "count" /\ VenueSeats(p) = {}
       \/ publishing[p].pc = "insert" /\ Cardinality(NewRows(p)) # publishing[p].count
    /\ publishing' = [publishing EXCEPT ![p] = IdlePublish]
    /\ UNCHANGED <<venues, seats, events, inventory, adding>>

\* Mutation: publishing is not an edit.
PublishSameVersion(p) ==
    LET e == publishing[p].event IN
    /\ publishing[p].pc = "commit"
    /\ inventory' = [inventory EXCEPT ![e] = @ \cup publishing[p].rows]
    /\ events' = [events EXCEPT ![e].status = "ON_SALE", ![e].opening = publishing[p].opening]
    /\ publishing' = [publishing EXCEPT ![p] = IdlePublish]
    /\ UNCHANGED <<venues, seats, adding>>

CommitPublish(p) ==
    LET e == publishing[p].event IN
    /\ publishing[p].pc = "commit"
    /\ inventory' = [inventory EXCEPT ![e] = @ \cup publishing[p].rows]
    /\ events' = [events EXCEPT ![e].status = "ON_SALE", ![e].version = @ + 1,
                                ![e].opening = publishing[p].opening]
    /\ publishing' = [publishing EXCEPT ![p] = IdlePublish]
    /\ UNCHANGED <<venues, seats, adding>>

PublishFails(p) ==
    /\ publishing[p].pc # "idle"
    /\ publishing' = [publishing EXCEPT ![p] = IdlePublish]
    /\ UNCHANGED <<venues, seats, events, inventory, adding>>

-----------------------------------------------------------------------------
OrganizerInit ==
    /\ venues = {}
    /\ seats = [v \in Venues |-> {}]
    /\ events = [e \in Events |-> NoEvent]
    /\ inventory = [e \in Events |-> {}]
    /\ adding = [a \in Adders |-> IdleAdd]
    /\ publishing = [p \in Publishers |-> IdlePublish]

AddSeatsStep(a) ==
    \/ \E v \in Venues, S \in SUBSET Seats \ {{}} : AddSeats(a, v, S)
    \/ InsertSeats(a)
    \/ AddSeatsFails(a)

PublishStep(p) ==
    \/ \E e \in Events, u \in Organizers : PublishEvent(p, e, u)
    \/ CheckTiers(p)
    \/ CountSeats(p)
    \/ MaterialiseTickets(p)
    \/ PublishRejected(p)
    \/ CommitPublish(p)
    \/ PublishFails(p)

EditStep(e, u) ==
    \/ \E v \in Venues, T \in SUBSET Sections : CreateEvent(e, u, v, T)
    \/ UpdateEvent(e, u)

OrganizerNext ==
    \/ \E v \in Venues : CreateVenue(v)
    \/ \E a \in Adders : AddSeatsStep(a)
    \/ \E e \in Events, u \in Organizers : EditStep(e, u)
    \/ \E p \in Publishers : PublishStep(p)

OrganizerSpec == OrganizerInit /\ [][OrganizerNext]_organizerVars
-----------------------------------------------------------------------------
EventColumns ==
    [status    : {"NONE", "DRAFT", "ON_SALE"},
     venue     : Venues \cup {Null},
     organizer : Organizers \cup {Null},
     tiers     : SUBSET Sections,
     version   : Nat,
     edits     : Nat,
     opening   : SUBSET Seats]

AddCalls == [pc : {"idle", "insert"}, venue : Venues \cup {Null}, seats : SUBSET Seats]

PublishCalls ==
    [pc      : {"idle", "tiers", "count", "insert", "commit"},
     event   : Events \cup {Null},
     opening : SUBSET Seats,
     count   : Nat,
     rows    : SUBSET Seats]

\* Every table, and every request in flight, has the columns the schema gives it; an
\* event, and a request past its first statement, has its venue (the foreign keys).
OrganizerTypeOK ==
    /\ venues \in SUBSET Venues
    /\ seats \in [Venues -> SUBSET Seats]
    /\ events \in [Events -> EventColumns]
    /\ \A e \in Events : events[e].status # "NONE" => events[e].venue \in venues
    /\ inventory \in [Events -> SUBSET Seats]
    /\ adding \in [Adders -> AddCalls]
    /\ \A a \in Adders : adding[a].pc # "idle" => adding[a].venue \in venues
    /\ publishing \in [Publishers -> PublishCalls]
    /\ \A p \in Publishers : publishing[p].pc # "idle" =>
           publishing[p].event \in Events /\ events[publishing[p].event].status # "NONE"

\* "a partially published event would either sell seats that do not exist or hide seats
\* that do" (events.go:228-230): whatever is added meanwhile, an event on sale sells only
\* priced seats of its venue, among them every seat the venue had when the publish call
\* began, and any other event sells nothing.
PublishedWhole ==
    \A e \in Events :
        IF events[e].status = "ON_SALE"
        THEN /\ events[e].opening \subseteq inventory[e]
             /\ inventory[e] \subseteq Priced(seats[events[e].venue], e)
             /\ inventory[e] # {}
        ELSE inventory[e] = {}

\* Inventory is materialised once: however many publish calls overlap, the tickets of a
\* published event are never added to again (events.go:245-246).
PublishedOnce ==
    [][\A e \in Events : events[e].status = "ON_SALE" =>
          inventory'[e] = inventory[e] /\ events'[e].status = "ON_SALE"]_organizerVars

\* "the version bump happens in the same transaction as the change" (events.go:161-164):
\* no two contents of an event ever share a version, since every change raises it.
VersionNamesContents ==
    [][\A e \in Events : events'[e] # events[e] => events'[e].version > events[e].version]_organizerVars

\* "Seats are immutable once an event has been published against the venue"
\* (venues.go:115).
SeatsFrozen ==
    [][\A v \in Venues : Published(v) # {} => seats'[v] = seats[v]]_organizerVars
=============================================================================
