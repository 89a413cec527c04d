--------------------------- MODULE OrganizerProofs ---------------------------
(***************************************************************************)
(* A publication is whole and happens once, for any number of venues,      *)
(* events, seats and overlapping requests.                                 *)
(*                                                                         *)
(* PublishedWhole is not inductive: what a publish call commits was        *)
(* gathered statement by statement, while seats were being added.  The     *)
(* strengthening says what each statement's answer still guarantees when   *)
(* it is used: the row lock keeps the event a DRAFT without tickets, and   *)
(* the sections that were priced stay priced.                              *)
(***************************************************************************)
EXTENDS Organizer, FiniteSetTheorems, TLAPS

\* No two publish calls hold the row of one event.
OneHolder ==
    \A p, q \in Publishers :
        publishing[p].event # Null /\ publishing[p].event = publishing[q].event => p = q

\* What the call p knows at its statement pc.
CallKnows(p) ==
    LET e == publishing[p].event
        priced == Priced(seats[events[e].venue], e)
    IN
    /\ publishing[p].pc = "idle" => e = Null
    /\ publishing[p].pc # "idle" => events[e].status = "DRAFT"
    /\ publishing[p].pc = "tiers" => publishing[p].opening \subseteq seats[events[e].venue]
    /\ publishing[p].pc \in {"count", "insert"} => publishing[p].opening \subseteq priced
    /\ publishing[p].pc = "insert" => publishing[p].count > 0
    /\ publishing[p].pc = "commit" =>
           /\ publishing[p].opening \subseteq publishing[p].rows
           /\ publishing[p].rows \subseteq priced
           /\ publishing[p].rows # {}

IInv ==
    /\ OrganizerTypeOK
    /\ OneHolder
    /\ \A p \in Publishers : CallKnows(p)
    /\ PublishedWhole

-----------------------------------------------------------------------------
LEMMA OrganizerInitIInv == OrganizerInit => IInv
<1> SUFFICES ASSUME OrganizerInit PROVE IInv
  OBVIOUS
<1>1. NoEvent \in EventColumns
  BY DEF NoEvent, EventColumns
<1>2. IdleAdd \in AddCalls /\ IdlePublish \in PublishCalls
  BY DEF IdleAdd, AddCalls, IdlePublish, PublishCalls
<1>3. OrganizerTypeOK
  BY <1>1, <1>2 DEF OrganizerInit, OrganizerTypeOK, NoEvent, IdleAdd, IdlePublish
<1>4. OneHolder /\ \A p \in Publishers : CallKnows(p)
  BY DEF OrganizerInit, OneHolder, CallKnows, IdlePublish
<1>5. PublishedWhole
  BY DEF OrganizerInit, PublishedWhole, NoEvent
<1> QED  BY <1>3, <1>4, <1>5 DEF IInv

\* The steps of AddSeats and CreateVenue only add venues and seats.
LEMMA AddSeatsStepIInv ==
    ASSUME IInv, NEW a \in Adders, AddSeatsStep(a)
    PROVE  IInv'
<1> USE DEF IInv
<1>1. IdleAdd \in AddCalls /\ IdleAdd.pc = "idle"
  BY DEF IdleAdd, AddCalls
<1>2. OrganizerTypeOK'
  <2>1. ASSUME NEW v \in Venues, NEW S \in SUBSET Seats \ {{}}, AddSeats(a, v, S)
        PROVE  OrganizerTypeOK'
    BY <2>1 DEF AddSeats, OrganizerTypeOK, AddCalls
  <2>2. CASE InsertSeats(a)
    BY <2>2, <1>1 DEF InsertSeats, OrganizerTypeOK, AddCalls
  <2>3. CASE AddSeatsFails(a)
    BY <2>3, <1>1 DEF AddSeatsFails, OrganizerTypeOK, AddCalls
  <2> QED  BY <2>1, <2>2, <2>3 DEF AddSeatsStep
<1>3. /\ UNCHANGED <<events, inventory, publishing>>
      /\ \A v \in Venues : seats[v] \subseteq seats'[v]
  BY DEF AddSeatsStep, AddSeats, InsertSeats, AddSeatsFails, OrganizerTypeOK
<1>4. \A e \in Events : events[e].status # "NONE" =>
          /\ seats[events[e].venue] \subseteq seats'[events[e].venue]
          /\ Priced(seats[events[e].venue], e) \subseteq Priced(seats[events[e].venue], e)'
  BY <1>3 DEF OrganizerTypeOK, Priced
<1>5. OneHolder'
  BY <1>3 DEF OneHolder
<1>6. \A p \in Publishers : CallKnows(p)'
  BY <1>3, <1>4 DEF CallKnows, OrganizerTypeOK
<1>7. PublishedWhole'
  BY <1>3, <1>4 DEF PublishedWhole, Priced
<1> QED  BY <1>2, <1>5, <1>6, <1>7

LEMMA CreateVenueIInv ==
    ASSUME IInv, NEW v \in Venues, CreateVenue(v)
    PROVE  IInv'
<1> USE DEF IInv
<1>1. OrganizerTypeOK'
  BY DEF CreateVenue, OrganizerTypeOK
<1>2. UNCHANGED <<seats, events, inventory, publishing>>
  BY DEF CreateVenue
<1>3. OneHolder' /\ \A p \in Publishers : CallKnows(p)'
  BY <1>2 DEF OneHolder, CallKnows, Priced
<1>4. PublishedWhole'
  BY <1>2 DEF PublishedWhole, Priced
<1> QED  BY <1>1, <1>3, <1>4

\* An edit needs the row that a publish call holds, so it meets none in flight.
LEMMA EditStepIInv ==
    ASSUME IInv, NEW e \in Events, NEW u \in Organizers, EditStep(e, u)
    PROVE  IInv'
<1> USE DEF IInv
<1>1. CASE UpdateEvent(e, u)
  <2>1. OrganizerTypeOK'
    BY <1>1 DEF UpdateEvent, OrganizerTypeOK, EventColumns
  <2>2. /\ UNCHANGED <<seats, inventory, publishing>>
        /\ \A f \in Events : /\ events'[f].status = events[f].status
                             /\ events'[f].venue = events[f].venue
                             /\ events'[f].tiers = events[f].tiers
                             /\ events'[f].opening = events[f].opening
    BY <1>1 DEF UpdateEvent, OrganizerTypeOK, EventColumns
  <2>3. OneHolder'
    BY <2>2 DEF OneHolder
  <2>4. \A p \in Publishers : CallKnows(p)'
    BY <2>2 DEF CallKnows, Priced, OrganizerTypeOK
  <2>5. PublishedWhole'
    BY <2>2 DEF PublishedWhole, Priced
  <2> QED  BY <2>1, <2>3, <2>4, <2>5
<1>2. ASSUME NEW v \in Venues, NEW T \in SUBSET Sections, CreateEvent(e, u, v, T)
      PROVE  IInv'
  <2>1. /\ events'[e].status = "DRAFT" /\ events'[e].venue = v
        /\ events'[e] \in EventColumns
        /\ \A f \in Events : f # e => events'[f] = events[f]
        /\ v \in venues
        /\ UNCHANGED <<venues, seats, inventory, adding, publishing>>
    BY <1>2 DEF CreateEvent, OrganizerTypeOK, NoEvent, EventColumns
  <2>2. events[e].status = "NONE"
    BY <1>2 DEF CreateEvent
  <2>3. OrganizerTypeOK'
    <3>1. events' \in [Events -> EventColumns]
      BY <1>2, <2>1 DEF CreateEvent, OrganizerTypeOK
    <3> QED  BY <2>1, <3>1 DEF OrganizerTypeOK
  <2>4. OneHolder'
    BY <2>1 DEF OneHolder
  <2>5. \A p \in Publishers : CallKnows(p)'
    <3> SUFFICES ASSUME NEW p \in Publishers PROVE CallKnows(p)'
      OBVIOUS
    <3>1. CASE publishing[p].pc = "idle"
      BY <2>1, <3>1 DEF CallKnows
    <3>2. CASE publishing[p].pc # "idle"
      <4>1. publishing[p].event \in Events /\ publishing[p].event # e
        BY <2>2, <3>2 DEF OrganizerTypeOK
      <4> QED  BY <2>1, <4>1 DEF CallKnows, Priced
    <3> QED  BY <3>1, <3>2
  <2>6. PublishedWhole'
    BY <2>1, <2>2 DEF PublishedWhole, Priced
  <2> QED  BY <2>3, <2>4, <2>5, <2>6
<1> QED  BY <1>1, <1>2 DEF EditStep

-----------------------------------------------------------------------------
\* Whatever a publish call does before its commit concerns its own record only.
LEMMA OwnRecordOnly ==
    ASSUME IInv, NEW p \in Publishers, NEW call \in PublishCalls,
           publishing' = [publishing EXCEPT ![p] = call],
           UNCHANGED <<venues, seats, events, inventory, adding>>,
           call.pc # "idle" => call.event \in Events /\ events[call.event].status # "NONE",
           call.event # Null =>
               \A q \in Publishers : publishing[q].event = call.event => q = p,
           CallKnows(p)'
    PROVE  IInv'
<1> USE DEF IInv
<1>1. publishing' \in [Publishers -> PublishCalls] /\ publishing'[p] = call
  BY DEF OrganizerTypeOK
<1>2. \A q \in Publishers : q # p => publishing'[q] = publishing[q]
  BY DEF OrganizerTypeOK
<1>3. OrganizerTypeOK'
  BY <1>1, <1>2 DEF OrganizerTypeOK
<1>4. OneHolder'
  BY <1>1, <1>2 DEF OneHolder
<1>5. \A q \in Publishers : CallKnows(q)'
  BY <1>2 DEF CallKnows, Priced
<1>6. PublishedWhole'
  BY DEF PublishedWhole, Priced
<1> QED  BY <1>3, <1>4, <1>5, <1>6

LEMMA PublishEventIInv ==
    ASSUME IInv, NEW p \in Publishers, NEW e \in Events, NEW u \in Organizers,
           PublishEvent(p, e, u)
    PROVE  IInv'
<1> DEFINE call == [IdlePublish EXCEPT !.pc = "tiers", !.event = e,
                                       !.opening = seats[events[e].venue]]
<1> USE DEF IInv
<1>1. /\ publishing' = [publishing EXCEPT ![p] = call]
      /\ UNCHANGED <<venues, seats, events, inventory, adding>>
      /\ events[e].status = "DRAFT"
      /\ \A q \in Publishers : publishing[q].event # e
  BY DEF PublishEvent, RowLocked
<1>2. seats[events[e].venue] \in SUBSET Seats
  BY <1>1 DEF OrganizerTypeOK
<1>3. call \in PublishCalls /\ call.event = e /\ call.pc = "tiers"
      /\ call.opening = seats[events[e].venue]
  BY <1>2 DEF IdlePublish, PublishCalls
<1>4. publishing'[p] = call
  BY <1>1 DEF OrganizerTypeOK
<1>5. CallKnows(p)'
  BY <1>1, <1>3, <1>4 DEF CallKnows
<1> HIDE DEF call
<1> QED  BY <1>1, <1>3, <1>5, OwnRecordOnly

\* The statements between the row lock and the commit.
LEMMA PublishReadsIInv ==
    ASSUME IInv, NEW p \in Publishers,
           CheckTiers(p) \/ CountSeats(p) \/ MaterialiseTickets(p)
    PROVE  IInv'
<1> DEFINE e == publishing[p].event
<1> USE DEF IInv
<1>1. /\ publishing[p] \in PublishCalls /\ publishing[p].pc # "idle"
      /\ e \in Events /\ events[e].status = "DRAFT"
      /\ VenueSeats(p) = seats[events[e].venue]
      /\ VenueSeats(p) \in SUBSET Seats
      /\ e # Null
  BY OrganizerAssumption
  DEF CheckTiers, CountSeats, MaterialiseTickets, OrganizerTypeOK, CallKnows, VenueSeats
<1>2. IsFiniteSet(VenueSeats(p)) /\ Cardinality(VenueSeats(p)) \in Nat
  BY <1>1, OrganizerAssumption, FS_Subset, FS_CardinalityType
<1>3. \A q \in Publishers : publishing[q].event = e => q = p
  BY <1>1 DEF OneHolder
<1>4. CASE CheckTiers(p)
  <2> DEFINE call == [publishing[p] EXCEPT !.pc = "count"]
  <2>1. /\ publishing' = [publishing EXCEPT ![p] = call]
        /\ UNCHANGED <<venues, seats, events, inventory, adding>>
    BY <1>4 DEF CheckTiers
  <2>2. call \in PublishCalls /\ call.event = e /\ call.pc = "count"
        /\ call.opening = publishing[p].opening
    BY <1>1 DEF PublishCalls
  <2>3. call.opening \subseteq Priced(seats[events[e].venue], e)
    BY <1>1, <1>4, <2>2 DEF CheckTiers, EverySectionPriced, CallKnows
  <2>4. publishing'[p] = call
    BY <2>1 DEF OrganizerTypeOK
  <2>5. CallKnows(p)'
    BY <1>1, <2>1, <2>2, <2>3, <2>4 DEF CallKnows, Priced
  <2> HIDE DEF call
  <2> QED  BY <1>1, <1>3, <2>1, <2>2, <2>5, OwnRecordOnly
<1>5. CASE CountSeats(p)
  <2> DEFINE call == [publishing[p] EXCEPT !.pc = "insert", !.count = Cardinality(VenueSeats(p))]
  <2>1. /\ publishing' = [publishing EXCEPT ![p] = call]
        /\ UNCHANGED <<venues, seats, events, inventory, adding>>
        /\ VenueSeats(p) # {} /\ publishing[p].pc = "count"
    BY <1>5 DEF CountSeats
  <2>2. call \in PublishCalls /\ call.event = e /\ call.pc = "insert"
        /\ call.opening = publishing[p].opening /\ call.count = Cardinality(VenueSeats(p))
    BY <1>1, <1>2 DEF PublishCalls
  <2>3. call.count > 0
    BY <1>2, <2>1, <2>2, FS_EmptySet
  <2>4. publishing'[p] = call
    BY <2>1 DEF OrganizerTypeOK
  <2>5. CallKnows(p)'
    BY <1>1, <2>1, <2>2, <2>3, <2>4 DEF CallKnows, Priced
  <2> HIDE DEF call
  <2> QED  BY <1>1, <1>3, <2>1, <2>2, <2>5, OwnRecordOnly
<1>6. CASE MaterialiseTickets(p)
  <2> DEFINE call == [publishing[p] EXCEPT !.pc = "commit", !.rows = NewRows(p)]
  <2>1. /\ publishing' = [publishing EXCEPT ![p] = call]
        /\ UNCHANGED <<venues, seats, events, inventory, adding>>
        /\ Cardinality(NewRows(p)) = publishing[p].count /\ publishing[p].pc = "insert"
    BY <1>6 DEF MaterialiseTickets
  <2>2. NewRows(p) = Priced(seats[events[e].venue], e)
    <3>1. inventory[e] = {}
      BY <1>1 DEF PublishedWhole
    <3> QED  BY <1>1, <3>1 DEF NewRows, VenueSeats
  <2>3. NewRows(p) \in SUBSET Seats
    BY <1>1, <2>2 DEF Priced
  <2>4. NewRows(p) # {}
    <3> SUFFICES ASSUME NewRows(p) = {} PROVE FALSE
      OBVIOUS
    <3>1. Cardinality({}) = 0
      BY FS_EmptySet
    <3>2. publishing[p].count = 0
      BY <2>1, <3>1
    <3>3. publishing[p].count > 0
      BY <2>1 DEF CallKnows
    <3> QED  BY <3>2, <3>3
  <2>5. call \in PublishCalls /\ call.event = e /\ call.pc = "commit"
        /\ call.opening = publishing[p].opening /\ call.rows = NewRows(p)
    BY <1>1, <2>3 DEF PublishCalls
  <2>6. call.opening \subseteq call.rows
    BY <2>1, <2>2, <2>5 DEF CallKnows
  <2>7. publishing'[p] = call
    BY <2>1 DEF OrganizerTypeOK
  <2>8. CallKnows(p)'
    <3>1. Priced(seats[events[e].venue], e)' = Priced(seats[events[e].venue], e)
      BY <2>1, <2>5, <2>7 DEF Priced
    <3>2. call.rows = Priced(seats[events[e].venue], e) /\ call.rows # {}
      BY <2>2, <2>4, <2>5
    <3> HIDE DEF call
    <3> QED  BY <1>1, <2>1, <2>5, <2>6, <2>7, <3>1, <3>2 DEF CallKnows
  <2> HIDE DEF call
  <2> QED  BY <1>1, <1>3, <2>1, <2>5, <2>8, OwnRecordOnly
<1> QED  BY <1>4, <1>5, <1>6

\* A call that is refused or dies rolls its transaction back.
LEMMA PublishEndsIInv ==
    ASSUME IInv, NEW p \in Publishers, PublishRejected(p) \/ PublishFails(p)
    PROVE  IInv'
<1>1. /\ publishing' = [publishing EXCEPT ![p] = IdlePublish]
      /\ UNCHANGED <<venues, seats, events, inventory, adding>>
  BY DEF PublishRejected, PublishFails
<1>2. IdlePublish \in PublishCalls /\ IdlePublish.pc = "idle" /\ IdlePublish.event = Null
  BY DEF IdlePublish, PublishCalls
<1>3. publishing'[p] = IdlePublish
  BY <1>1 DEF IInv, OrganizerTypeOK
<1>4. CallKnows(p)'
  BY <1>2, <1>3 DEF CallKnows
<1> QED  BY <1>1, <1>2, <1>4, OwnRecordOnly

\* The commit turns a DRAFT without tickets into an event on sale, and nothing else.
LEMMA CommitPublishIInv ==
    ASSUME IInv, NEW p \in Publishers, CommitPublish(p)
    PROVE  IInv'
<1> USE DEF IInv
<1>0. PICK e \in Events : e = publishing[p].event
  BY DEF CommitPublish, OrganizerTypeOK
<1>1. /\ e # Null /\ events[e].status = "DRAFT"
      /\ publishing[p].opening \subseteq publishing[p].rows
      /\ publishing[p].rows \subseteq Priced(seats[events[e].venue], e)
      /\ publishing[p].rows # {}
      /\ publishing[p] \in PublishCalls
  BY <1>0, OrganizerAssumption DEF CommitPublish, CallKnows, OrganizerTypeOK
<1>2. inventory[e] = {}
  BY <1>1 DEF PublishedWhole
<1>3. /\ events'[e].status = "ON_SALE" /\ events'[e].opening = publishing[p].opening
      /\ events'[e].venue = events[e].venue /\ events'[e].tiers = events[e].tiers
      /\ events'[e] \in EventColumns
      /\ inventory'[e] = publishing[p].rows
      /\ UNCHANGED <<venues, seats, adding>>
  BY <1>0, <1>1, <1>2 DEF CommitPublish, OrganizerTypeOK, EventColumns, PublishCalls
<1>4. \A f \in Events : f # e => events'[f] = events[f] /\ inventory'[f] = inventory[f]
  BY <1>0 DEF CommitPublish, OrganizerTypeOK
<1>5. publishing'[p] = IdlePublish /\ \A q \in Publishers : q # p => publishing'[q] = publishing[q]
  BY DEF CommitPublish, OrganizerTypeOK
<1>6. IdlePublish \in PublishCalls /\ IdlePublish.pc = "idle" /\ IdlePublish.event = Null
  BY DEF IdlePublish, PublishCalls
<1>7. OrganizerTypeOK'
  <2>1. /\ events' \in [Events -> EventColumns]
        /\ inventory' \in [Events -> SUBSET Seats]
        /\ publishing' \in [Publishers -> PublishCalls]
    BY <1>0, <1>1, <1>3, <1>4, <1>5, <1>6 DEF CommitPublish, OrganizerTypeOK, PublishCalls
  <2>2. \A f \in Events : events'[f].status # "NONE" => events'[f].venue \in venues
    BY <1>1, <1>3, <1>4 DEF OrganizerTypeOK
  <2>3. \A q \in Publishers : publishing'[q].pc # "idle" =>
            publishing'[q].event \in Events /\ events'[publishing'[q].event].status # "NONE"
    BY <1>3, <1>4, <1>5, <1>6 DEF OrganizerTypeOK
  <2> QED  BY <1>3, <2>1, <2>2, <2>3 DEF OrganizerTypeOK
<1>8. OneHolder'
  BY <1>5, <1>6 DEF OneHolder
<1>9. ASSUME NEW q \in Publishers PROVE CallKnows(q)'
  <2>1. CASE q = p
    BY <1>5, <1>6, <2>1 DEF CallKnows
  <2>2. CASE q # p /\ publishing[q].pc = "idle"
    BY <1>5, <2>2 DEF CallKnows
  <2>3. CASE q # p /\ publishing[q].pc # "idle"
    <3>1. publishing[q].event \in Events /\ publishing[q].event # e
      BY <1>0, <1>1, <2>3 DEF OneHolder, OrganizerTypeOK
    <3>2. events'[publishing[q].event] = events[publishing[q].event]
          /\ publishing'[q] = publishing[q] /\ seats' = seats
      BY <1>3, <1>4, <1>5, <2>3, <3>1
    <3> QED  BY <3>2 DEF CallKnows, Priced
  <2> QED  BY <2>1, <2>2, <2>3
<1>10. PublishedWhole'
  <2>1. \A f \in Events : Priced(seats[events[f].venue], f)' = Priced(seats[events[f].venue], f)
    BY <1>1, <1>3, <1>4 DEF Priced
  <2>2. ASSUME NEW f \in Events, f # e
        PROVE  IF events'[f].status = "ON_SALE"
               THEN /\ events'[f].opening \subseteq inventory'[f]
                    /\ inventory'[f] \subseteq Priced(seats[events[f].venue], f)'
                    /\ inventory'[f] # {}
               ELSE inventory'[f] = {}
    BY <1>4, <2>1, <2>2 DEF PublishedWhole
  <2>3. /\ events'[e].opening \subseteq inventory'[e]
        /\ inventory'[e] \subseteq Priced(seats[events[e].venue], e)'
        /\ inventory'[e] # {}
    BY <1>1, <1>3, <2>1
  <2> QED  BY <1>3, <2>2, <2>3 DEF PublishedWhole
<1> QED  BY <1>7, <1>8, <1>9, <1>10

-----------------------------------------------------------------------------
LEMMA OrganizerStepIInv == IInv /\ [OrganizerNext]_organizerVars => IInv'
<1> SUFFICES ASSUME IInv, [OrganizerNext]_organizerVars PROVE IInv'
  OBVIOUS
<1>1. ASSUME NEW v \in Venues, CreateVenue(v) PROVE IInv'
  BY <1>1, CreateVenueIInv
<1>2. ASSUME NEW a \in Adders, AddSeatsStep(a) PROVE IInv'
  BY <1>2, AddSeatsStepIInv
<1>3. ASSUME NEW e \in Events, NEW u \in Organizers, EditStep(e, u) PROVE IInv'
  BY <1>3, EditStepIInv
<1>4. ASSUME NEW p \in Publishers, PublishStep(p) PROVE IInv'
  BY <1>4, PublishEventIInv, PublishReadsIInv, PublishEndsIInv, CommitPublishIInv
  DEF PublishStep
<1>5. CASE UNCHANGED organizerVars
  BY <1>5 DEF organizerVars, IInv, OrganizerTypeOK, OneHolder, CallKnows, PublishedWhole, Priced
<1> QED  BY <1>1, <1>2, <1>3, <1>4, <1>5 DEF OrganizerNext

\* What the publish and edit calls rely on holds at every moment.
LEMMA OrganizerInvariant == OrganizerSpec => []IInv
<1> QED  BY OrganizerInitIInv, OrganizerStepIInv, PTL DEF OrganizerSpec

\* Every row, and every request in flight, keeps the columns and foreign keys of the schema.
THEOREM OrganizerTypeCorrect == OrganizerSpec => []OrganizerTypeOK
<1>1. IInv => OrganizerTypeOK
  BY DEF IInv
<1> QED  BY <1>1, OrganizerInvariant, PTL

\* A publication is whole: whatever AddSeats commits between its statements, an event on
\* sale sells priced seats only and all of those the venue had when the publication began
\* (organizer/events.go:228-310).
THEOREM PublicationIsWhole == OrganizerSpec => []PublishedWhole
<1>1. IInv => PublishedWhole
  BY DEF IInv
<1> QED  BY <1>1, OrganizerInvariant, PTL

\* A publication happens once: a call that commits found its event a DRAFT and has held
\* its row since, so the tickets of an event on sale are never touched again.
THEOREM PublicationHappensOnce == OrganizerSpec => PublishedOnce
<1> DEFINE Once == \A e \in Events : events[e].status = "ON_SALE" =>
                      inventory'[e] = inventory[e] /\ events'[e].status = "ON_SALE"
<1>1. IInv /\ [OrganizerNext]_organizerVars => [Once]_organizerVars
  <2> SUFFICES ASSUME IInv, OrganizerNext, NEW e \in Events, events[e].status = "ON_SALE"
               PROVE  inventory'[e] = inventory[e] /\ events'[e].status = "ON_SALE"
    OBVIOUS
  <2>1. ASSUME NEW v \in Venues, CreateVenue(v)
        PROVE  UNCHANGED <<inventory, events>>
    BY <2>1 DEF CreateVenue
  <2>2. ASSUME NEW a \in Adders, AddSeatsStep(a)
        PROVE  UNCHANGED <<inventory, events>>
    BY <2>2 DEF AddSeatsStep, AddSeats, InsertSeats, AddSeatsFails
  <2>3. ASSUME NEW f \in Events, NEW u \in Organizers, EditStep(f, u)
        PROVE  inventory'[e] = inventory[e] /\ events'[e].status = "ON_SALE"
    <3>1. CASE UpdateEvent(f, u)
      BY <3>1 DEF UpdateEvent, IInv, OrganizerTypeOK, EventColumns
    <3>2. ASSUME NEW v \in Venues, NEW T \in SUBSET Sections, CreateEvent(f, u, v, T)
          PROVE  inventory'[e] = inventory[e] /\ events'[e] = events[e]
      <4>1. f # e
        BY <3>2 DEF CreateEvent
      <4> QED  BY <3>2, <4>1 DEF CreateEvent, IInv, OrganizerTypeOK
    <3> QED  BY <2>3, <3>1, <3>2 DEF EditStep
  <2>4. ASSUME NEW p \in Publishers, CommitPublish(p)
        PROVE  inventory'[e] = inventory[e] /\ events'[e].status = "ON_SALE"
    <3>1. events[publishing[p].event].status = "DRAFT"
      BY <2>4 DEF IInv, CallKnows, CommitPublish
    <3>2. publishing[p].event # e
      BY <3>1
    <3> QED  BY <2>4, <3>2 DEF CommitPublish, IInv, OrganizerTypeOK
  <2>5. ASSUME NEW p \in Publishers, PublishStep(p), ~CommitPublish(p)
        PROVE  UNCHANGED <<inventory, events>>
    BY <2>5 DEF PublishStep, PublishEvent, CheckTiers, CountSeats, MaterialiseTickets,
                PublishRejected, PublishFails
  <2> QED  BY <2>1, <2>2, <2>3, <2>4, <2>5 DEF OrganizerNext
<1> QED  BY <1>1, OrganizerInvariant, PTL DEF OrganizerSpec, PublishedOnce

\* The columns of an event change in an edit or in a commit, and both raise its version;
\* an event that is yet to be created has version 0.
Unversioned == \A e \in Events : events[e].status = "NONE" => events[e].version = 0

LEMMA EventsStep ==
    ASSUME IInv, OrganizerNext, Unversioned, NEW e \in Events, events'[e] # events[e]
    PROVE  /\ events'[e].version > events[e].version
           /\ events'[e].status # "NONE"
<1> USE DEF IInv
<1>0. events[e].version \in Nat
  BY DEF OrganizerTypeOK, EventColumns
<1>1. ASSUME NEW v \in Venues, CreateVenue(v) PROVE FALSE
  BY <1>1 DEF CreateVenue
<1>2. ASSUME NEW a \in Adders, AddSeatsStep(a) PROVE FALSE
  BY <1>2 DEF AddSeatsStep, AddSeats, InsertSeats, AddSeatsFails
<1>3. ASSUME NEW f \in Events, NEW u \in Organizers, UpdateEvent(f, u)
      PROVE  events'[e].version = events[e].version + 1 /\ events'[e].status # "NONE"
  <2>1. f = e
    BY <1>3 DEF UpdateEvent, OrganizerTypeOK
  <2> QED  BY <1>3, <2>1 DEF UpdateEvent, OrganizerTypeOK, EventColumns
<1>4. ASSUME NEW f \in Events, NEW u \in Organizers, NEW v \in Venues,
             NEW T \in SUBSET Sections, CreateEvent(f, u, v, T)
      PROVE  events'[e].version = events[e].version + 1 /\ events'[e].status # "NONE"
  <2>1. f = e
    BY <1>4 DEF CreateEvent, OrganizerTypeOK
  <2>2. events[e].version = 0
    BY <1>4, <2>1 DEF CreateEvent, Unversioned
  <2>3. events'[e].version = 1 /\ events'[e].status = "DRAFT"
    BY <1>4, <2>1 DEF CreateEvent, OrganizerTypeOK, NoEvent
  <2> QED  BY <2>2, <2>3
<1>5. ASSUME NEW p \in Publishers, CommitPublish(p)
      PROVE  events'[e].version = events[e].version + 1 /\ events'[e].status # "NONE"
  <2>1. publishing[p].event = e
    BY <1>5 DEF CommitPublish, OrganizerTypeOK
  <2> QED  BY <1>5, <2>1 DEF CommitPublish, OrganizerTypeOK, EventColumns
<1>6. ASSUME NEW p \in Publishers, PublishStep(p), ~CommitPublish(p) PROVE FALSE
  BY <1>6 DEF PublishStep, PublishEvent, CheckTiers, CountSeats, MaterialiseTickets,
              PublishRejected, PublishFails
<1> QED
  BY <1>0, <1>1, <1>2, <1>3, <1>4, <1>5, <1>6 DEF OrganizerNext, EditStep

\* Every change of an event raises its version, so that a reader who caches an event under
\* its version never mixes two contents (organizer/events.go:161-164, 195).
THEOREM VersionsNameContents == OrganizerSpec => VersionNamesContents
<1> DEFINE Raised == \A e \in Events :
                        events'[e] # events[e] => events'[e].version > events[e].version
<1>1. IInv /\ Unversioned /\ [OrganizerNext]_organizerVars => [Raised]_organizerVars
  BY EventsStep
<1>2. OrganizerInit => Unversioned
  BY DEF OrganizerInit, Unversioned, NoEvent
<1>3. IInv /\ Unversioned /\ [OrganizerNext]_organizerVars => Unversioned'
  BY EventsStep DEF Unversioned, organizerVars
<1> QED  BY <1>1, <1>2, <1>3, OrganizerInvariant, PTL DEF OrganizerSpec, VersionNamesContents
=============================================================================
