----------------------------- MODULE SearchPages -----------------------------
(***************************************************************************)
(* Keyset pagination (search/query.go, search/postgres.go,                 *)
(* internal/cursor): a client asks for page after page of one search while *)
(* events are published and edited.                                        *)
(*                                                                         *)
(* What the filters of the statement select is a set, `matching', that an  *)
(* edit changes; starts_at is written by CreateEvent alone.  The client    *)
(* chooses the limit of every page.                                        *)
(***************************************************************************)
EXTENDS Naturals, Integers, Sequences, SequencesExt

CONSTANTS
    SearchEvents,   \* events.event_id
    StartsAt,       \* events.starts_at, as <<second, fraction>>
    RawLimits,      \* values of the limit parameter; 0 stands for none too
    DefaultLimit,
    MaxLimit

ASSUME SearchAssumption ==
    /\ IsFiniteSet(SearchEvents) /\ SearchEvents \subseteq Nat \ {0}
    /\ StartsAt \in [SearchEvents -> Nat \X Nat]
    /\ \A e \in SearchEvents : StartsAt[e] # <<0, 0>>   \* year 1
    /\ RawLimits \subseteq Int
    /\ MaxLimit \in Nat /\ DefaultLimit \in 1 .. MaxLimit

VARIABLES
    matching,   \* the events on sale that the filters select
    walk        \* the client: cursor, rows shown, events that matched throughout

searchVars == <<matching, walk>>

\* A cursor: the instant and the id, as JSON in base64.
ZeroTime == <<0, 0>>
NoCursor == [s |-> ZeroTime, e |-> 0]

NewWalk == [pc |-> "new", cursor |-> NoCursor, shown |-> <<>>, steady |-> {}]

\* Clamped, not rejected; a limit that is no number is an error and changes nothing.
parseLimit(raw) ==
    IF raw <= 0 THEN DefaultLimit ELSE IF raw > MaxLimit THEN MaxLimit ELSE raw

\* The sort key (starts_at, event_id).
SortKey(e) == <<StartsAt[e][1], StartsAt[e][2], e>>

\* Row comparison of two sort keys.
KeyBefore(a, b) ==
    \E i \in 1 .. 3 : a[i] < b[i] /\ \A j \in 1 .. i - 1 : a[j] = b[j]

\* Mutation: RFC 3339 without the fraction of a second.
EncodeSeconds(e) == [s |-> <<StartsAt[e][1], 0>>, e |-> e]

\* The time is written to the nanosecond (RFC3339Nano), finer than starts_at is.
Encode(e) == [s |-> StartsAt[e], e |-> e]

\* A cursor without an id or a time is rejected.
Decodable(c) == c.e > 0 /\ c.s # ZeroTime

Decode(c) == <<c.s[1], c.s[2], c.e>>

\* Mutation: the predicate compares start times only.
LaterOnly(c, e) ==
    c = NoCursor \/ KeyBefore(<<c.s[1], c.s[2], 0>>, <<StartsAt[e][1], StartsAt[e][2], 0>>)

\* (starts_at, event_id) > (after_starts_at, after_event_id)
AfterCursor(c, e) == c = NoCursor \/ KeyBefore(Decode(c), SortKey(e))

\* WHERE
Following(c) == {e \in matching : AfterCursor(c, e)}

\* ORDER BY starts_at, event_id LIMIT n of the rows S.
FirstRows(S, n) ==
    {rows \in SeqOf(S, n) :
        /\ \A i, j \in DOMAIN rows : i < j => KeyBefore(SortKey(rows[i]), SortKey(rows[j]))
        /\ \A e \in S \ Range(rows) :
               Len(rows) = n /\ KeyBefore(SortKey(rows[n]), SortKey(e))}

\* The probe row, one past the limit, belongs to the next page.
Page(rows, limit) == IF Len(rows) > limit THEN SubSeq(rows, 1, limit) ELSE rows

-----------------------------------------------------------------------------
\* LIMIT limit + 1: the extra row tells whether there is a next page.
Search(raw) ==
    LET limit == parseLimit(raw) IN
    /\ walk.pc # "done"
    /\ walk.cursor # NoCursor => Decodable(walk.cursor)
    /\ \E rows \in FirstRows(Following(walk.cursor), limit + 1) :
           LET page == Page(rows, limit)
               hasMore == Len(rows) > limit
           IN  walk' = [pc     |-> IF hasMore THEN "more" ELSE "done",
                        cursor |-> IF hasMore THEN Encode(Last(page)) ELSE NoCursor,
                        shown  |-> walk.shown \o page,
                        steady |-> IF walk.pc = "new" THEN matching ELSE walk.steady]
    /\ UNCHANGED matching

\* PublishEvent, or an UpdateEvent after which the filters select the event.
StartMatching(e) ==
    /\ e \notin matching
    /\ matching' = matching \cup {e}
    /\ UNCHANGED walk

\* An UpdateEvent of the title, description or category.
StopMatching(e) ==
    /\ e \in matching
    /\ matching' = matching \ {e}
    /\ walk' = [walk EXCEPT !.steady = @ \ {e}]

SearchAgain ==
    /\ walk.pc = "done"
    /\ walk' = NewWalk
    /\ UNCHANGED matching

SearchInit == matching \in SUBSET SearchEvents /\ walk = NewWalk

SearchNext ==
    \/ \E raw \in RawLimits : Search(raw)
    \/ \E e \in SearchEvents : StartMatching(e) \/ StopMatching(e)
    \/ SearchAgain

SearchSpec == SearchInit /\ [][SearchNext]_searchVars
-----------------------------------------------------------------------------
\* "comparing on starts_at alone would skip or repeat events" (postgres.go:30-32):
\* however the pages are cut and whatever is published or edited between them, no
\* event is shown twice or out of order, and a walk that has reached the last page
\* has shown every event that matched all along.
PagesExact ==
    /\ \A i, j \in DOMAIN walk.shown :
           i < j => KeyBefore(SortKey(walk.shown[i]), SortKey(walk.shown[j]))
    /\ walk.pc = "done" => walk.steady \subseteq Range(walk.shown)
=============================================================================
