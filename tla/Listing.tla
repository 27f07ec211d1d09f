------------------------------ MODULE Listing -------------------------------
(***************************************************************************)
(* Paging through rows that change meanwhile.  The inbox, the chats, the   *)
(* messages of a chat and the files are ordered by a key (last activity,   *)
(* or the time sent) that may be missing or equal, and by their number; a  *)
(* cursor names the last row of a page.  Old clients page the chats and    *)
(* the messages by an offset.  Search pages by an offset too, over a       *)
(* ranking that is computed anew for each page.                            *)
(***************************************************************************)
EXTENDS Naturals, FiniteSets, FiniteSetsExt

CONSTANTS
    Rows,        \* numbers of the rows
    MaxKey,      \* keys are 0..MaxKey, 0 for a missing one
    PageLimit,   \* limit of a page
    MaxChanges   \* bound on the changes of rows during a walk

ASSUME ListingConstants == /\ Rows \subseteq Nat \ {0} /\ IsFiniteSet(Rows)
                           /\ MaxKey \in Nat /\ PageLimit \in Nat \ {0} /\ MaxChanges \in Nat

VARIABLES
    key,       \* the key of each row, Absent when there is none
    walk,      \* what it lists, its order, how it goes, its cursor and offset, and
               \* whether a page was asked for in another order or with other filters
    returned,  \* how often each row was returned
    steady,    \* rows that were there when the walk began and have not changed since
    changes    \* changes so far

listingVars == <<key, walk, returned, steady, changes>>

Absent == MaxKey + 1
Orders == {"newest", "oldest"}
Listings == {"inbox", "chats", "messages", "files", "search"}
Ways == {"cursor", "offset", "rank"}
Start == <<0, 0>>     \* no cursor yet: rows are numbered from 1

ListingTypeOK ==
    /\ key \in [Rows -> 0..Absent]
    /\ walk \in [at : {"off", "on", "ended"}, of : Listings, order : Orders, by : Ways,
                 turned : BOOLEAN, cursor : (0..MaxKey) \X (Rows \cup {0}),
                 offset : 0..(2 * Cardinality(Rows))]
    /\ returned \in [Rows -> Nat]
    /\ steady \subseteq Rows
    /\ changes \in 0..MaxChanges

InitListing ==
    /\ key = [r \in Rows |-> Absent]
    /\ walk = [at |-> "off", of |-> "inbox", order |-> "newest", by |-> "cursor",
               turned |-> FALSE, cursor |-> Start, offset |-> 0]
    /\ returned = [r \in Rows |-> 0]
    /\ steady = {}
    /\ changes = 0

Listed == {r \in Rows : key[r] # Absent}
Place(r) == <<key[r], r>>

\* The place p comes before q; a missing key counts as the lowest one, last of the newest.
Precedes(order, p, q) ==
    LET below(a, b) == a[1] < b[1] \/ (a[1] = b[1] /\ a[2] < b[2])
    IN  IF order = "newest" THEN below(q, p) ELSE below(p, q)

\* A bug: the cursor compares keys only.
AfterKey(order, cursor, r) ==
    IF order = "newest" THEN key[r] < cursor[1] ELSE key[r] > cursor[1]

\* The condition a cursor adds.
After(order, cursor, r) == Precedes(order, cursor, Place(r))

Behind(order, rows, r) == {o \in rows : Precedes(order, Place(o), Place(r))}

\* The first n of some rows in the order.
Leading(order, rows, n) == {r \in rows : Cardinality(Behind(order, rows, r)) < n}

\* A row appears, moves or disappears (a new message, new activity, a deletion).
RowChanges(r) ==
    /\ walk.at = "on" /\ changes < MaxChanges
    /\ \E k \in 0..Absent : k # key[r] /\ key' = [key EXCEPT ![r] = k]
    /\ steady' = steady \ {r}
    /\ changes' = changes + 1
    /\ UNCHANGED <<walk, returned>>

\* Only files and messages go in both orders; the messages of a chat from the oldest
\* on are asked for behind one that is known.
Offers(of, order) == order = "newest" \/ of \in {"files", "messages"}

\* A walk begins, over whatever rows there are.
WalkBegins(of, order, by) ==
    /\ walk.at = "off" /\ Offers(of, order)
    /\ by = "rank" <=> of = "search"
    /\ by = "offset" => of \in {"chats", "messages"} /\ order = "newest"
    /\ key' \in [Rows -> 0..Absent]
    /\ \E from \in {Start} \cup {<<key'[r], r>> : r \in {o \in Rows : key'[o] # Absent}} :
         /\ from # Start <=> of = "messages" /\ order = "oldest"
         /\ walk' = [walk EXCEPT !.at = "on", !.of = of, !.order = order, !.by = by,
                                 !.cursor = from]
         /\ steady' = {r \in Rows : /\ key'[r] # Absent
                                    /\ from = Start \/ Precedes(order, from, <<key'[r], r>>)}
    /\ UNCHANGED <<returned, changes>>

\* One row more than the page was asked for.
More(rows) == Cardinality(rows) > PageLimit

\* The cursor of the files is refused with another order, that of the inbox with other
\* filters; the others carry neither.
Accepts(order, same) ==
    /\ Offers(walk.of, order)
    /\ walk.of = "files" => order = walk.order
    /\ walk.of = "inbox" => same

Turned(order, same) == walk.turned \/ order # walk.order \/ ~ same

\* What the filters of a request leave of the rows: all that the walk lists, if they are
\* the same, and any rows if they are not.
Found(same) == IF same THEN {Listed} ELSE SUBSET Listed

\* The next page by cursor: the rows behind it, one more than the page to know whether
\* there are others, and the cursor of the last one.
CursorPage(order, same) ==
    /\ walk.at = "on" /\ walk.by = "cursor" /\ Accepts(order, same)
    /\ \E found \in Found(same) :
         LET rest == {r \in found : walk.cursor = Start \/ After(order, walk.cursor, r)}
             page == Leading(order, rest, PageLimit)
             last == CHOOSE r \in page : \A o \in page : ~ Precedes(order, Place(r), Place(o))
             turned == Turned(order, same)
         IN  /\ returned' = [r \in Rows |-> returned[r] + (IF r \in page THEN 1 ELSE 0)]
             /\ walk' = IF More(rest) THEN [walk EXCEPT !.cursor = Place(last), !.turned = turned]
                        ELSE [walk EXCEPT !.at = "ended", !.turned = turned]
    /\ UNCHANGED <<key, steady, changes>>

\* The next page by offset.
OffsetPage(same) ==
    /\ walk.at = "on" /\ walk.by = "offset"
    /\ \E found \in Found(same) :
         LET rest == found \ Leading(walk.order, found, walk.offset)
             page == Leading(walk.order, rest, PageLimit)
             turned == Turned(walk.order, same)
         IN  /\ returned' = [r \in Rows |-> returned[r] + (IF r \in page THEN 1 ELSE 0)]
             /\ walk' = IF More(rest) THEN [walk EXCEPT !.offset = @ + PageLimit, !.turned = turned]
                        ELSE [walk EXCEPT !.at = "ended", !.turned = turned]
    /\ UNCHANGED <<key, steady, changes>>

\* The next page of a search: the candidates of either list grow with the offset, so that
\* the fused ranks of one page say nothing of those of the next.
RankedPage ==
    /\ walk.at = "on" /\ walk.by = "rank"
    /\ \E page \in SUBSET Listed, more \in BOOLEAN :
         /\ Cardinality(page) <= PageLimit
         /\ more => walk.offset + PageLimit < Cardinality(Listed) /\ Cardinality(page) = PageLimit
         /\ returned' = [r \in Rows |-> returned[r] + (IF r \in page THEN 1 ELSE 0)]
         /\ walk' = IF more THEN [walk EXCEPT !.offset = @ + PageLimit]
                    ELSE [walk EXCEPT !.at = "ended"]
    /\ UNCHANGED <<key, steady, changes>>

NextListing ==
    \/ \E r \in Rows : RowChanges(r)
    \/ \E of \in Listings, order \in Orders, by \in Ways : WalkBegins(of, order, by)
    \/ \E order \in Orders, same \in BOOLEAN : CursorPage(order, same)
    \/ \E same \in BOOLEAN : OffsetPage(same)
    \/ RankedPage

ListingSpec == InitListing /\ [][NextListing]_listingVars

(***************************************************************************)
(* Properties.                                                             *)
(***************************************************************************)

\* However rows appear, move and disappear, a walk by cursor returns each row that stays
\* as it was exactly once, if its caller repeats the order and the filters, and in the
\* inbox whatever he does; a walk by offset does so while nothing changes.  Of the pages
\* of a search nothing of the kind holds.
EachOnce ==
    /\ walk.by = "cursor" \/ (walk.by = "offset" /\ changes = 0)
    /\ walk.of = "inbox" \/ ~ walk.turned
    => \A r \in steady : returned[r] <= 1 /\ (walk.at = "ended" => returned[r] = 1)
=============================================================================
