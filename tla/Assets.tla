------------------------------- MODULE Assets -------------------------------
(***************************************************************************)
(* The pages that show where things are (app/routes/assets.py, the         *)
(* blueprint pages of app/routes/blueprints.py): a player's items lie in   *)
(* stations or in containers, ESI lists them page by page, the lists of    *)
(* the character and of the corporation are cached at different moments,   *)
(* and a page walks from each item to the station it is in                 *)
(* (resolve_container_chain of app/services/locations.py).                 *)
(*                                                                         *)
(* How a list is stored and invalidated is EsiCache's; here a cached list  *)
(* is there or not. Requests do not share more than the caches, so one     *)
(* request at a time is modelled.                                          *)
(***************************************************************************)
EXTENDS Integers, Sequences, FiniteSets

CONSTANTS
  Items,       \* item ids, of containers too
  Stations,    \* stations and structures
  Blueprints,  \* the items that are blueprints
  Hangars,     \* bound: where the items may lie at first
  PageSize,    \* entries on a page of ESI
  MaxMoves     \* bound: times the player moves an item

Owners == {"character", "corporation"}

\* The lists of ESI, by what they hold and whose.
Lists == [blueprints : BOOLEAN, owner : Owners]
ListOf(blueprints, owner) == [blueprints |-> blueprints, owner |-> owner]

\* connected: is the corporation's data connected?
Merged(blueprints, connected) ==
  IF connected THEN <<ListOf(blueprints, "character"), ListOf(blueprints, "corporation")>>
  ELSE <<ListOf(blueprints, "character")>>

Places == Items \cup Stations

\* Which station each item is in, given what it lies in.
Located(w, station) ==
  \A i \in Items :
    station[i] = IF w[i].parent \in Items THEN station[w[i].parent] ELSE w[i].parent

\* Nothing lies in itself.
Nested(w, depth) ==
  \A i \in Items : w[i].parent \in Items => depth[w[i].parent] < depth[i]

Worlds ==
  {w \in [Items -> [owner : Owners, parent : Places]] :
     /\ \E station \in [Items -> Stations] : Located(w, station)
     /\ \E depth \in [Items -> 0..Cardinality(Items)] : Nested(w, depth)}

StationsIn(w) == CHOOSE station \in [Items -> Stations] : Located(w, station)

ASSUME ItemsAreIds == Items \subseteq Nat /\ IsFiniteSet(Items)
ASSUME StationsApart == Stations \cap Items = {}
ASSUME BlueprintsAreItems == Blueprints \subseteq Items
ASSUME HangarsAreWorlds == Hangars \subseteq Worlds
ASSUME BoundsAreNat == PageSize \in Nat \ {0} /\ MaxMoves \in Nat

VARIABLES
  hangar,    \* where each item lies, and whose it is
  moves,     \* moves so far
  cached,    \* the lists a page would get without asking ESI
  still,     \* history: lists fetched since the last move
  first,     \* history: per list, what was in it when its page 1 was last read, and
             \* the moves before that
  req,       \* the request: what it has still to get, and has got
  walk,      \* resolve_container_chain: its locals
  shown      \* resolved_location_by_item_id, entry by entry

vars == <<hangar, moves, cached, still, first, req, walk, shown>>

-----------------------------------------------------------------------------
(* ESI *)

Listed(l) == {i \in Items : hangar[i].owner = l.owner /\ (l.blueprints => i \in Blueprints)}

\* ESI lists in the order of the ids, PageSize to a page; an empty list has a page.
PageOf(l, i) == 1 + (Cardinality({j \in Listed(l) : j < i}) \div PageSize)
Pages(l) == IF Listed(l) = {} THEN 1 ELSE 1 + (Cardinality(Listed(l)) - 1) \div PageSize
OnPage(l, p) ==
  {[list |-> l, page |-> p, item |-> i, parent |-> hangar[i].parent] :
     i \in {j \in Listed(l) : PageOf(l, j) = p}}

Entries == [list : Lists, page : Nat \ {0}, item : Items, parent : Places]

\* cached: no list, or the entries of one.
NoList == [held |-> FALSE]
CachedLists == [held : {TRUE}, entries : SUBSET Entries]
Cached(entries) == [held |-> TRUE, entries |-> entries]

Idle == [phase |-> "idle"]
\* phase "get": the lists of left are still to be got; pages is what X-Pages
\* said of the first of them, 0 before page 1 is read.
Busy ==
  [phase : {"get", "walk", "done"}, left : Seq(Lists), blueprints : BOOLEAN,
   page : Nat \ {0}, pages : Nat, fetched : SUBSET Entries,
   assets : SUBSET Entries, owned : SUBSET Entries]

\* Between two walks there are no locals.
Resting == [of |-> "none"]
Walking == [of : Entries, current : Places, visited : SUBSET Items]

Unread == [items |-> {}, moves |-> 0]

Init ==
  /\ hangar \in Hangars
  /\ moves = 0
  /\ cached = [l \in Lists |-> NoList]
  /\ still = {}
  /\ first = [l \in Lists |-> Unread]
  /\ req = Idle
  /\ walk = Resting
  /\ shown = {}

-----------------------------------------------------------------------------
(* Getting the lists: get_merged_blueprints and get_merged_assets *)

\* A page of the assets, or one of the blueprints, which needs both kinds.
Open(blueprints, connected) ==
  /\ req = Idle
  /\ req' = [phase |-> "get", blueprints |-> blueprints,
             left |-> IF blueprints THEN Merged(TRUE, connected) \o Merged(FALSE, connected)
                      ELSE Merged(FALSE, connected),
             page |-> 1, pages |-> 0, fetched |-> {}, assets |-> {}, owned |-> {}]
  /\ UNCHANGED <<hangar, moves, cached, still, first, walk, shown>>

Current == Head(req.left)

\* What was fetched of a list is not used any more.
Forget(l) ==
  /\ still' = still \ {l}
  /\ first' = [first EXCEPT ![l] = Unread]

\* What is left when the list in hand had these entries: without any blueprint
\* there is nothing to look up in the assets.
Rest(entries) ==
  IF /\ Current.blueprints /\ req.owned \cup entries = {}
     /\ \A i \in 2..Len(req.left) : ~req.left[i].blueprints
  THEN <<>>
  ELSE Tail(req.left)

\* The entries of the list in hand: on to the next list, or to the walks.
Got(entries) ==
  req' = [req EXCEPT
            !.assets = IF Current.blueprints THEN @ ELSE @ \cup entries,
            !.owned = IF Current.blueprints THEN @ \cup entries ELSE @,
            !.left = Rest(entries), !.page = 1, !.pages = 0, !.fetched = {},
            !.phase = IF Rest(entries) = <<>> THEN "walk" ELSE "get"]

\* A fetch of the list in hand may be under way.
Missing == req.phase = "get" /\ (req.pages = 0 => ~cached[Current].held)

Hit ==
  /\ req.phase = "get" /\ req.pages = 0
  /\ cached[Current].held
  /\ Got(cached[Current].entries)
  /\ UNCHANGED <<hangar, moves, cached, still, first, walk, shown>>

\* Page 1 says how many there are.
FetchFirst ==
  /\ req.phase = "get" /\ req.pages = 0
  /\ ~cached[Current].held
  /\ req' = [req EXCEPT !.fetched = OnPage(Current, 1), !.pages = Pages(Current), !.page = 2]
  /\ still' = still \cup {Current}
  /\ first' = [first EXCEPT ![Current] = [items |-> Listed(Current), moves |-> moves]]
  /\ UNCHANGED <<hangar, moves, cached, walk, shown>>

\* Mutant of FetchNext: range(2, total_pages + 2).
FetchNextTooFar ==
  /\ req.phase = "get" /\ req.pages > 0
  /\ req.page <= req.pages + 1
  /\ req' = [req EXCEPT !.fetched = @ \cup OnPage(Current, req.page), !.page = @ + 1]
  /\ UNCHANGED <<hangar, moves, cached, still, first, walk, shown>>

FetchNext ==
  /\ req.phase = "get" /\ req.pages > 0
  /\ req.page <= req.pages /\ req.page <= Pages(Current)
  /\ req' = [req EXCEPT !.fetched = @ \cup OnPage(Current, req.page), !.page = @ + 1]
  /\ UNCHANGED <<hangar, moves, cached, still, first, walk, shown>>

\* ESI or MongoDB raises, as ESI does for a page of a list that has become shorter
\* than X-Pages said: the exception is not caught.
FetchFails ==
  /\ Missing
  /\ req' = Idle
  /\ Forget(Current)
  /\ UNCHANGED <<hangar, moves, cached, walk, shown>>

\* Mutant of Store: range(2, total_pages).
StoreButLast ==
  /\ req.phase = "get" /\ req.pages > 0
  /\ req.page >= req.pages
  /\ cached' = [cached EXCEPT ![Current] = Cached(req.fetched)]
  /\ Got(req.fetched)
  /\ UNCHANGED <<hangar, moves, still, first, walk, shown>>

Store ==
  /\ req.phase = "get" /\ req.pages > 0
  /\ req.page > req.pages
  /\ cached' = [cached EXCEPT ![Current] = Cached(req.fetched)]
  /\ Got(req.fetched)
  /\ UNCHANGED <<hangar, moves, still, first, walk, shown>>

\* 401 or 403 for any page of a corporation list: the page goes on without it.
Forbidden ==
  /\ Missing /\ Current.owner = "corporation"
  /\ Got({})
  /\ Forget(Current)
  /\ UNCHANGED <<hangar, moves, cached, walk, shown>>

-----------------------------------------------------------------------------
(* resolve_container_chain, for each entry of the page *)

\* The order of a merged list: the character's entries first, page by page.
Before(e, f) ==
  \/ e.list.owner = "character" /\ f.list.owner = "corporation"
  \/ e.list.owner = f.list.owner /\ e.page < f.page
  \/ e.list.owner = f.list.owner /\ e.page = f.page /\ e.item < f.item

\* assets_by_item_id: of an item listed twice the last entry stays.
Ids == {e.item : e \in req.assets}
ById(i) ==
  CHOOSE e \in req.assets :
    e.item = i /\ \A f \in req.assets : f.item = i => f = e \/ Before(f, e)
Container(i) == ById(i).parent

Subjects == IF req.blueprints THEN req.owned ELSE req.assets
Unresolved == {e \in Subjects : \A r \in shown : r.entry # e}

Begin ==
  /\ req.phase = "walk" /\ walk = Resting
  /\ \E e \in Unresolved :
       /\ \A f \in Unresolved : f = e \/ Before(e, f)
       /\ walk' = [of |-> e, current |-> e.parent, visited |-> {}]
  /\ UNCHANGED <<hangar, moves, cached, still, first, req, shown>>

\* Is the place reached a container this page knows and has not passed?
Known == walk.current \in Ids \ walk.visited

\* Mutant of Ascend: nothing remembers the containers passed.
AscendBlindly ==
  /\ walk # Resting
  /\ walk.current \in Ids /\ Container(walk.current) \in Items
  /\ walk' = [walk EXCEPT !.current = Container(walk.current)]
  /\ UNCHANGED <<hangar, moves, cached, still, first, req, shown>>

\* Out of a container that lies in another (location_type "item").
Ascend ==
  /\ walk # Resting
  /\ Known /\ Container(walk.current) \in Items
  /\ walk' = [walk EXCEPT !.current = Container(walk.current),
                          !.visited = @ \cup {walk.current}]
  /\ UNCHANGED <<hangar, moves, cached, still, first, req, shown>>

\* At the station, or where this page knows no way on.
Arrive ==
  /\ walk # Resting
  /\ Known => Container(walk.current) \notin Items
  /\ shown' = shown \cup {[entry |-> walk.of,
                           location |-> IF Known THEN Container(walk.current) ELSE walk.current]}
  /\ walk' = Resting
  /\ UNCHANGED <<hangar, moves, cached, still, first, req>>

\* Every entry has its location: the page can be rendered.
Resolved ==
  /\ req.phase = "walk" /\ walk = Resting /\ Unresolved = {}
  /\ req' = [req EXCEPT !.phase = "done"]
  /\ UNCHANGED <<hangar, moves, cached, still, first, walk, shown>>

Close ==
  /\ req.phase = "done"
  /\ req' = Idle
  /\ shown' = {}
  /\ UNCHANGED <<hangar, moves, cached, still, first, walk>>

-----------------------------------------------------------------------------
(* What the pages show *)

\* list_assets: the locations it counts, by item id; the last entry of an item wins.
OverviewLocations == {r.location : r \in {s \in shown : s.entry = ById(s.entry.item)}}

\* item_detail: each entry of the type at its own location.
ItemLocations(S) == {r.location : r \in {s \in shown : s.entry.item \in S}}

\* location_detail: what it lists at a location.
LocationPage(p) == {r.entry : r \in {s \in shown : s.location = p}}

\* blueprint_detail: what lies where the blueprint b lies.
OnSite(b) == {e.item : e \in {a \in req.assets : a.parent = b.parent}}

-----------------------------------------------------------------------------
(* The player, Redis and the characters *)

\* An item, with what is in it, is put elsewhere or is handed over. Once a page has
\* its lists it asks ESI nothing more, so moving later is moving after it.
Move(i, p, o) ==
  /\ moves < MaxMoves
  /\ req.phase \in {"idle", "get"}
  /\ (p = hangar[i].parent) # (o = hangar[i].owner)
  /\ hangar' = [hangar EXCEPT ![i] = [owner |-> o, parent |-> p]]
  /\ hangar' \in Worlds
  /\ moves' = moves + 1
  /\ still' = {}
  /\ UNCHANGED <<cached, first, req, walk, shown>>

\* The hour is over, or the player asked for a refresh. A page reads a list once:
\* what expires while it runs might as well have expired before or after it.
Expire(l) ==
  /\ req = Idle
  /\ cached[l].held
  /\ cached' = [cached EXCEPT ![l] = NoList]
  /\ Forget(l)
  /\ UNCHANGED <<hangar, moves, req, walk, shown>>

Getting == Hit \/ FetchFirst \/ FetchNext \/ FetchFails \/ Store \/ Forbidden
Resolving == Begin \/ Ascend \/ Arrive \/ Resolved \/ Close
PageStep == Getting \/ Resolving

Next ==
  \/ \E blueprints, connected \in BOOLEAN : Open(blueprints, connected)
  \/ PageStep
  \/ \E i \in Items, p \in Places, o \in Owners : Move(i, p, o)
  \/ \E l \in Lists : Expire(l)

Spec == Init /\ [][Next]_vars

\* The event loop runs a page to its end.
FairSpec == Spec /\ WF_vars(PageStep)

-----------------------------------------------------------------------------
(* Properties *)

\* Type correctness; a walk never passes a container twice, or one the page
\* does not know, and no page is asked of ESI beyond the count of page 1.
TypeOK ==
  /\ hangar \in Worlds
  /\ moves \in 0..MaxMoves
  /\ cached \in [Lists -> {NoList} \cup CachedLists]
  /\ still \subseteq Lists
  /\ req \in Busy \cup {Idle}
  /\ walk \in Walking \cup {Resting}
  /\ shown \subseteq [entry : Entries, location : Places]
  /\ req.phase = "get" => req.left # <<>> /\ (req.pages > 0 => req.page <= req.pages + 1)
  /\ walk # Resting => req.phase = "walk" /\ walk.visited \subseteq Ids

\* The lists the page is made of.
Used == {l \in Lists : \E e \in req.assets \cup req.owned : e.list = l}

\* If nothing was moved since the lists were fetched, and the page knows every
\* container it meets, the overview, the page of an item and that of a blueprint
\* show each item once and at the station it is in, and what lies beside a
\* blueprint as beside it; personal and corporation lists may have been fetched
\* by different pages.
StillAssetsInPlace ==
  req.phase = "done" /\ Used \subseteq still
      /\ (\A i \in Ids : hangar[i].parent \in Ids \cup Stations) =>
    /\ \A r \in shown :
         (hangar[r.entry.item].parent \in Ids \cup Stations) =>
           r.location = StationsIn(hangar)[r.entry.item]
    /\ \A r, s \in shown : r.entry.item = s.entry.item => r = s
    /\ ~req.blueprints => OverviewLocations = ItemLocations(Items)
    /\ ~req.blueprints => req.assets = UNION {LocationPage(p) : p \in OverviewLocations}
    /\ \A l \in Used : {e.item : e \in {a \in req.assets \cup req.owned : a.list = l}} = Listed(l)
    /\ \A b \in req.owned : OnSite(b) = {i \in Ids : hangar[i].parent = hangar[b.item].parent}

\* The lists may be torn, and old: still, each move between the reading of their
\* first page and the page that shows them costs at most one item that is missing
\* though it was always listed, one that is listed twice and one that is shown where
\* it was before; and of the two lists of a kind, one item at most is in both.
EachMoveCostsOne ==
  req.phase = "done" =>
    /\ \A l \in Used :
         LET taken == {e \in req.assets \cup req.owned : e.list = l}
             found == {e.item : e \in taken}
             missing == (first[l].items \cap Listed(l)) \ found
             misplaced == {e.item : e \in {t \in taken : t.parent # hangar[t.item].parent}}
             since == moves - first[l].moves
         IN  /\ Cardinality(missing) <= since
             /\ Cardinality(taken) - Cardinality(found) <= since
             /\ Cardinality(misplaced) <= since
    /\ \A S \in {req.assets, req.owned} \ {{}} : \E f \in S :
         LET both == {e.item : e \in {s \in S : \E t \in S :
                                         t.item = s.item /\ t.list # s.list}}
         IN  Cardinality(both) <= moves - first[f.list].moves

\* "so we never try to resolve a container's item_id as if it were a station or
\* structure" (resolve_container_chain), however old and torn the lists are:
\* what an item is shown at is no item of the lists, unless they put it in a
\* circle of containers: items each of which lies, they say, in another of them.
NeverAKnownContainer ==
  \A r \in shown : r.location \in Ids =>
    \E S \in SUBSET Ids : r.location \in S /\ \A i \in S : Container(i) \in S

\* Whatever the lists say, circles included, the walks end and a page that was
\* opened is answered.
PagesAreAnswered == []<>(req = Idle)

=============================================================================
