----------------------------- MODULE VirtualList -----------------------------
(***************************************************************************)
(* The picker's results (gui/frontend/src/screens/picker-search.js and     *)
(* picker-list.js): the search box with its debounce, the discovery part   *)
(* of the picker screen, and the virtualised list that asks the backend    *)
(* for one page of rows at a time and keeps a bounded cache of them.       *)
(*                                                                         *)
(* The backend answers calls in any order.  What a row shows is the query, *)
(* the build of the catalogue and the place it was answered for.           *)
(***************************************************************************)
EXTENDS Integers, Sequences, FiniteSets, SequencesExt, FiniteSetsExt

CONSTANTS
  Texts,        \* what may be typed; NoText is the empty box
  NoText,
  Trimmed(_),   \* the text as the backend searches for it
  Rows(_, _),   \* how many rows a text matches in a build of the catalogue
  PageSize, Viewport, Overscan, Fling,  \* in rows
  MaxCachedPages, MaxPageAttempts, MaxRecovery,
  MaxGeneration, \* bound: queries asked
  MaxVersion,    \* bound: builds of the catalogue
  MaxErrors,     \* bound: calls that fail
  MaxScrolls     \* bound: scrolls of one result

(* A page and the screen hold rows; a text matches some number of them in     *)
(* every build of the catalogue, and the backend's form of it is a text.      *)
ASSUME ListAssumption ==
  /\ PageSize \in Nat \ {0} /\ Viewport \in Nat /\ Overscan \in Nat /\ Fling \in Nat /\ MaxVersion \in Nat \ {0}
  /\ NoText \in Texts
  /\ \A q \in Texts : \A v \in 1..MaxVersion : Rows(q, v) \in Nat

VARIABLES
  box,       \* the search field: text, what it last emitted, the debounce timer
  list,      \* query, generation, total (Unknown), scroll position, timers, recovery
  cache,     \* page -> its rows, and how often it was answered
  used,      \* cached pages, least recently used first
  inflight,  \* page -> generation of the request that is out
  searches,  \* calls of SearchPackages: sent, or answered and not yet delivered
  served        \* the backend's catalogue: ready, version; shown: the screen knows it is ready

lvars == <<box, list, cache, used, inflight, searches, served>>

Unknown == -1
NoPages == [p \in {} |-> 0]
Without(f, k) == [x \in DOMAIN f \ {k} |-> f[x]]
With(f, k, v) == [x \in DOMAIN f \cup {k} |-> IF x = k THEN v ELSE f[x]]

ListInit ==
  /\ box = [text |-> NoText, emitted |-> NoText, timer |-> FALSE]
  /\ list = [query |-> NoText, gen |-> 0, since |-> 0, total |-> Unknown, started |-> FALSE, top |-> 0, last |-> 0, first |-> 0, live |-> 0,
             frame |-> FALSE, pending |-> FALSE, settle |-> FALSE, recovery |-> FALSE, attempts |-> 0, reported |-> FALSE, failed |-> FALSE, errors |-> 0, scrolls |-> 0]
  /\ cache = NoPages /\ used = <<>> /\ inflight = NoPages /\ searches = {}
  /\ served = [ready |-> TRUE, version |-> 1, shown |-> TRUE]

-----------------------------------------------------------------------------
(* Asking for pages.                                                       *)

PageOf(row) == row \div PageSize

(* fetchPage, for a set of pages of the list's generation. *)
Fetch(l, out, pages) ==
  /\ inflight' = [p \in DOMAIN out \cup pages |-> IF p \in pages THEN l.gen ELSE out[p]]
  /\ searches' = searches \cup {[page |-> p, gen |-> l.gen, query |-> l.query, reply |-> "none", at |-> 0] : p \in pages}

(* requestPagesFor: the window's pages, and the ones beside it to prefetch;   *)
(* not what is complete, was asked for often enough or is on its way.         *)
Wanted(l, first, count, prefetch) ==
  IF count <= 0 THEN {}
  ELSE LET lo == IF prefetch THEN PageOf(first) - 1 ELSE PageOf(first)
           hi == PageOf(first + count - 1) + (IF prefetch THEN 1 ELSE 0)
           lastPage == IF l.total > 0 THEN PageOf(l.total - 1) ELSE hi
       IN {p \in lo..hi : /\ p >= 0 /\ p <= lastPage /\ p \notin DOMAIN inflight
                          /\ p \in DOMAIN cache => ~cache[p].complete /\ cache[p].attempts < MaxPageAttempts}

(* scheduleRecovery: a timer, a bounded number of times; then the operator is  *)
(* told, if nothing of the query was ever answered.                            *)
\* Mutant of Recovering: gives up without a word.
RecoveringQuietly(l) ==
  IF l.recovery \/ l.attempts >= MaxRecovery THEN l ELSE [l EXCEPT !.attempts = @ + 1, !.recovery = TRUE]
Recovering(l) ==
  IF l.recovery THEN l
  ELSE IF l.attempts >= MaxRecovery
       THEN IF l.total = Unknown /\ ~l.reported THEN [l EXCEPT !.reported = TRUE, !.failed = TRUE] ELSE l
       ELSE [l EXCEPT !.attempts = @ + 1, !.recovery = TRUE]

(* What setQuery, reset and refresh share: a new generation and empty caches. *)
Renewed(l) ==
  [l EXCEPT !.gen = @ + 1, !.since = served.version, !.total = Unknown, !.recovery = FALSE, !.attempts = 0, !.reported = FALSE, !.failed = FALSE, !.frame = TRUE, !.scrolls = 0]
Cleared == cache' = NoPages /\ used' = <<>>

Reset ==
  /\ list' = [Renewed(list) EXCEPT !.started = FALSE, !.top = 0, !.last = 0]
  /\ Cleared /\ inflight' = NoPages /\ UNCHANGED searches
SetQuery(q) ==
  IF q = list.query /\ list.total # Unknown THEN UNCHANGED <<list, cache, used, inflight, searches>>
  ELSE LET l == [Renewed(list) EXCEPT !.query = q, !.started = TRUE, !.top = 0, !.last = 0]
       IN list' = l /\ Cleared /\ Fetch(l, NoPages, {0})
Refresh ==
  LET l == [Renewed(list) EXCEPT !.started = TRUE]
  IN list' = l /\ Cleared /\ Fetch(l, NoPages, {PageOf(l.top)})

-----------------------------------------------------------------------------
(* The search box and the screen's discovery.                              *)

(* _renderDiscovery: nothing typed is no search. *)
RenderDiscovery(q, refresh) ==
  IF q = NoText THEN Reset ELSE IF refresh /\ list.query = q THEN Refresh ELSE SetQuery(q)

(* What is typed within one debounce is one step. *)
Type(q) ==
  /\ ~box.timer /\ q # box.text
  /\ box' = [box EXCEPT !.text = q, !.timer = TRUE]
  /\ UNCHANGED <<list, cache, used, inflight, searches, served>>

(* commit: the debounce ran out, or Enter; _setQuery keeps the query for later  *)
(* when the catalogue is not ready.                                             *)
Commit ==
  /\ box.timer /\ list.gen < MaxGeneration
  /\ box' = [box EXCEPT !.timer = FALSE, !.emitted = box.text]
  /\ IF box.text # box.emitted /\ served.shown THEN RenderDiscovery(box.text, FALSE)
     ELSE UNCHANGED <<list, cache, used, inflight, searches>>
  /\ UNCHANGED served

(* _startPreparation resets the list and starts a build; when the screen learns  *)
(* that it is ready, the results are asked for again.                            *)
PreparationStarts ==
  /\ served.shown /\ served.version < MaxVersion /\ list.gen < MaxGeneration
  /\ served' = [served EXCEPT !.ready = FALSE, !.shown = FALSE]
  /\ Reset /\ UNCHANGED box
CatalogBuilt ==
  /\ ~served.ready
  /\ served' = [served EXCEPT !.ready = TRUE, !.version = @ + 1]
  /\ UNCHANGED <<box, list, cache, used, inflight, searches>>
ShowReady ==
  /\ served.ready /\ ~served.shown /\ list.gen < MaxGeneration
  /\ served' = [served EXCEPT !.shown = TRUE]
  /\ RenderDiscovery(box.emitted, TRUE) /\ UNCHANGED box

-----------------------------------------------------------------------------
(* Frames, scrolling and timers.                                           *)

Scroll(row) ==
  /\ list.started /\ list.total # Unknown /\ row < list.total /\ row # list.top /\ list.scrolls < MaxScrolls
  /\ list' = [list EXCEPT !.top = row, !.frame = TRUE, !.scrolls = @ + 1]
  /\ UNCHANGED <<box, cache, used, inflight, searches, served>>

(* The rows update puts on the screen; with no total yet, a viewport of skeletons. *)
Window(l) ==
  LET all == IF l.total = Unknown THEN Viewport + Overscan ELSE l.total
      most == Viewport + 1 + 2 * Overscan
      first == Max({0, l.top - Overscan})
      count == Max({0, Min({all - first, most})})
  IN IF first > 0 /\ count = 0
     THEN [first |-> Max({0, all - 1}), count |-> Min({all - Max({0, all - 1}), most})]
     ELSE [first |-> first, count |-> count]
PagesIn(first, count) == {PageOf(r) : r \in first..(first + count - 1)}
Touched(pages) == SelectSeq(used, LAMBDA p : p \notin pages) \o SetToSortSeq(pages \cap DOMAIN cache, <)

Update ==
  /\ list.frame
  /\ LET w == Window(list)
         delta == IF list.top > list.last THEN list.top - list.last ELSE list.last - list.top
         known == list.total # Unknown
         flinging == delta > Fling
         l == [list EXCEPT !.frame = FALSE, !.last = list.top, !.first = w.first, !.live = w.count, !.pending = @ \/ (known /\ flinging)]
         armed == [l EXCEPT !.settle = @ \/ delta > 0 \/ l.pending]
     IN /\ used' = Touched(PagesIn(w.first, w.count))
        /\ IF known /\ ~flinging
           THEN list' = armed /\ Fetch(armed, inflight, Wanted(armed, w.first, w.count, TRUE))
           ELSE /\ list' = IF ~known /\ list.started /\ DOMAIN inflight = {} THEN Recovering(armed) ELSE armed
                /\ UNCHANGED <<inflight, searches>>
  /\ UNCHANGED <<box, cache, served>>

Settle ==
  /\ list.settle
  /\ LET l == [list EXCEPT !.settle = FALSE, !.pending = FALSE, !.last = list.top]
     IN list' = l /\ Fetch(l, inflight, IF l.total # Unknown THEN Wanted(l, l.first, l.live, TRUE) ELSE {})
  /\ UNCHANGED <<box, cache, used, served>>

Recover ==
  /\ list.recovery
  /\ LET l == [list EXCEPT !.recovery = FALSE, !.frame = TRUE]
     IN list' = l /\ Fetch(l, inflight, IF l.total = Unknown THEN {PageOf(l.top)} ELSE Wanted(l, l.first, Max({1, l.live}), FALSE))
  /\ UNCHANGED <<box, cache, used, served>>

-----------------------------------------------------------------------------
(* Answers.                                                                *)

(* SearchPackages: the page, with the query as the backend ran it; an error   *)
(* when the catalogue is not ready or the search fails.                       *)
Answer(s) ==
  /\ s.reply = "none"
  /\ \/ /\ served.ready
        /\ searches' = (searches \ {s}) \cup {[s EXCEPT !.reply = "page", !.at = served.version]}
        /\ UNCHANGED list
     \/ /\ ~served.ready \/ list.errors < MaxErrors
        /\ searches' = (searches \ {s}) \cup {[s EXCEPT !.reply = "error"]}
        /\ list' = IF served.ready THEN [list EXCEPT !.errors = @ + 1] ELSE list
  /\ UNCHANGED <<box, cache, used, inflight, served>>

(* evict: least recently used first, never what the window or its neighbours   *)
(* need; the rest of the cache is returned.                                    *)
Evicted(pages, order, l) ==
  LET near == (PageOf(l.first) - 1)..(PageOf(l.first + Max({1, l.live}) - 1) + 1)
      far  == SelectSeq(order, LAMBDA p : p \notin near)
      over == Max({0, Cardinality(pages) - MaxCachedPages})
  IN {far[i] : i \in 1..Min({over, Len(far)})}

(* fetchPage's answer: the page's request is no longer out; an answer to an    *)
(* older generation, or for another query than was asked, is not shown.        *)
\* Mutant of Stale: only the text of the query tells answers apart.
StaleByQuery(s) == s.query # list.query
Stale(s) == s.gen # list.gen
Answered(s) == IF s.page \in DOMAIN inflight /\ inflight[s.page] = s.gen THEN Without(inflight, s.page) ELSE inflight
Deliver(s) ==
  /\ s.reply # "none"
  /\ searches' = searches \ {s}
  /\ inflight' = Answered(s)
  /\ IF Stale(s) THEN UNCHANGED <<list, cache, used>>
     ELSE IF s.reply = "error" THEN list' = Recovering([list EXCEPT !.failed = TRUE]) /\ UNCHANGED <<cache, used>>
     ELSE IF Trimmed(s.query) # list.query THEN list' = Recovering(list) /\ UNCHANGED <<cache, used>>
     ELSE LET total == Rows(Trimmed(s.query), s.at)
              len == Max({0, Min({PageSize, total - s.page * PageSize})})
              page == [query |-> s.query, at |-> s.at, len |-> len,
                       complete |-> len >= PageSize \/ s.page * PageSize + len >= total,
                       attempts |-> IF s.page \in DOMAIN cache THEN cache[s.page].attempts + 1 ELSE 1]
              pages == With(cache, s.page, page)
              order == Append(SelectSeq(used, LAMBDA p : p # s.page), s.page)
              gone == Evicted(DOMAIN pages, order, list)
          IN /\ list' = [list EXCEPT !.total = total, !.attempts = 0, !.reported = FALSE, !.failed = FALSE, !.frame = TRUE]
             /\ cache' = [p \in DOMAIN pages \ gone |-> pages[p]]
             /\ used' = SelectSeq(order, LAMBDA p : p \notin gone)
  /\ UNCHANGED <<box, served>>

-----------------------------------------------------------------------------
ListNext ==
  \/ \E q \in Texts : Type(q)
  \/ Commit \/ PreparationStarts \/ CatalogBuilt \/ ShowReady
  \/ \E row \in 0..(Max({0, list.total}) - 1) : Scroll(row)
  \/ Update \/ Settle \/ Recover
  \/ \E s \in searches : Answer(s) \/ Deliver(s)

ListSpec == ListInit /\ [][ListNext]_lvars

-----------------------------------------------------------------------------
(* Properties.                                                             *)

ListTypeOK ==
  /\ list.query \in Texts /\ list.gen \in 0..MaxGeneration /\ list.total >= Unknown
  /\ list.attempts \in 0..MaxRecovery
  /\ ToSet(used) = DOMAIN cache /\ Len(used) = Cardinality(DOMAIN cache)
  /\ \A s \in searches : s.gen <= list.gen

(* Every cached page was answered to the query the list is on, by the build  *)
(* of the catalogue that was ready when the query was asked or a later one:   *)
(* however answers are delayed and reordered while the operator types on,     *)
(* goes back to an earlier text or refreshes the catalogue, no row of an      *)
(* older search is shown.  (The guards of fetchPage.)                         *)
PagesAreOfTheQuery ==
  \A p \in DOMAIN cache : cache[p].query = list.query /\ cache[p].at >= list.since

(* When nothing is out and no timer runs, a list that was asked something     *)
(* shows every row of its window, or the operator was told that it could not: *)
(* no skeleton waits for an answer that nobody will ask for again.            *)
(* (scheduleRecovery, armSettleTimer, requestPagesFor.)                       *)
Quiet == searches = {} /\ ~list.frame /\ ~list.settle /\ ~list.recovery
Shown(row) == PageOf(row) \in DOMAIN cache /\ row - PageOf(row) * PageSize < cache[PageOf(row)].len
NoRowWaits ==
  (Quiet /\ list.started) =>
    \/ list.failed
    \/ list.total # Unknown /\ \A row \in list.first..(list.first + list.live - 1) : row < list.total => Shown(row)
=============================================================================
