---------------------------- MODULE LinePages ----------------------------
(***************************************************************************)
(* A client walks the lines of one game page by page (GET /game/{id} with  *)
(* limit, side, is_live and cursor: LineQueryService.GameLines) while an   *)
(* ingester stores new rows and drops the cache entry that serves the      *)
(* first page.                                                             *)
(*                                                                         *)
(* A line is its place in the sort order of the keyset cursor; a row is    *)
(* [key, at, val, seq] with val the is_live flag, the one field a query    *)
(* can filter rows by, and seq the place of its batch in the order of      *)
(* storing, which the table does not record and no action reads.           *)
(* captured_at does not follow that order: it is read before the mutex, or *)
(* is the provider's.  A page is a set of rows, read in the order of keys. *)
(***************************************************************************)
EXTENDS LineStore, FiniteSets

CONSTANTS
  Lines,         \* the lines of the game
  Sides, SideOf, \* HOME, AWAY, ...; the side derived for each line
  Limits,        \* page sizes clients ask for
  Stamps,        \* capture instants
  NoFilter,           \* no filter
  MaxRows        \* bound: batches ever stored

ASSUME PagesAssumption ==
  /\ Lines \subseteq Nat \ {0} /\ IsFiniteSet(Lines)
  /\ SideOf \in [Lines -> Sides]
  /\ Limits \subseteq Nat \ {0}
  /\ Stamps \subseteq Nat
  /\ NoFilter \notin Sides /\ NoFilter \notin BOOLEAN
  /\ MaxRows \in Nat

\* cursor = "", and next_cursor = "".
NoCursor == 0

Walks == [side : Sides \cup {NoFilter}, live : BOOLEAN \cup {NoFilter}, limit : Limits]

VARIABLES
  table,         \* the rows of the game
  stored,        \* how many batches were stored (bounded by MaxRows)
  writer,        \* the ingester: idle, or between its insert and the invalidation
  cache,         \* the cache entry; {} is no entry
  reader,        \* where the request is: idle, lookup, load, fill, answer, client
  walk,          \* the filters of the walk and its page size
  cursor,        \* the cursor of the request
  page, more,    \* the rows it has loaded; has_more
  next,          \* next_cursor of the last answer
  got,           \* history: the lines answered in this walk
  repeated,      \* history: those answered twice
  basis,         \* history: the lines to be found when the walk began
  hidden         \* history: those of them an old first page lacked

write_vars == <<table, stored, writer>>
walk_vars == <<walk, basis>>
answer_vars == <<next, got, repeated>>
vars == <<table, stored, writer, cache, reader, walk, cursor, page, more, next, got,
          repeated, basis, hidden>>

KeysIn(rows) == {r.key : r \in rows}

Init ==
  /\ table = {} /\ stored = 0 /\ writer = "idle" /\ cache = {}
  /\ reader = "idle" /\ walk \in Walks /\ cursor = NoCursor
  /\ page = {} /\ more = FALSE /\ next = NoCursor
  /\ got = {} /\ repeated = {} /\ basis = {} /\ hidden = {}

---------------------------------------------------------------------------
(* The ingester: WritePath has the details *)

\* The rows a batch with one captured_at may come to.
BatchRows(t) == [key : Lines, at : {t}, val : BOOLEAN, seq : {stored + 1}]

\* A batch is stored: whatever was captured later may have been stored before it.  A
\* row whose slot is taken is not added.
Store(t, rows) ==
  /\ writer = "idle"
  /\ stored < MaxRows
  /\ rows \in SUBSET BatchRows(t)
  /\ rows # {} /\ SlotsUnique(rows)
  /\ \A r \in rows, q \in table : ~ SameSlot(r, q)
  /\ stored' = stored + 1
  /\ table' = table \cup rows
  /\ writer' = "invalidate"
  /\ UNCHANGED <<cache, reader, walk_vars, cursor, page, more, answer_vars, hidden>>

\* The invalidation, which can fail.
Invalidate ==
  /\ writer = "invalidate"
  /\ writer' = "idle"
  /\ cache' \in {{}, cache}
  /\ UNCHANGED <<table, stored, reader, walk_vars, cursor, page, more, answer_vars, hidden>>

\* The entry's time to live ends.
Expire ==
  /\ cache # {} /\ cache' = {}
  /\ UNCHANGED <<write_vars, reader, walk_vars, cursor, page, more, answer_vars, hidden>>

---------------------------------------------------------------------------
(* One request *)

\* The rows a walk is about: the conditions of its query, the cursor's aside.
OfWalk(w, rows) ==
  {r \in rows : /\ w.side # NoFilter => SideOf[r.key] = w.side
                /\ w.live # NoFilter => r.val = w.live}

\* A new walk: the first request has no cursor.
Begin(w) ==
  /\ reader = "idle"
  /\ walk' = w /\ cursor' = NoCursor
  /\ basis' = KeysIn(OfWalk(w, table))
  /\ got' = {} /\ repeated' = {} /\ hidden' = {} /\ next' = NoCursor
  /\ page' = {} /\ more' = FALSE
  /\ reader' = "lookup"
  /\ UNCHANGED <<write_vars, cache>>

\* is_live is a condition on the rows, before DISTINCT ON picks the latest.
Filtered(rows) == {r \in rows : walk.live # NoFilter => r.val = walk.live}

\* Faulty variant of Beyond: the row comparison is >=.
BeyondOrAt(rows) == {r \in rows : r.key >= cursor}

\* The row comparison of the cursor.
Beyond(rows) == {r \in rows : r.key > cursor}

Smaller(a, b) == IF a < b THEN a ELSE b

\* The first rows in the order of keys, as many as the limit.
IsPage(first, rows) ==
  /\ first \subseteq rows
  /\ \A r \in first, s \in rows \ first : r.key < s.key
  /\ Cardinality(first) = Smaller(walk.limit, Cardinality(rows))

\* What a result comes to: its first page, and whether there is more.
Paginate(rows) ==
  /\ \E first \in SUBSET rows : IsPage(first, rows) /\ page' = first
  /\ more' = (Cardinality(rows) > walk.limit)

Cacheable == walk.side = NoFilter /\ walk.live = NoFilter /\ cursor = NoCursor

\* paginateCached.
HitCache ==
  /\ reader = "lookup" /\ Cacheable
  /\ cache # {}
  /\ Paginate(cache)
  /\ hidden' = basis \ KeysIn(cache)
  /\ reader' = "answer"
  /\ UNCHANGED <<write_vars, cache, walk_vars, cursor, answer_vars>>

\* There is no entry, or it cannot be read, or the request is not cacheable.
MissCache ==
  /\ reader = "lookup"
  /\ reader' = "load"
  /\ UNCHANGED <<write_vars, cache, walk_vars, cursor, page, more, answer_vars, hidden>>

\* Faulty variant of Fills: a first page is cached though there is more.
FillsFirstPage == Cacheable

Fills == Cacheable /\ ~more'

\* queryLines, and whether the answer is to be cached.
Load ==
  /\ reader = "load"
  /\ Paginate(Current(Beyond(Filtered(table))))
  /\ reader' = IF Fills THEN "fill" ELSE "answer"
  /\ UNCHANGED <<write_vars, cache, walk_vars, cursor, answer_vars, hidden>>

\* The request fails; the client gives the walk up.
LoadFails ==
  /\ reader = "load"
  /\ reader' = "idle"
  /\ UNCHANGED <<write_vars, cache, walk_vars, cursor, page, more, answer_vars, hidden>>

\* SetCurrentLines, which can fail.
Fill ==
  /\ reader = "fill"
  /\ cache' \in {page, cache}
  /\ reader' = "answer"
  /\ UNCHANGED <<write_vars, walk_vars, cursor, page, more, answer_vars, hidden>>

\* filterBySide, on the page alone.
OfSide(rows) == {r \in rows : walk.side # NoFilter => SideOf[r.key] = walk.side}

IsLast(k, keys) == k \in keys /\ \A j \in keys : j <= k

\* Faulty variant of NextCursor: the last line of the entry, not of the page.
NextCursorOfEntry(rows) ==
  IF ~more \/ rows = {} THEN NoCursor
  ELSE CHOOSE k \in Lines : IsLast(k, KeysIn(IF Cacheable THEN rows \cup cache ELSE rows))

\* Faulty variant of NextCursor: one past the last line answered.
NextCursorPast(rows) ==
  IF ~more \/ rows = {} THEN NoCursor
  ELSE 1 + CHOOSE k \in Lines : IsLast(k, KeysIn(rows))

\* nextCursor: the key of the last line answered.
NextCursor(rows) ==
  IF ~more \/ rows = {} THEN NoCursor ELSE CHOOSE k \in Lines : IsLast(k, KeysIn(rows))

Answer ==
  /\ reader = "answer"
  /\ LET lines == OfSide(page) IN
       /\ next' = NextCursor(lines)
       /\ repeated' = repeated \cup (got \cap KeysIn(lines))
       /\ got' = got \cup KeysIn(lines)
  /\ reader' = "client"
  /\ UNCHANGED <<write_vars, cache, walk_vars, cursor, page, more, hidden>>

\* The client follows next_cursor, or is done.
Follow ==
  /\ reader = "client" /\ next # NoCursor
  /\ cursor' = next
  /\ reader' = "lookup"
  /\ UNCHANGED <<write_vars, cache, walk_vars, page, more, answer_vars, hidden>>

Leave ==
  /\ reader = "client"
  /\ reader' = "idle"
  /\ UNCHANGED <<write_vars, cache, walk_vars, cursor, page, more, answer_vars, hidden>>

Next ==
  \/ \E t \in Stamps : \E rows \in SUBSET BatchRows(t) : Store(t, rows)
  \/ Invalidate \/ Expire
  \/ \E w \in Walks : Begin(w)
  \/ HitCache \/ MissCache \/ Load \/ LoadFails \/ Fill \/ Answer \/ Follow \/ Leave

Spec == Init /\ [][Next]_vars

---------------------------------------------------------------------------
(* Properties *)

Rows == [key : Lines, at : Stamps, val : BOOLEAN, seq : Nat]

TypeOK ==
  /\ table \subseteq Rows /\ stored \in 0..MaxRows
  /\ writer \in {"idle", "invalidate"}
  /\ cache \subseteq Rows
  /\ reader \in {"idle", "lookup", "load", "fill", "answer", "client"}
  /\ walk \in Walks /\ cursor \in Lines \cup {NoCursor}
  /\ page \subseteq Rows /\ more \in BOOLEAN /\ next \in Lines \cup {NoCursor}
  /\ got \subseteq Lines /\ repeated \subseteq Lines
  /\ basis \subseteq Lines /\ hidden \subseteq Lines

\* No line is answered twice in a walk, whatever is stored meanwhile and whether or
\* not the first page comes from the cache (nextCursor, the cursor condition of
\* queryLines, paginateCached).
NoLineTwice == repeated = {}

\* A walk is over when there is no cursor to follow.  One with a side is stuck, not
\* over, when the filter has emptied a page and has_more is still set: such a page
\* has no line to make a cursor of.
WalkDone ==
  reader = "client" /\ next = NoCursor /\ (walk.side # NoFilter => ~more)

\* A walk that is over has answered every line that was there when it began, with a
\* side or without, except those the cache entry of its first page did not know
\* (GameLines, filterBySide after LIMIT, nextCursor, paginateCached).
WalkComplete == WalkDone => basis \subseteq got \cup hidden

\* The lines an old entry hides were stored, every row of theirs, after all the entry
\* has, though they may have been captured before: an entry was the whole game when it
\* was loaded (GameLines fills only when there is no more).
HiddenLinesAreNew ==
  [][reader = "lookup" /\ reader' = "answer" =>
       \A r \in table, q \in cache : r.key \in hidden' => q.seq < r.seq]_vars
==========================================================================
