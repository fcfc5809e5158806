-------------------------- MODULE LinePages_proofs --------------------------
(***************************************************************************)
(* Theorems about LinePages for any finite number of lines, any sides,     *)
(* page sizes and number of rows stored while a client walks.              *)
(***************************************************************************)
EXTENDS LinePages, LineStore_proofs, FunctionTheorems, FiniteSetTheorems, TLAPS

\* Tables, entries and pages are finite, and hold nothing from the future.
TypeInv ==
  /\ TypeOK
  /\ IsFiniteSet(table) /\ IsFiniteSet(cache) /\ IsFiniteSet(page)
  /\ \A r \in table \cup cache \cup page : r.seq <= stored

\* The lines of the walk up to a place have been answered, or hidden by an entry.
PassedTo(place) == \A k \in basis : k <= place => k \in got \cup hidden
NothingBeyond(place) == \A k \in got : k <= place

\* A loaded page is what follows the cursor: no line of the walk is left out between
\* its lines, or after them unless there is more.
PageFollows ==
  /\ \A k \in KeysIn(page) : k > cursor
  /\ \A k \in basis \ hidden :
       k > cursor => \/ k \in KeysIn(page)
                     \/ more /\ \A j \in KeysIn(page) : j < k
  /\ more => page # {}

WalkInv ==
  /\ NoLineTwice
  /\ reader # "idle" => basis \subseteq KeysIn(OfWalk(walk, table))
  /\ reader \in {"lookup", "load", "fill", "answer"}
       => PassedTo(cursor) /\ NothingBeyond(cursor)
  /\ reader \in {"fill", "answer"} => PageFollows
  /\ reader = "client" /\ next # NoCursor => PassedTo(next) /\ NothingBeyond(next)
  /\ WalkComplete

\* What is cached, or about to be, was the whole game once: a line it lacks has only
\* rows stored later.
WholeWhenLoaded(rows) ==
  \A r \in table : r.key \notin KeysIn(rows) => \A q \in rows : q.seq < r.seq

CacheInv ==
  /\ WholeWhenLoaded(cache)
  /\ reader = "fill" => WholeWhenLoaded(page)
---------------------------------------------------------------------------
(* The operators *)

LEMMA Constants ==
  /\ \A k \in Lines : k \in Nat /\ k >= 1
  /\ NoCursor \in Nat /\ \A k \in Lines : k > NoCursor /\ k # NoCursor
  /\ \A l \in Limits : l \in Nat /\ l >= 1
BY PagesAssumption DEF NoCursor

LEMMA KeysType ==
  ASSUME NEW rows \in SUBSET Rows
  PROVE  KeysIn(rows) \in SUBSET Lines /\ IsFiniteSet(KeysIn(rows))
<1>1. KeysIn(rows) \in SUBSET Lines
  BY DEF KeysIn, Rows
<1> QED
  BY <1>1, PagesAssumption, FS_Subset

\* A stored batch is finite, as its rows are of different lines.
LEMMA StoredRows ==
  ASSUME TypeInv, NEW t \in Stamps, NEW rows, Store(t, rows)
  PROVE  /\ rows \subseteq Rows /\ IsFiniteSet(rows)
         /\ \A r \in rows : r.seq = stored + 1
         /\ stored \in Nat /\ stored' = stored + 1
<1>1. rows \in SUBSET BatchRows(t) /\ SlotsUnique(rows)
  BY DEF Store
<1>2. stored \in Nat /\ stored' = stored + 1
  BY PagesAssumption DEF Store, TypeInv, TypeOK
<1>3. rows \subseteq Rows /\ \A r \in rows : r.at = t /\ r.seq = stored + 1
  BY <1>1, <1>2 DEF Rows, BatchRows
<1>4. IsFiniteSet(rows)
  <2> DEFINE f == [r \in rows |-> r.key]
  <2>1. f \in [rows -> Lines]
    BY <1>3 DEF Rows
  <2>2. \A r, q \in rows : f[r] = f[q] => r = q
    BY <1>1, <1>3 DEF SlotsUnique, SameSlot
  <2>3. f \in Injection(rows, Lines)
    BY <2>1, <2>2 DEF Injection, IsInjective
  <2> QED
    BY <2>3, PagesAssumption, FS_Injection
<1> QED
  BY <1>2, <1>3, <1>4

\* The latest rows are of the lines that have rows.
LEMMA CurrentKeys ==
  ASSUME NEW rows \in SUBSET Rows, IsFiniteSet(rows)
  PROVE  /\ Current(rows) \in SUBSET Rows /\ IsFiniteSet(Current(rows))
         /\ KeysIn(Current(rows)) = KeysIn(rows)
<1>1. Current(rows) \subseteq rows
  BY DEF Current
<1>2. \A r \in rows : r.at \in Nat
  BY PagesAssumption DEF Rows
<1>3. \A r \in rows : \E c \in Current(rows) : c.key = r.key
  BY <1>2, StampsFinite, CurrentExists
<1> QED
  BY <1>1, <1>3, FS_Subset DEF KeysIn

\* A page starts at the first of the rows, and leaves some out only if there is more.
LEMMA PageOfRows ==
  ASSUME TypeInv, NEW rows, IsFiniteSet(rows), NEW first, IsPage(first, rows)
  PROVE  /\ first \subseteq rows /\ IsFiniteSet(first)
         /\ ~ (Cardinality(rows) > walk.limit) => first = rows
         /\ \A r \in rows : r \in first \/ \A s \in first : s.key < r.key
         /\ Cardinality(rows) > walk.limit => first # {}
<1>1. walk.limit \in Nat /\ walk.limit >= 1
  BY Constants DEF TypeInv, TypeOK, Walks
<1>2. first \subseteq rows /\ \A r \in first, s \in rows \ first : r.key < s.key
  BY DEF IsPage
<1>3. Cardinality(first) = Smaller(walk.limit, Cardinality(rows))
  BY DEF IsPage
<1>4. IsFiniteSet(first) /\ Cardinality(rows) \in Nat
      /\ (Cardinality(rows) = Cardinality(first) => rows = first)
  BY <1>2, FS_Subset, FS_CardinalityType
<1>5. ~ (Cardinality(rows) > walk.limit) => first = rows
  BY <1>1, <1>3, <1>4 DEF Smaller
<1>6. Cardinality(rows) > walk.limit => first # {}
  BY <1>1, <1>3, <1>4, FS_EmptySet DEF Smaller
<1> QED
  BY <1>2, <1>4, <1>5, <1>6

\* The cursor of an answer is the last of its lines.
LEMMA NextIsLast ==
  ASSUME TypeInv, NEW rows \in SUBSET Rows
  PROVE  /\ NextCursor(rows) \in Lines \cup {NoCursor}
         /\ NextCursor(rows) = NoCursor <=> ~ more \/ rows = {}
         /\ NextCursor(rows) # NoCursor => IsLast(NextCursor(rows), KeysIn(rows))
<1>1. CASE ~ more \/ rows = {}
  BY <1>1 DEF NextCursor
<1>2. CASE ~ (~ more \/ rows = {})
  <2> DEFINE K == KeysIn(rows)
  <2>1. K \in SUBSET Nat /\ IsFiniteSet(K) /\ K # {} /\ K \subseteq Lines
    BY <1>2, KeysType, Constants DEF KeysIn
  <2> HIDE DEF K
  <2>2. \E k \in Lines : IsLast(k, K)
    BY <2>1, LatestInstant DEF IsLast
  <2>3. (CHOOSE k \in Lines : IsLast(k, K)) \in Lines
        /\ IsLast(CHOOSE k \in Lines : IsLast(k, K), K)
    BY <2>2
  <2>4. NextCursor(rows) = CHOOSE k \in Lines : IsLast(k, K)
    BY <1>2 DEF NextCursor, K
  <2> QED
    BY <1>2, <2>3, <2>4, Constants DEF K
<1> QED
  BY <1>1, <1>2

---------------------------------------------------------------------------
(* Types *)

LEMMA TypeInit == Init => TypeInv
<1> SUFFICES ASSUME Init PROVE TypeInv
  OBVIOUS
<1>1. 0 \in 0..MaxRows
  BY PagesAssumption
<1>2. TypeOK
  BY <1>1 DEF Init, TypeOK
<1>3. IsFiniteSet(table) /\ IsFiniteSet(cache) /\ IsFiniteSet(page)
  BY FS_EmptySet DEF Init
<1> QED
  BY <1>2, <1>3 DEF Init, TypeInv

\* What a request reads from the table.
LEMMA LoadedRows ==
  ASSUME TypeInv
  PROVE  LET rows == Current(Beyond(Filtered(table)))
         IN  /\ rows \subseteq table /\ rows \subseteq Rows /\ IsFiniteSet(rows)
             /\ KeysIn(rows) = KeysIn(Beyond(Filtered(table)))
<1> DEFINE read == Beyond(Filtered(table))
<1>1. read \subseteq table /\ read \in SUBSET Rows
  BY DEF Beyond, Filtered, TypeInv, TypeOK
<1>2. IsFiniteSet(read)
  BY <1>1, FS_Subset DEF TypeInv
<1> HIDE DEF read
<1>3. /\ Current(read) \subseteq Rows /\ IsFiniteSet(Current(read))
      /\ KeysIn(Current(read)) = KeysIn(read)
  BY <1>1, <1>2, CurrentKeys
<1>4. Current(read) \subseteq table
  BY <1>1 DEF Current
<1> QED
  BY <1>3, <1>4 DEF read

LEMMA TypeStep == TypeInv /\ [Next]_vars => TypeInv'
<1> SUFFICES ASSUME TypeInv, [Next]_vars PROVE TypeInv'
  OBVIOUS
<1> USE DEF TypeInv, TypeOK, write_vars, walk_vars, answer_vars
<1>1. ASSUME NEW t \in Stamps, NEW rows, Store(t, rows) PROVE TypeInv'
  <2>1. /\ rows \subseteq Rows /\ IsFiniteSet(rows) /\ \A r \in rows : r.seq = stored + 1
        /\ stored \in Nat /\ stored' = stored + 1
    BY <1>1, StoredRows
  <2>2. IsFiniteSet(table \cup rows)
    BY <2>1, FS_Union
  <2>3. stored' \in 0..MaxRows
    BY <1>1, <2>1, PagesAssumption DEF Store
  <2>4. \A r \in table \cup cache \cup page : r.seq <= stored + 1
    BY <2>1 DEF Rows
  <2> QED
    BY <1>1, <2>1, <2>2, <2>3, <2>4 DEF Store
<1>2. CASE Invalidate
  BY <1>2, FS_EmptySet DEF Invalidate
<1>3. CASE Expire
  BY <1>3, FS_EmptySet DEF Expire
<1>4. ASSUME NEW w \in Walks, Begin(w) PROVE TypeInv'
  <2>1. OfWalk(w, table) \in SUBSET Rows
    BY DEF OfWalk
  <2>2. KeysIn(OfWalk(w, table)) \in SUBSET Lines
    BY <2>1, KeysType
  <2> QED
    BY <1>4, <2>2, FS_EmptySet DEF Begin
<1>5. CASE HitCache
  <2>1. PICK first \in SUBSET cache : IsPage(first, cache) /\ page' = first
    BY <1>5 DEF HitCache, Paginate
  <2>2. IsFiniteSet(page')
    BY <2>1, PageOfRows
  <2>3. more' \in BOOLEAN
    BY <1>5 DEF HitCache, Paginate
  <2> QED
    BY <1>5, <2>1, <2>2, <2>3 DEF HitCache
<1>6. CASE MissCache
  BY <1>6 DEF MissCache
<1>7. CASE Load
  <2> DEFINE rows == Current(Beyond(Filtered(table)))
  <2>1. rows \subseteq table /\ rows \subseteq Rows /\ IsFiniteSet(rows)
    BY LoadedRows
  <2>2. /\ \E first \in SUBSET rows : IsPage(first, rows) /\ page' = first
        /\ more' \in BOOLEAN
    BY <1>7 DEF Load, Paginate
  <2> HIDE DEF rows
  <2>3. PICK first \in SUBSET rows : IsPage(first, rows) /\ page' = first
    BY <2>2
  <2>4. IsFiniteSet(page')
    BY <2>1, <2>3, PageOfRows
  <2> QED
    BY <1>7, <2>1, <2>2, <2>3, <2>4 DEF Load
<1>8. CASE LoadFails
  BY <1>8 DEF LoadFails
<1>9. CASE Fill
  BY <1>9 DEF Fill
<1>10. CASE Answer
  <2>1. OfSide(page) \in SUBSET Rows
    BY DEF OfSide
  <2>2. KeysIn(OfSide(page)) \in SUBSET Lines /\ NextCursor(OfSide(page)) \in Lines \cup {NoCursor}
    BY <2>1, KeysType, NextIsLast
  <2> QED
    BY <1>10, <2>2 DEF Answer
<1>11. CASE Follow
  BY <1>11 DEF Follow
<1>12. CASE Leave
  BY <1>12 DEF Leave
<1>13. CASE UNCHANGED vars
  BY <1>13 DEF vars
<1> QED
  BY <1>1, <1>2, <1>3, <1>4, <1>5, <1>6, <1>7, <1>8, <1>9, <1>10, <1>11, <1>12, <1>13
     DEF Next

\* Every variable keeps its type: among others, a cursor is the key of a line.
THEOREM TypeCorrect == Spec => []TypeOK
<1>1. Spec => []TypeInv
  BY TypeInit, TypeStep, PTL DEF Spec
<1> QED
  BY <1>1, PTL DEF TypeInv
---------------------------------------------------------------------------
(* The walk *)

\* The lines of a result are on its page, or after it and there is more.
LEMMA PageOfLines ==
  ASSUME TypeInv, NEW rows, IsFiniteSet(rows), Paginate(rows)
  PROVE  /\ page' \subseteq rows /\ (~ more' => page' = rows)
         /\ KeysIn(page') \subseteq KeysIn(rows)
         /\ \A k \in KeysIn(rows) : \/ k \in KeysIn(page')
                                    \/ more' /\ \A j \in KeysIn(page') : j < k
         /\ more' => page' # {}
<1>1. PICK first \in SUBSET rows : IsPage(first, rows) /\ page' = first
  BY DEF Paginate
<1>2. more' = (Cardinality(rows) > walk.limit)
  BY DEF Paginate
<1>3. /\ page' \subseteq rows /\ (~ more' => page' = rows) /\ (more' => page' # {})
      /\ \A r \in rows : r \in page' \/ \A s \in page' : s.key < r.key
  BY <1>1, <1>2, PageOfRows
<1> QED
  BY <1>3 DEF KeysIn

\* The lines of the walk stay in the table, and the places passed stay passed, as
\* long as the request's own variables do.
LEMMA WalkGoesOn ==
  ASSUME WalkInv, table \subseteq table',
         UNCHANGED <<walk, basis, got, repeated, hidden, cursor, next, page, more>>,
         reader' = reader \/ reader' = "idle"
  PROVE  WalkInv'
<1>1. reader # "idle" => basis \subseteq KeysIn(OfWalk(walk, table'))
  BY DEF WalkInv, KeysIn, OfWalk
<1>2. NoLineTwice' /\ WalkComplete'
  BY DEF WalkInv, NoLineTwice, WalkComplete, WalkDone
<1> QED
  BY <1>1, <1>2 DEF WalkInv, PassedTo, NothingBeyond, PageFollows, KeysIn, OfWalk

LEMMA WalkInit == Init => WalkInv
BY DEF Init, WalkInv, NoLineTwice, WalkComplete, WalkDone

\* A walk begins with all its lines to come.
LEMMA WalkBegins ==
  ASSUME TypeInv, NEW w \in Walks, Begin(w)
  PROVE  WalkInv'
<1>1. /\ reader' = "lookup" /\ cursor' = NoCursor /\ got' = {} /\ repeated' = {}
      /\ walk' = w /\ table' = table /\ basis' = KeysIn(OfWalk(w, table))
  BY DEF Begin, write_vars
<1>2. KeysIn(OfWalk(w, table)) \subseteq Lines
  BY KeysType DEF TypeInv, TypeOK, OfWalk
<1>3. PassedTo(cursor)' /\ NothingBeyond(cursor)'
  BY <1>1, <1>2, Constants DEF PassedTo, NothingBeyond
<1>4. (reader # "idle" => basis \subseteq KeysIn(OfWalk(walk, table)))'
  BY <1>1 DEF KeysIn, OfWalk
<1> QED
  BY <1>1, <1>3, <1>4 DEF WalkInv, NoLineTwice, WalkComplete, WalkDone

\* What a request loads follows its cursor, whether it comes from the table or is the
\* cached first page.
LEMMA WalkLoads ==
  ASSUME TypeInv, WalkInv, Load
  PROVE  WalkInv'
<1> DEFINE read == Beyond(Filtered(table))
           rows == Current(read)
<1>1. /\ reader = "load" /\ reader' \in {"fill", "answer"} /\ Paginate(rows)
      /\ UNCHANGED <<table, walk, basis, cursor, next, got, repeated, hidden>>
  BY DEF Load, write_vars, walk_vars, answer_vars
<1>2. IsFiniteSet(rows) /\ KeysIn(rows) = KeysIn(read)
  BY LoadedRows
<1>3. \A k \in KeysIn(read) : k > cursor
  BY DEF KeysIn, Beyond
<1>4. \A k \in basis : k > cursor => k \in KeysIn(read)
  BY <1>1 DEF WalkInv, KeysIn, OfWalk, Beyond, Filtered
<1> HIDE DEF read, rows
<1>5. /\ KeysIn(page') \subseteq KeysIn(rows) /\ (more' => page' # {})
      /\ \A k \in KeysIn(rows) : \/ k \in KeysIn(page')
                                 \/ more' /\ \A j \in KeysIn(page') : j < k
  BY <1>1, <1>2, PageOfLines
<1>6. PageFollows'
  BY <1>1, <1>2, <1>3, <1>4, <1>5 DEF PageFollows, KeysIn
<1>7. PassedTo(cursor)' /\ NothingBeyond(cursor)'
  BY <1>1 DEF WalkInv, PassedTo, NothingBeyond
<1>8. basis' \subseteq KeysIn(OfWalk(walk, table))'
  BY <1>1 DEF WalkInv, KeysIn, OfWalk
<1> QED
  BY <1>1, <1>6, <1>7, <1>8 DEF WalkInv, NoLineTwice, WalkComplete, WalkDone

LEMMA WalkHits ==
  ASSUME TypeInv, WalkInv, HitCache
  PROVE  WalkInv'
<1>1. /\ reader = "lookup" /\ reader' = "answer" /\ Paginate(cache) /\ cursor = NoCursor
      /\ UNCHANGED <<table, walk, basis, cursor, next, got, repeated>>
      /\ hidden' = basis \ KeysIn(cache)
  BY DEF HitCache, Cacheable, write_vars, walk_vars, answer_vars
<1>2. /\ KeysIn(page') \subseteq KeysIn(cache) /\ (more' => page' # {})
      /\ \A k \in KeysIn(cache) : \/ k \in KeysIn(page')
                                  \/ more' /\ \A j \in KeysIn(page') : j < k
  BY <1>1, PageOfLines DEF TypeInv
<1>3. KeysIn(cache) \subseteq Lines /\ basis \subseteq Lines
  BY KeysType DEF TypeInv, TypeOK
<1>4. PageFollows'
  BY <1>1, <1>2, <1>3, Constants DEF PageFollows, KeysIn
<1>5. PassedTo(cursor)'
  BY <1>1, <1>3, Constants DEF PassedTo
<1>6. NothingBeyond(cursor)' /\ basis' \subseteq KeysIn(OfWalk(walk, table))'
  BY <1>1 DEF WalkInv, NothingBeyond, KeysIn, OfWalk
<1> QED
  BY <1>1, <1>4, <1>5, <1>6 DEF WalkInv, NoLineTwice, WalkComplete, WalkDone

\* An answer takes the walk to its last line, or to its end.
LEMMA WalkAnswers ==
  ASSUME TypeInv, WalkInv, Answer
  PROVE  WalkInv'
<1> DEFINE lines == OfSide(page)
           K == KeysIn(lines)
<1>1. /\ reader = "answer" /\ reader' = "client" /\ next' = NextCursor(lines)
      /\ repeated' = repeated \cup (got \cap K) /\ got' = got \cup K
      /\ UNCHANGED <<table, walk, basis, cursor, page, more, hidden>>
  BY DEF Answer, write_vars, walk_vars
<1>2. lines \in SUBSET Rows /\ lines \subseteq page /\ K \subseteq KeysIn(page)
  BY DEF TypeInv, TypeOK, OfSide, KeysIn
<1>3. K \in SUBSET Lines /\ KeysIn(page) \in SUBSET Lines /\ basis \subseteq Lines
      /\ got \subseteq Lines /\ cursor \in Nat
  BY <1>2, KeysType, Constants DEF TypeInv, TypeOK
<1>4. \A k \in KeysIn(page) : k \in basis => k \in K
  <2>1. \A k \in basis : walk.side # NoFilter => SideOf[k] = walk.side
    BY <1>1 DEF WalkInv, KeysIn, OfWalk
  <2> QED
    BY <2>1 DEF KeysIn, OfSide
<1>5. walk.side = NoFilter => lines = page
  BY DEF OfSide
<1>6. /\ next' = NoCursor <=> ~ more \/ lines = {}
      /\ next' # NoCursor => IsLast(next', K)
  BY <1>1, <1>2, NextIsLast
<1> HIDE DEF lines, K
<1>7. PageFollows /\ PassedTo(cursor) /\ NothingBeyond(cursor)
  BY <1>1 DEF WalkInv
<1>8. got \cap K = {}
  BY <1>2, <1>3, <1>7, Constants DEF PageFollows, NothingBeyond
<1>9. \A k \in basis \ hidden : \/ k \in got'
                                \/ more /\ \A j \in KeysIn(page) : j < k
  BY <1>1, <1>3, <1>4, <1>7, Constants DEF PageFollows, PassedTo
<1>10. ASSUME next' # NoCursor
       PROVE  /\ \A k \in basis : k <= next' => k \in got' \cup hidden
              /\ \A k \in got' : k <= next'
  <2>1. next' \in K /\ next' \in KeysIn(page) /\ next' \in Nat /\ \A j \in K : j <= next'
    BY <1>2, <1>3, <1>6, <1>10, Constants DEF IsLast
  <2>2. \A k \in basis : k <= next' => k \in got' \cup hidden
    BY <1>3, <1>9, <2>1, Constants
  <2>3. next' > cursor
    BY <1>7, <2>1 DEF PageFollows
  <2>4. \A k \in got' : k <= next'
    BY <1>1, <1>3, <1>7, <2>1, <2>3, Constants DEF NothingBeyond
  <2> QED
    BY <2>2, <2>4
<1>11. WalkComplete'
  <2> SUFFICES ASSUME next' = NoCursor, walk.side # NoFilter => ~ more
               PROVE  basis \subseteq got' \cup hidden
    BY <1>1 DEF WalkComplete, WalkDone
  <2>1. ~ more
    BY <1>5, <1>6, <1>7 DEF PageFollows
  <2> QED
    BY <1>9, <2>1
<1>12. basis' \subseteq KeysIn(OfWalk(walk, table))'
  BY <1>1 DEF WalkInv, KeysIn, OfWalk
<1> QED
  BY <1>1, <1>8, <1>10, <1>11, <1>12 DEF WalkInv, NoLineTwice, PassedTo, NothingBeyond

LEMMA WalkStep == TypeInv /\ WalkInv /\ [Next]_vars => WalkInv'
<1> SUFFICES ASSUME TypeInv, WalkInv, [Next]_vars PROVE WalkInv'
  OBVIOUS
<1> USE DEF write_vars, walk_vars, answer_vars
<1>1. ASSUME NEW t \in Stamps, NEW rows, Store(t, rows) PROVE WalkInv'
  BY <1>1, WalkGoesOn DEF Store
<1>2. CASE Invalidate
  BY <1>2, WalkGoesOn DEF Invalidate
<1>3. CASE Expire
  BY <1>3, WalkGoesOn DEF Expire
<1>4. ASSUME NEW w \in Walks, Begin(w) PROVE WalkInv'
  BY <1>4, WalkBegins
<1>5. CASE HitCache
  BY <1>5, WalkHits
<1>6. CASE MissCache
  <2>1. /\ reader = "lookup" /\ reader' = "load"
        /\ UNCHANGED <<table, walk, basis, cursor, page, more, next, got, repeated, hidden>>
    BY <1>6 DEF MissCache
  <2>2. basis' \subseteq KeysIn(OfWalk(walk, table))'
    BY <2>1 DEF WalkInv, KeysIn, OfWalk
  <2> QED
    BY <2>1, <2>2 DEF WalkInv, NoLineTwice, WalkComplete, WalkDone, PassedTo, NothingBeyond
<1>7. CASE Load
  BY <1>7, WalkLoads
<1>8. CASE LoadFails
  BY <1>8, WalkGoesOn DEF LoadFails
<1>9. CASE Fill
  <2>1. /\ reader = "fill" /\ reader' = "answer"
        /\ UNCHANGED <<table, walk, basis, cursor, page, more, next, got, repeated, hidden>>
    BY <1>9 DEF Fill
  <2>2. basis' \subseteq KeysIn(OfWalk(walk, table))' /\ (PageFollows' <=> PageFollows)
    BY <2>1 DEF WalkInv, KeysIn, OfWalk, PageFollows
  <2> QED
    BY <2>1, <2>2 DEF WalkInv, NoLineTwice, WalkComplete, WalkDone, PassedTo, NothingBeyond
<1>10. CASE Answer
  BY <1>10, WalkAnswers
<1>11. CASE Follow
  <2>1. /\ reader = "client" /\ next # NoCursor /\ cursor' = next /\ reader' = "lookup"
        /\ UNCHANGED <<table, walk, basis, page, more, next, got, repeated, hidden>>
    BY <1>11 DEF Follow
  <2>2. basis' \subseteq KeysIn(OfWalk(walk, table))'
    BY <2>1 DEF WalkInv, KeysIn, OfWalk
  <2> QED
    BY <2>1, <2>2 DEF WalkInv, NoLineTwice, WalkComplete, WalkDone, PassedTo, NothingBeyond
<1>12. CASE Leave
  BY <1>12, WalkGoesOn DEF Leave
<1>13. CASE UNCHANGED vars
  BY <1>13, WalkGoesOn DEF vars
<1> QED
  BY <1>1, <1>2, <1>3, <1>4, <1>5, <1>6, <1>7, <1>8, <1>9, <1>10, <1>11, <1>12, <1>13
     DEF Next

LEMMA Invariants == Spec => [](TypeInv /\ WalkInv)
<1>1. Init => TypeInv /\ WalkInv
  BY TypeInit, WalkInit
<1>2. TypeInv /\ WalkInv /\ [Next]_vars => (TypeInv /\ WalkInv)'
  BY TypeStep, WalkStep
<1> QED
  BY <1>1, <1>2, PTL DEF Spec

\* No line is answered twice in a walk, whatever is stored meanwhile and whether or
\* not the first page comes from the cache.
THEOREM NoLineTwiceCorrect == Spec => []NoLineTwice
BY Invariants, PTL DEF WalkInv

\* A walk that is over has answered every line that was there when it began, those
\* aside that the entry of its first page did not know.
THEOREM WalkCompleteCorrect == Spec => []WalkComplete
BY Invariants, PTL DEF WalkInv

---------------------------------------------------------------------------
(* The cache entry *)

LEMMA CacheInit == Init => CacheInv
BY DEF Init, CacheInv, WholeWhenLoaded

LEMMA CacheStep == TypeInv /\ CacheInv /\ [Next]_vars => CacheInv'
<1> SUFFICES ASSUME TypeInv, CacheInv, [Next]_vars PROVE CacheInv'
  OBVIOUS
<1> USE DEF CacheInv, write_vars, walk_vars, answer_vars
<1>1. ASSUME NEW t \in Stamps, NEW rows, Store(t, rows) PROVE CacheInv'
  <2>1. /\ table' = table \cup rows /\ \A r \in rows : r.seq = stored + 1
        /\ stored \in Nat /\ UNCHANGED <<cache, page, reader>>
    BY <1>1, StoredRows DEF Store
  <2>2. \A r \in rows, q \in cache \cup page : q.seq < r.seq
    BY <2>1 DEF TypeInv, TypeOK, Rows
  <2> QED
    BY <2>1, <2>2 DEF WholeWhenLoaded
<1>2. CASE Invalidate
  BY <1>2 DEF Invalidate, WholeWhenLoaded
<1>3. CASE Expire
  BY <1>3 DEF Expire, WholeWhenLoaded
<1>4. ASSUME NEW w \in Walks, Begin(w) PROVE CacheInv'
  BY <1>4 DEF Begin, WholeWhenLoaded
<1>5. CASE HitCache
  BY <1>5 DEF HitCache, WholeWhenLoaded
<1>6. CASE MissCache
  BY <1>6 DEF MissCache, WholeWhenLoaded
<1>7. CASE Load
  <2> DEFINE rows == Current(Beyond(Filtered(table)))
  <2>1. IsFiniteSet(rows) /\ KeysIn(rows) = KeysIn(Beyond(Filtered(table)))
    BY LoadedRows
  <2>2. CASE reader' = "fill"
    <3>1. Cacheable /\ ~ more'
      BY <1>7, <2>2 DEF Load, Fills
    <3>2. page' = rows
      BY <1>7, <2>1, <3>1, PageOfLines DEF Load
    <3>3. Beyond(Filtered(table)) = table
      BY <3>1, Constants DEF Cacheable, Beyond, Filtered, TypeInv, TypeOK, Rows
    <3>4. \A r \in table : r.key \in KeysIn(page')
      BY <2>1, <3>2, <3>3 DEF KeysIn
    <3> QED
      BY <1>7, <3>4 DEF Load, WholeWhenLoaded, KeysIn
  <2>3. CASE reader' # "fill"
    BY <1>7, <2>3 DEF Load, WholeWhenLoaded
  <2> QED
    BY <2>2, <2>3
<1>8. CASE LoadFails
  BY <1>8 DEF LoadFails, WholeWhenLoaded
<1>9. CASE Fill
  BY <1>9 DEF Fill, WholeWhenLoaded, KeysIn
<1>10. CASE Answer
  BY <1>10 DEF Answer, WholeWhenLoaded
<1>11. CASE Follow
  BY <1>11 DEF Follow, WholeWhenLoaded
<1>12. CASE Leave
  BY <1>12 DEF Leave, WholeWhenLoaded
<1>13. CASE UNCHANGED vars
  BY <1>13 DEF vars, WholeWhenLoaded
<1> QED
  BY <1>1, <1>2, <1>3, <1>4, <1>5, <1>6, <1>7, <1>8, <1>9, <1>10, <1>11, <1>12, <1>13
     DEF Next

\* The lines an old entry hides from a walk were stored after all the entry has,
\* whatever the order they were captured in.
THEOREM HiddenLinesAreNewCorrect == Spec => HiddenLinesAreNew
<1> DEFINE Step == reader = "lookup" /\ reader' = "answer" =>
                     \A r \in table, q \in cache : r.key \in hidden' => q.seq < r.seq
<1>1. CacheInv /\ [Next]_vars => [Step]_vars
  <2> SUFFICES ASSUME CacheInv, Next, reader = "lookup", reader' = "answer",
                      NEW r \in table, NEW q \in cache, r.key \in hidden'
               PROVE  q.seq < r.seq
    BY DEF vars
  <2>1. HitCache
    BY DEF Next, Store, Invalidate, Expire, Begin, MissCache, Load, LoadFails, Fill,
       Answer, Follow, Leave
  <2> QED
    BY <2>1 DEF HitCache, CacheInv, WholeWhenLoaded
<1>2. TypeInv /\ CacheInv /\ [Next]_vars => CacheInv'
  BY CacheStep
<1>3. Spec => []CacheInv
  BY <1>2, CacheInit, Invariants, PTL DEF Spec
<1> QED
  BY <1>1, <1>3, PTL DEF Spec, HiddenLinesAreNew
=============================================================================
