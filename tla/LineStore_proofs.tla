-------------------------- MODULE LineStore_proofs --------------------------
(***************************************************************************)
(* What the operators of LineStore promise for tables of any size.         *)
(***************************************************************************)
EXTENDS LineStore, FunctionTheorems, FiniteSetTheorems, WellFoundedInduction, TLAPS

\* A finite set of instants that is not empty has a latest one.
LEMMA LatestInstant ==
  ASSUME NEW S \in SUBSET Nat, IsFiniteSet(S), S # {}
  PROVE  \E m \in S : \A n \in S : n <= m
<1> DEFINE After(n) == {s \in S : s >= n}
           T == {After(n) : n \in S}
<1>1. T \subseteq FiniteSubsetsOf(S)
  BY FS_Subset DEF FiniteSubsetsOf
<1>2. T # {}
  OBVIOUS
<1>3. PICK x \in T : \A y \in T : <<y, x>> \notin StrictSubsetOrdering(S)
  <2> HIDE DEF T
  <2> QED
    BY <1>1, <1>2, FS_StrictSubsetOrderingWellFounded, WFMin
<1>4. PICK m \in S : x = After(m)
  OBVIOUS
<1>5. ASSUME NEW n \in S, ~ (n <= m) PROVE FALSE
  <2>1. m \in Nat /\ n \in Nat /\ m < n /\ \A s \in S : s \in Nat
    BY <1>5
  <2>2. After(n) \subseteq After(m) /\ m \in After(m) /\ m \notin After(n)
    <3>1. \A s \in S : s >= n => s >= m
      BY <2>1
    <3>2. m >= m /\ ~ (m >= n)
      BY <2>1
    <3> QED
      BY <3>1, <3>2
  <2>3. <<After(n), x>> \in StrictSubsetOrdering(S)
    BY <2>2, <1>4 DEF StrictSubsetOrdering
  <2> QED
    BY <2>3, <1>3
<1> QED
  BY <1>5

\* Every line that has rows has a current one, if the stamps of its rows are
\* finitely many.
LEMMA CurrentExists ==
  ASSUME NEW rows, NEW r \in rows,
         \A q \in rows : q.at \in Nat,
         IsFiniteSet({q.at : q \in rows})
  PROVE  \E c \in Current(rows) : c.key = r.key /\ r.at <= c.at
<1> DEFINE S == {q.at : q \in {p \in rows : p.key = r.key}}
<1>1. S \in SUBSET Nat /\ IsFiniteSet(S) /\ S # {}
  <2>1. S \subseteq {q.at : q \in rows}
    OBVIOUS
  <2> QED
    BY <2>1, FS_Subset
<1>2. PICK m \in S : \A n \in S : n <= m
  <2> HIDE DEF S
  <2> QED
    BY <1>1, LatestInstant
<1>3. PICK c \in rows : c.key = r.key /\ c.at = m
  OBVIOUS
<1>4. c \in Current(rows)
  BY <1>2, <1>3 DEF Current
<1> QED
  BY <1>2, <1>3, <1>4

\* A finite set that is not empty has an earliest instant, too.
LEMMA EarliestInstant ==
  ASSUME NEW S \in SUBSET Nat, IsFiniteSet(S), S # {}
  PROVE  \E m \in S : \A n \in S : m <= n
<1> DEFINE Until(n) == {s \in S : s <= n}
           T == {Until(n) : n \in S}
<1>1. T \subseteq FiniteSubsetsOf(S)
  BY FS_Subset DEF FiniteSubsetsOf
<1>2. T # {}
  OBVIOUS
<1>3. PICK x \in T : \A y \in T : <<y, x>> \notin StrictSubsetOrdering(S)
  <2> HIDE DEF T
  <2> QED
    BY <1>1, <1>2, FS_StrictSubsetOrderingWellFounded, WFMin
<1>4. PICK m \in S : x = Until(m)
  OBVIOUS
<1>5. ASSUME NEW n \in S, ~ (m <= n) PROVE FALSE
  <2>1. m \in Nat /\ n \in Nat /\ n < m /\ \A s \in S : s \in Nat
    BY <1>5
  <2>2. Until(n) \subseteq Until(m) /\ m \in Until(m) /\ m \notin Until(n)
    <3>1. \A s \in S : s <= n => s <= m
      BY <2>1
    <3>2. m <= m /\ ~ (m <= n)
      BY <2>1
    <3> QED
      BY <3>1, <3>2
  <2>3. <<Until(n), x>> \in StrictSubsetOrdering(S)
    BY <2>2, <1>4 DEF StrictSubsetOrdering
  <2> QED
    BY <2>3, <1>3
<1> QED
  BY <1>5

\* A function takes finitely many values on a finite set.
LEMMA ImageFinite ==
  ASSUME NEW S, IsFiniteSet(S), NEW f, DOMAIN f = S, f = [x \in S |-> f[x]]
  PROVE  IsFiniteSet({f[x] : x \in S})
<1> DEFINE T == {f[x] : x \in S}
<1>1. f \in [S -> T] /\ \A y \in T : \E x \in S : f[x] = y
  OBVIOUS
<1>2. f \in Surjection(S, T)
  BY <1>1 DEF Surjection
<1> HIDE DEF T
<1>3. IsFiniteSet(T)
  BY <1>2, FS_Surjection
<1> QED
  BY <1>3 DEF T

\* Finitely many rows have finitely many stamps.
LEMMA StampsFinite ==
  ASSUME NEW rows, IsFiniteSet(rows)
  PROVE  IsFiniteSet({q.at : q \in rows})
<1> DEFINE f == [q \in rows |-> q.at]
<1>1. IsFiniteSet({f[q] : q \in rows})
  <2>1. DOMAIN f = rows /\ f = [q \in rows |-> f[q]]
    OBVIOUS
  <2> HIDE DEF f
  <2> QED
    BY <2>1, ImageFinite
<1> QED
  BY <1>1

\* A line has one current row, if no slot has two.
LEMMA CurrentUnique ==
  ASSUME NEW rows, SlotsUnique(rows), \A q \in rows : q.at \in Nat,
         NEW c \in Current(rows), NEW d \in Current(rows), c.key = d.key
  PROVE  c = d
BY DEF Current, SlotsUnique, SameSlot

---------------------------------------------------------------------------
(* Inserts *)

\* An insert has an outcome, whatever the table and the batch hold, two snapshots in
\* one slot included: no action that inserts is disabled by what it inserts.
THEOREM InsertHasOutcome ==
  ASSUME NEW rows, NEW batch
  PROVE  InsertOutcomes(rows, batch) # {}
<1> DEFINE Rivals(r) == {q \in batch : SameSlot(q, r)}
           new == {r \in batch : /\ \A q \in rows : ~ SameSlot(r, q)
                                 /\ r = CHOOSE q \in Rivals(r) : TRUE}
<1>1. \A r, q \in batch : SameSlot(r, q) => Rivals(r) = Rivals(q)
  BY DEF SameSlot
<1>2. SlotsUnique(new)
  <2> SUFFICES ASSUME NEW r \in new, NEW q \in new, SameSlot(r, q)
               PROVE  r = q
    BY DEF SlotsUnique
  <2>1. Rivals(r) = Rivals(q)
    BY <1>1
  <2> QED
    BY <2>1
<1>3. ASSUME NEW r \in batch
      PROVE  \E q \in rows \cup new : SameSlot(r, q)
  <2>1. CASE \E q \in rows : SameSlot(r, q)
    BY <2>1
  <2>2. CASE \A q \in rows : ~ SameSlot(r, q)
    <3> DEFINE kept == CHOOSE q \in Rivals(r) : TRUE
    <3>1. kept \in Rivals(r)
      <4>1. r \in Rivals(r)
        BY DEF SameSlot
      <4> QED
        BY <4>1
    <3>2. kept \in batch /\ SameSlot(r, kept)
      BY <3>1 DEF SameSlot
    <3>3. Rivals(kept) = Rivals(r)
      BY <1>1, <3>2
    <3>4. \A q \in rows : ~ SameSlot(kept, q)
      BY <2>2, <3>2 DEF SameSlot
    <3>5. kept \in new
      BY <3>2, <3>3, <3>4
    <3> QED
      BY <3>2, <3>5
  <2> QED
    BY <2>1, <2>2
<1>4. new \in InsertOutcomes(rows, batch)
  <2>1. new \in SUBSET batch /\ \A r \in new : \A q \in rows : ~ SameSlot(r, q)
    OBVIOUS
  <2> HIDE DEF new
  <2> QED
    BY <1>2, <1>3, <2>1 DEF InsertOutcomes
<1> QED
  BY <1>4

\* A batch that is stored once more adds nothing, in whole or in part, whatever the
\* dedup made of it: a retry after a lost answer and a replayed frame are harmless
\* (ON CONFLICT DO NOTHING in InsertLineSnapshots).
THEOREM RetryStoresNothing ==
  ASSUME NEW rows, NEW batch, NEW new \in InsertOutcomes(rows, batch),
         NEW again \in SUBSET batch, NEW later, rows \cup new \subseteq later
  PROVE  InsertOutcomes(later, again) = {{}}
<1>1. ASSUME NEW r \in again PROVE \E q \in later : SameSlot(r, q)
  BY DEF InsertOutcomes
<1>2. ASSUME NEW more \in InsertOutcomes(later, again) PROVE more = {}
  BY <1>1 DEF InsertOutcomes
<1>3. {} \in InsertOutcomes(later, again)
  BY <1>1 DEF InsertOutcomes, SlotsUnique
<1> QED
  BY <1>2, <1>3
=============================================================================
