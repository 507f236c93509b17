---------------------------- MODULE Paging_proofs ----------------------------
(***************************************************************************)
(* Theorems of Paging, for any transactions, times of attachment, numbers  *)
(* of base transactions, limits and window: what a client that reads on     *)
(* while the indexer inserts gets twice, and what it does not get at all.  *)
(*                                                                         *)
(* A page is the first offset + limit rows without the first offset, in    *)
(* any of the orders by descending time, and the order is another one for  *)
(* every query.  But a row whose time no other row has is in a page just   *)
(* when the number of the newer rows, its place, is among those that the   *)
(* page asks for (InItsSlice), and an insert only adds to that number.      *)
(***************************************************************************)
EXTENDS Paging, TLAPS, FiniteSetTheorems

-----------------------------------------------------------------------------
(* The pages of any set of rows, in any order by descending time.          *)

(* The rows that every such order puts before those with x's time. *)
Before(rows, time, x) == {q \in rows : time[q] > time[x]}

(* Nobody else has x's time. *)
Alone(rows, time, x) == \A q \in rows \ {x} : time[q] # time[x]

(* What the first n rows are. *)
LEMMA NewestRows ==
  ASSUME NEW rows, IsFiniteSet(rows), NEW time, NEW n \in Nat, NEW s \in Newest(rows, time, n)
  PROVE  /\ s \subseteq rows /\ IsFiniteSet(s) /\ Cardinality(s) \in Nat /\ Cardinality(rows) \in Nat
         /\ Cardinality(s) = IF n < Cardinality(rows) THEN n ELSE Cardinality(rows)
         /\ \A r \in s, q \in rows \ s : time[r] >= time[q]
         /\ s # rows => Cardinality(s) = n
<1>1. /\ s \in SUBSET rows
      /\ Cardinality(s) = IF n < Cardinality(rows) THEN n ELSE Cardinality(rows)
      /\ \A r \in s, q \in rows \ s : time[r] >= time[q]
  BY DEF Newest
<1>2. IsFiniteSet(s) /\ Cardinality(s) \in Nat /\ Cardinality(rows) \in Nat
  BY <1>1, FS_Subset, FS_CardinalityType
<1>3. s # rows => Cardinality(rows) # Cardinality(s)
  BY <1>1, FS_Subset
<1> QED
  BY <1>1, <1>2, <1>3

(* A row among the first n has fewer than n rows before it. *)
LEMMA AmongTheFirst ==
  ASSUME NEW rows, IsFiniteSet(rows), NEW time, \A r \in rows : time[r] \in Nat, NEW n \in Nat,
         NEW s \in Newest(rows, time, n), NEW x \in s
  PROVE  Cardinality(Before(rows, time, x)) < n
<1> DEFINE before == Before(rows, time, x)
<1>1. /\ s \subseteq rows /\ IsFiniteSet(s) /\ Cardinality(s) \in Nat
      /\ Cardinality(rows) \in Nat
      /\ Cardinality(s) = IF n < Cardinality(rows) THEN n ELSE Cardinality(rows)
      /\ \A r \in s, q \in rows \ s : time[r] >= time[q]
  BY NewestRows
<1>2. before \subseteq s \ {x}
  <2>1. ASSUME NEW q \in rows, time[q] > time[x] PROVE q \in s /\ q # x
    <3>1. time[q] \in Nat /\ time[x] \in Nat
      BY <1>1
    <3>2. ~(time[x] >= time[q])
      BY <2>1, <3>1
    <3> QED
      BY <1>1, <2>1, <3>1, <3>2
  <2> QED
    BY <2>1 DEF Before
<1>3. IsFiniteSet(s \ {x}) /\ Cardinality(s \ {x}) = Cardinality(s) - 1
  BY <1>1, FS_RemoveElement
<1>4. Cardinality(before) <= Cardinality(s \ {x}) /\ Cardinality(before) \in Nat
  BY <1>2, <1>3, FS_Subset, FS_CardinalityType
<1> HIDE DEF before
<1>5. Cardinality(s) <= n
  BY <1>1
<1>6. Cardinality(before) < n
  BY <1>1, <1>3, <1>4, <1>5
<1> QED
  BY <1>6 DEF before

(* One that is alone and not among them has n rows before it at least. *)
LEMMA NotAmongTheFirst ==
  ASSUME NEW rows, IsFiniteSet(rows), NEW time, \A r \in rows : time[r] \in Nat, NEW n \in Nat,
         NEW s \in Newest(rows, time, n), NEW x \in rows \ s, \A q \in s : time[q] # time[x]
  PROVE  n <= Cardinality(Before(rows, time, x))
<1> DEFINE before == Before(rows, time, x)
<1>1. /\ s \subseteq rows /\ Cardinality(s) = n
      /\ \A r \in s, q \in rows \ s : time[r] >= time[q]
  BY NewestRows
<1>2. s \subseteq before
  <2>1. ASSUME NEW q \in s PROVE time[q] > time[x]
    <3>1. time[q] \in Nat /\ time[x] \in Nat /\ time[q] >= time[x] /\ time[q] # time[x]
      BY <1>1
    <3> QED
      BY <3>1
  <2> QED
    BY <1>1, <2>1 DEF Before
<1>3. before \subseteq rows
  BY DEF Before
<1>4. Cardinality(s) <= Cardinality(before)
  BY <1>2, <1>3, FS_Subset
<1> QED
  BY <1>1, <1>4

(* No slice is longer than its limit, and a shorter one is the last. *)
LEMMA SliceLength ==
  ASSUME NEW rows, IsFiniteSet(rows), NEW time, NEW lim \in Nat, NEW off \in Nat,
         NEW s \in Slices(rows, time, lim, off)
  PROVE  /\ s \subseteq rows /\ IsFiniteSet(s) /\ Cardinality(s) \in Nat /\ Cardinality(s) <= lim
         /\ Cardinality(s) < lim => Cardinality(rows) <= off + Cardinality(s)
<1>0. \E a \in Newest(rows, time, off), b \in Newest(rows, time, off + lim) : a \subseteq b /\ s = b \ a
  BY DEF Slices
<1>1. PICK a \in Newest(rows, time, off), b \in Newest(rows, time, off + lim) : a \subseteq b /\ s = b \ a
  BY <1>0, Zenon
<1>2. off + lim \in Nat
  OBVIOUS
<1>3. /\ IsFiniteSet(a) /\ Cardinality(a) \in Nat /\ Cardinality(rows) \in Nat
      /\ Cardinality(a) = IF off < Cardinality(rows) THEN off ELSE Cardinality(rows)
  BY NewestRows
<1>4. /\ b \subseteq rows /\ IsFiniteSet(b) /\ Cardinality(b) \in Nat
      /\ Cardinality(b) = IF off + lim < Cardinality(rows) THEN off + lim ELSE Cardinality(rows)
  BY <1>2, NewestRows
<1>5. b \cap a = a
  BY <1>1
<1>6. IsFiniteSet(s) /\ Cardinality(s) = Cardinality(b) - Cardinality(a)
  <2>1. IsFiniteSet(b \ a) /\ Cardinality(b \ a) = Cardinality(b) - Cardinality(b \cap a)
    BY <1>4, FS_Difference
  <2> QED
    BY <1>1, <1>5, <2>1
<1>7. Cardinality(s) \in Nat
  BY <1>6, FS_CardinalityType
<1> QED
  BY <1>1, <1>3, <1>4, <1>6, <1>7

(* A row that is alone is in the slice that its place belongs to. *)
LEMMA InItsSlice ==
  ASSUME NEW rows, IsFiniteSet(rows), NEW time, \A r \in rows : time[r] \in Nat, NEW lim \in Nat, NEW off \in Nat,
         NEW s \in Slices(rows, time, lim, off), NEW x \in rows, Alone(rows, time, x)
  PROVE  x \in s <=> /\ off <= Cardinality(Before(rows, time, x))
                     /\ Cardinality(Before(rows, time, x)) < off + lim
<1> DEFINE place == Cardinality(Before(rows, time, x))
<1>0. \E a \in Newest(rows, time, off), b \in Newest(rows, time, off + lim) : a \subseteq b /\ s = b \ a
  BY DEF Slices
<1>1. PICK a \in Newest(rows, time, off), b \in Newest(rows, time, off + lim) : a \subseteq b /\ s = b \ a
  BY <1>0, Zenon
<1>2. off + lim \in Nat
  OBVIOUS
<1>3. place \in Nat
  <2>1. Before(rows, time, x) \subseteq rows
    BY DEF Before
  <2> QED
    BY <2>1, FS_Subset, FS_CardinalityType
<1>4. ASSUME NEW n \in Nat, NEW c \in Newest(rows, time, n) PROVE x \in c <=> place < n
  <2>1. CASE x \in c
    BY <2>1, AmongTheFirst
  <2>2. CASE x \notin c
    <3>1. c \subseteq rows
      BY NewestRows
    <3>2. \A q \in c : time[q] # time[x]
      BY <2>2, <3>1 DEF Alone
    <3>3. n <= place
      BY <2>2, <3>2, NotAmongTheFirst
    <3> HIDE DEF place
    <3> QED
      BY <1>3, <2>2, <3>3
  <2> QED
    BY <2>1, <2>2
<1>5. (x \in a <=> place < off) /\ (x \in b <=> place < off + lim)
  BY <1>2, <1>4
<1> HIDE DEF place
<1>6. x \in s <=> off <= place /\ place < off + lim
  BY <1>1, <1>3, <1>5
<1> QED
  BY <1>6 DEF place

(* A page is one of them, or all there is. *)
LEMMA PageIs ==
  ASSUME NEW rows, NEW time, NEW lim \in Nat, NEW off \in Nat, NEW s \in Pages(rows, time, lim, off)
  PROVE  /\ lim # 0 => s \in Slices(rows, time, lim, off)
         /\ lim = 0 => s = rows
BY DEF Pages

-----------------------------------------------------------------------------
(* The pages of the listings.                                              *)

(* What Listed and Joined are for a table T. *)
ListedOf(l, T) == IF l = "all" THEN T \ ZeroSpend ELSE T
JoinedOf(T) == UNION {{t} \X (1..Parts[t]) : t \in T \ ZeroSpend}
TimesOf(T) == [r \in JoinedOf(T) |-> AttachedAt[r[1]]]

(* How many rows precede t. *)
Place(l, t, T) == Cardinality(Newer(t, ListedOf(l, T)))
NewerRows(t, T) == {r \in JoinedOf(T) : AttachedAt[r[1]] > AttachedAt[t]}
RowPlace(t, T) == Cardinality(NewerRows(t, T))

(* A table is finite. *)
LEMMA FiniteTable ==
  ASSUME NEW T \in SUBSET Tx
  PROVE  IsFiniteSet(T)
BY PagingAssumption, FS_Subset

(* More transactions put nobody further to the front. *)
LEMMA Places ==
  ASSUME NEW l, NEW t, NEW T \in SUBSET Tx, NEW U \in SUBSET T
  PROVE  Place(l, t, U) \in Nat /\ Place(l, t, T) \in Nat /\ Place(l, t, U) <= Place(l, t, T)
<1>1. Newer(t, ListedOf(l, T)) \subseteq Tx
  BY DEF Newer, ListedOf
<1>2. Newer(t, ListedOf(l, U)) \subseteq Newer(t, ListedOf(l, T))
  BY DEF Newer, ListedOf
<1> QED
  BY <1>1, <1>2, FiniteTable, FS_Subset, FS_CardinalityType DEF Place

(* A page of the listings that read the ids first. *)
LEMMA IdsPage ==
  ASSUME NEW l, NEW T \in SUBSET Tx, NEW lim \in Nat, NEW off \in Nat,
         NEW s \in Pages(ListedOf(l, T), AttachedAt, lim, off)
  PROVE  /\ s \subseteq ListedOf(l, T) /\ s \subseteq T
         /\ lim = 0 => s = ListedOf(l, T)
         /\ lim # 0 => Cardinality(s) <= lim
         /\ Cardinality(s) < lim => Cardinality(ListedOf(l, T)) <= off + Cardinality(s)
         /\ lim # 0 => \A t \in ListedOf(l, T) : Untied(t) =>
              (t \in s <=> off <= Place(l, t, T) /\ Place(l, t, T) < off + lim)
<1> DEFINE rows == ListedOf(l, T)
<1>1. rows \subseteq T /\ rows \subseteq Tx
  BY DEF ListedOf
<1>2. IsFiniteSet(rows) /\ \A r \in rows : AttachedAt[r] \in Nat
  BY <1>1, FiniteTable, PagingAssumption
<1> HIDE DEF rows
<1>3. /\ lim # 0 => s \in Slices(rows, AttachedAt, lim, off)
      /\ lim = 0 => s = rows
  BY PageIs DEF rows
<1>4. CASE lim = 0
  <2>1. s = rows /\ Cardinality(rows) \in Nat
    BY <1>2, <1>3, <1>4, FS_CardinalityType
  <2>2. ~(Cardinality(s) < lim)
    BY <1>4, <2>1
  <2> QED
    BY <1>1, <1>4, <2>1, <2>2 DEF rows
<1>5. CASE lim # 0
  <2>1. /\ s \subseteq rows /\ IsFiniteSet(s) /\ Cardinality(s) \in Nat /\ Cardinality(s) <= lim
        /\ Cardinality(s) < lim => Cardinality(rows) <= off + Cardinality(s)
    BY <1>2, <1>3, <1>5, SliceLength
  <2>2. ASSUME NEW t \in rows, Untied(t)
        PROVE  t \in s <=> off <= Place(l, t, T) /\ Place(l, t, T) < off + lim
    <3>1. Alone(rows, AttachedAt, t)
      BY <1>1, <2>2 DEF Alone, Untied
    <3>2. t \in s <=> /\ off <= Cardinality(Before(rows, AttachedAt, t))
                      /\ Cardinality(Before(rows, AttachedAt, t)) < off + lim
      BY <1>2, <1>3, <1>5, <3>1, InItsSlice
    <3>3. Before(rows, AttachedAt, t) = Newer(t, rows)
      BY DEF Before, Newer
    <3> QED
      BY <3>2, <3>3 DEF Place, rows
  <2> QED
    BY <1>1, <1>5, <2>1, <2>2 DEF rows
<1> QED
  BY <1>4, <1>5

(* The rows of a join. *)
LEMMA JoinedRows ==
  ASSUME NEW T \in SUBSET Tx
  PROVE  /\ IsFiniteSet(JoinedOf(T))
         /\ \A r \in JoinedOf(T) : /\ r[1] \in T \ ZeroSpend /\ r[2] \in 1..Parts[r[1]]
                                   /\ r = <<r[1], r[2]>> /\ TimesOf(T)[r] = AttachedAt[r[1]]
                                   /\ TimesOf(T)[r] \in Nat
         /\ \A t \in T \ ZeroSpend : \A j \in 1..Parts[t] : <<t, j>> \in JoinedOf(T)
         /\ \A U \in SUBSET T : JoinedOf(U) \subseteq JoinedOf(T)
<1> DEFINE S == T \ ZeroSpend
           rowsOf == [t \in S |-> {t} \X (1..Parts[t])]
           R == {rowsOf[t] : t \in S}
<1>1. IsFiniteSet(S)
  BY FiniteTable
<1>2. ASSUME NEW t \in S PROVE IsFiniteSet(rowsOf[t])
  <2>1. 1 \in Int /\ Parts[t] \in Int
    BY PagingAssumption
  <2>2. IsFiniteSet(1..Parts[t]) /\ IsFiniteSet({t})
    BY <2>1, FS_Interval, FS_Singleton
  <2> QED
    BY <2>2, FS_Product
<1>3. rowsOf \in Surjection(S, R)
  BY DEF Surjection
<1>4. JoinedOf(T) = UNION R
  BY DEF JoinedOf
<1>5. IsFiniteSet(R) /\ \A x \in R : IsFiniteSet(x)
  <2>1. IsFiniteSet(R)
    <3> HIDE DEF R, rowsOf, S
    <3> QED
      BY <1>1, <1>3, FS_Surjection
  <2> QED
    BY <1>2, <2>1
<1>6. IsFiniteSet(JoinedOf(T))
  <2> HIDE DEF R
  <2> QED
    BY <1>4, <1>5, FS_UNION
<1>7. ASSUME NEW r \in JoinedOf(T)
      PROVE  /\ r[1] \in T \ ZeroSpend /\ r[2] \in 1..Parts[r[1]]
             /\ r = <<r[1], r[2]>> /\ TimesOf(T)[r] = AttachedAt[r[1]]
             /\ TimesOf(T)[r] \in Nat
  <2>1. PICK t \in T \ ZeroSpend : r \in {t} \X (1..Parts[t])
    BY DEF JoinedOf
  <2>2. r[1] \in T \ ZeroSpend /\ r[2] \in 1..Parts[r[1]] /\ r = <<r[1], r[2]>>
    BY <2>1
  <2>3. TimesOf(T)[r] = AttachedAt[r[1]] /\ AttachedAt[r[1]] \in Nat
    BY <2>2, PagingAssumption DEF TimesOf
  <2> QED
    BY <2>2, <2>3
<1>8. ASSUME NEW t \in T \ ZeroSpend, NEW j \in 1..Parts[t] PROVE <<t, j>> \in JoinedOf(T)
  BY DEF JoinedOf
<1>9. \A U \in SUBSET T : JoinedOf(U) \subseteq JoinedOf(T)
  BY DEF JoinedOf
<1> QED
  BY <1>6, <1>7, <1>8, <1>9

(* The same of the rows of a join. *)
LEMMA RowPlaces ==
  ASSUME NEW t, NEW T \in SUBSET Tx, NEW U \in SUBSET T
  PROVE  RowPlace(t, U) \in Nat /\ RowPlace(t, T) \in Nat /\ RowPlace(t, U) <= RowPlace(t, T)
<1>1. IsFiniteSet(JoinedOf(T)) /\ JoinedOf(U) \subseteq JoinedOf(T)
  BY JoinedRows
<1>2. NewerRows(t, T) \subseteq JoinedOf(T) /\ NewerRows(t, U) \subseteq NewerRows(t, T)
  BY <1>1 DEF NewerRows
<1>3. IsFiniteSet(NewerRows(t, T))
  BY <1>1, <1>2, FS_Subset
<1> QED
  BY <1>2, <1>3, FS_Subset, FS_CardinalityType DEF RowPlace

(* The transactions of some rows. *)
Of(rows) == {r[1] : r \in rows}

(* No more of them than rows. *)
LEMMA FewerTransactions ==
  ASSUME NEW rows, IsFiniteSet(rows)
  PROVE  Cardinality(Of(rows)) <= Cardinality(rows)
<1> DEFINE f == [r \in rows |-> r[1]]
<1>1. f \in Surjection(rows, Of(rows))
  BY DEF Surjection, Of
<1> HIDE DEF f
<1> QED
  BY <1>1, FS_Surjection

(* A page of the listing of a node, with a limit. *)
LEMMA NodeSlice ==
  ASSUME NEW T \in SUBSET Tx, NEW lim \in Nat, NEW off \in Nat,
         NEW s \in Slices(JoinedOf(T), TimesOf(T), lim, off)
  PROVE  /\ s \subseteq JoinedOf(T) /\ Of(s) \subseteq T \ ZeroSpend /\ Cardinality(Of(s)) <= lim
         /\ \A t \in Of(s) : RowPlace(t, T) < off + lim
         /\ \A t \in Of(s) : Untied(t) /\ (\A j \in 1..Parts[t] : <<t, j>> \in s) => off <= RowPlace(t, T)
         /\ \A t \in Of(s) : (\E j \in 1..Parts[t] : <<t, j>> \notin s) =>
              Newer(t, Of(s)) = {} \/ \A u \in Of(s) : AttachedAt[u] >= AttachedAt[t]
<1> DEFINE rows == JoinedOf(T)
           time == TimesOf(T)
<1>1. /\ IsFiniteSet(rows)
      /\ \A r \in rows : /\ r[1] \in T \ ZeroSpend /\ r[2] \in 1..Parts[r[1]]
                         /\ r = <<r[1], r[2]>> /\ time[r] = AttachedAt[r[1]] /\ time[r] \in Nat
      /\ \A t \in T \ ZeroSpend : \A j \in 1..Parts[t] : <<t, j>> \in rows
  BY JoinedRows
<1> HIDE DEF rows, time
<1>3. s \in Slices(rows, time, lim, off)
  BY DEF rows, time
<1>4. s \subseteq rows /\ IsFiniteSet(s) /\ Cardinality(s) \in Nat /\ Cardinality(s) <= lim
  BY <1>1, <1>3, SliceLength
<1>5. \E a \in Newest(rows, time, off), b \in Newest(rows, time, off + lim) : a \subseteq b /\ s = b \ a
  BY <1>3 DEF Slices
<1>6. PICK a \in Newest(rows, time, off), b \in Newest(rows, time, off + lim) : a \subseteq b /\ s = b \ a
  BY <1>5, Zenon
<1>7. /\ a \subseteq rows /\ b \subseteq rows
      /\ \A r \in a, q \in rows \ a : time[r] >= time[q]
      /\ \A r \in b, q \in rows \ b : time[r] >= time[q]
  <2>1. off + lim \in Nat
    OBVIOUS
  <2> QED
    BY <1>1, <2>1, NewestRows
<1>8. Of(s) \subseteq T \ ZeroSpend
  BY <1>1, <1>4 DEF Of
<1>9. Cardinality(Of(s)) <= lim
  <2>1. Of(s) \subseteq Tx
    BY <1>8
  <2>2. Cardinality(Of(s)) \in Nat
    BY <2>1, FiniteTable, FS_CardinalityType
  <2> QED
    BY <1>4, <2>2, FewerTransactions
<1>10. ASSUME NEW x \in rows
       PROVE  Before(rows, time, x) = NewerRows(x[1], T)
  BY <1>1 DEF Before, NewerRows, rows
<1>11. ASSUME NEW t \in Of(s) PROVE RowPlace(t, T) < off + lim
  <2>1. PICK x \in s : x[1] = t
    BY DEF Of
  <2>2. x \in b /\ x \in rows
    BY <1>4, <1>6, <2>1
  <2>3. off + lim \in Nat
    OBVIOUS
  <2>4. Cardinality(Before(rows, time, x)) < off + lim
    BY <1>1, <2>2, <2>3, AmongTheFirst
  <2> QED
    BY <1>10, <2>1, <2>2, <2>4 DEF RowPlace
<1>12. ASSUME NEW t \in Of(s), Untied(t), \A j \in 1..Parts[t] : <<t, j>> \in s
       PROVE  off <= RowPlace(t, T)
  <2>1. PICK x \in s : x[1] = t
    BY DEF Of
  <2>2. x \in rows \ a
    BY <1>4, <1>6, <2>1
  <2>3. ASSUME NEW q \in a PROVE time[q] # time[x]
    <3>1. q \in rows /\ q \notin s
      BY <1>6, <1>7
    <3>2. q[1] # t
      BY <1>1, <1>12, <3>1
    <3>3. q[1] \in Tx
      BY <1>1, <3>1
    <3>4. AttachedAt[q[1]] # AttachedAt[t]
      BY <1>12, <3>2, <3>3 DEF Untied
    <3> QED
      BY <1>1, <2>1, <2>2, <3>1, <3>4
  <2>4. off <= Cardinality(Before(rows, time, x))
    BY <1>1, <2>2, <2>3, NotAmongTheFirst
  <2> QED
    BY <1>10, <2>1, <2>2, <2>4 DEF RowPlace
<1>13. ASSUME NEW t \in Of(s), NEW j \in 1..Parts[t], <<t, j>> \notin s,
              NEW u \in Of(s), AttachedAt[u] > AttachedAt[t],
              NEW v \in Of(s), ~(AttachedAt[v] >= AttachedAt[t])
       PROVE  FALSE
  <2>1. PICK y \in s : y[1] = u
    BY DEF Of
  <2>2. PICK z \in s : z[1] = v
    BY DEF Of
  <2>3. t \in T \ ZeroSpend /\ u \in Tx /\ v \in Tx /\ t \in Tx
    BY <1>8
  <2> DEFINE x == <<t, j>>
  <2>4. x \in rows /\ x[1] = t
    BY <1>1, <2>3
  <2>5. /\ y \in rows \ a /\ z \in b
        /\ time[x] = AttachedAt[t] /\ time[y] = AttachedAt[u] /\ time[z] = AttachedAt[v]
    BY <1>1, <1>4, <1>6, <2>1, <2>2, <2>4
  <2>6. AttachedAt[t] \in Nat /\ AttachedAt[u] \in Nat /\ AttachedAt[v] \in Nat
    BY <2>3, PagingAssumption
  <2> HIDE DEF x
  <2>7. CASE x \in a
    <3>1. time[x] >= time[y]
      BY <1>7, <2>5, <2>7
    <3> QED
      BY <1>13, <2>5, <2>6, <3>1
  <2>8. CASE x \notin a
    <3>1. x \notin b
      BY <1>6, <1>13, <2>8 DEF x
    <3>2. time[z] >= time[x]
      BY <1>7, <2>4, <2>5, <3>1
    <3> QED
      BY <1>13, <2>5, <2>6, <3>2
  <2> QED
    BY <2>7, <2>8
<1>14. ASSUME NEW t \in Of(s), \E j \in 1..Parts[t] : <<t, j>> \notin s
       PROVE  Newer(t, Of(s)) = {} \/ \A u \in Of(s) : AttachedAt[u] >= AttachedAt[t]
  BY <1>13, <1>14 DEF Newer
<1> QED
  BY <1>4, <1>8, <1>9, <1>11, <1>12, <1>14 DEF rows

(* A page of the listing of a node. *)
LEMMA NodePage ==
  ASSUME NEW T \in SUBSET Tx, NEW lim \in Nat, NEW off \in Nat,
         NEW s \in Pages(JoinedOf(T), TimesOf(T), lim, off)
  PROVE  /\ s \subseteq JoinedOf(T) /\ Of(s) \subseteq T \ ZeroSpend
         /\ lim = 0 => Of(s) = T \ ZeroSpend
         /\ lim # 0 => Cardinality(Of(s)) <= lim
         /\ lim # 0 => \A t \in Of(s) : RowPlace(t, T) < off + lim
         /\ lim # 0 => \A t \in Of(s) :
              Untied(t) /\ (\A j \in 1..Parts[t] : <<t, j>> \in s) => off <= RowPlace(t, T)
         /\ \A t \in Of(s) : (\E j \in 1..Parts[t] : <<t, j>> \notin s) =>
              Newer(t, Of(s)) = {} \/ \A u \in Of(s) : AttachedAt[u] >= AttachedAt[t]
<1>1. /\ lim # 0 => s \in Slices(JoinedOf(T), TimesOf(T), lim, off)
      /\ lim = 0 => s = JoinedOf(T)
  BY PageIs
<1>2. CASE lim # 0
  BY <1>1, <1>2, NodeSlice
<1>3. CASE lim = 0
  <2>1. /\ \A r \in JoinedOf(T) : r[1] \in T \ ZeroSpend
        /\ \A t \in T \ ZeroSpend : \A j \in 1..Parts[t] : <<t, j>> \in JoinedOf(T)
    BY JoinedRows
  <2>2. ASSUME NEW t \in T \ ZeroSpend PROVE <<t, 1>> \in JoinedOf(T)
    <3>1. 1 \in 1..Parts[t]
      BY PagingAssumption
    <3> QED
      BY <2>1, <3>1
  <2>3. Of(s) = T \ ZeroSpend
    <3>1. s = JoinedOf(T)
      BY <1>1, <1>3
    <3>2. ASSUME NEW t \in T \ ZeroSpend PROVE t \in Of(s)
      <4>1. <<t, 1>>[1] = t
        OBVIOUS
      <4> QED
        BY <2>2, <3>1, <4>1 DEF Of
    <3>3. ASSUME NEW t \in Of(s) PROVE t \in T \ ZeroSpend
      BY <2>1, <3>1 DEF Of
    <3> QED
      BY <3>2, <3>3
  <2> QED
    BY <1>1, <1>3, <2>1, <2>3
<1> QED
  BY <1>2, <1>3

-----------------------------------------------------------------------------
(* The invariant.                                                          *)

(* Answered pages. *)
Answers == [offset : Nat, of : SUBSET Tx, rows : SUBSET Tx, joined : SUBSET (Tx \X Nat)]

(* The types, with the conditions under which the listings by ids and the  *)
(* listing of a node move.                                                 *)
Typed ==
  /\ TypeOK
  /\ answer \in Answers
  /\ limit = 0 => offset = 0
  /\ listing = "none" => offset = 0 /\ step = "idle" /\ seen = {} /\ answer = Unasked /\ page = {}
  /\ step = "ids" => ByIds /\ offset <= MaxOffset

(* Between the two queries of a request. *)
PageOK ==
  step = "ids" =>
    /\ page \subseteq ListedOf(listing, answer.of) /\ start \subseteq answer.of
    /\ listing = "all" /\ Cardinality(page) < limit =>
         Cardinality(answer.of \ ZeroSpend) <= offset + Cardinality(page)
    /\ limit = 0 => page = ListedOf(listing, answer.of)
    /\ limit # 0 => \A t \in page : Untied(t) =>
         offset <= Place(listing, t, answer.of) /\ Place(listing, t, answer.of) < offset + limit
    /\ limit # 0 => \A t \in start \ ZeroSpend :
         Untied(t) /\ Place(listing, t, table) < offset + limit => t \in seen \cup page

(* The client has asked for the place of whatever it got. *)
SeenOK ==
  limit # 0 => \A t \in seen : Untied(t) =>
    IF listing = "node" THEN RowPlace(t, start) < offset ELSE Place(listing, t, start) < offset

(* NothingSkipped itself is inductive on top of the other two. *)
IndInv ==
  /\ Typed /\ PageOK /\ SeenOK
  /\ NothingSkipped /\ ShortPageIsLast /\ CutOnlyAtTheEdges

(* NothingSkipped, in terms of places. *)
Skipless ==
  ByIds => \A t \in start \ ZeroSpend :
             Untied(t) /\ Place(listing, t, table) < offset => t \in seen

(* They say the same, before a step and after it. *)
LEMMA Skips == NothingSkipped <=> Skipless
BY DEF NothingSkipped, Skipless, Listed, ListedOf, Place

LEMMA SkipsThen == NothingSkipped' <=> Skipless'
BY DEF NothingSkipped, Skipless, Listed, ListedOf, Place

(* The types that the arithmetic needs. *)
LEMMA Numbers ==
  ASSUME Typed
  PROVE  /\ table \in SUBSET Tx /\ start \in SUBSET table /\ seen \in SUBSET table
         /\ start \in SUBSET Tx /\ answer.of \in SUBSET Tx /\ answer.of \in SUBSET table
         /\ offset \in Nat /\ limit \in Nat /\ MaxOffset \in Nat
BY PagingAssumption DEF Typed, TypeOK

(* The answer before the first page, and after an error. *)
LEMMA UnaskedIs ==
  /\ Unasked \in Answers /\ Unasked.of = {} /\ Unasked.rows = {} /\ Unasked.offset = 0
  /\ \A n \in Nat : Cardinality(Unasked.rows) <= n
BY FS_EmptySet DEF Unasked, Answers

(* The invariant holds at first, and each of the actions keeps it. *)
LEMMA InitInv == Init => IndInv
<1> SUFFICES ASSUME Init PROVE IndInv
  OBVIOUS
<1>1. /\ table = {} /\ listing = "none" /\ limit = 0 /\ offset = 0 /\ step = "idle" /\ page = {} /\ seen = {}
      /\ start = {} /\ answer = Unasked
  BY DEF Init
<1>2. 0 \in 0..(MaxOffset + limit)
  BY <1>1, PagingAssumption
<1>3. Typed
  BY <1>1, <1>2, UnaskedIs DEF Typed, TypeOK
<1>4. PageOK /\ SeenOK
  BY <1>1 DEF PageOK, SeenOK
<1>5. NothingSkipped /\ ShortPageIsLast /\ CutOnlyAtTheEdges
  BY <1>1, UnaskedIs DEF NothingSkipped, ShortPageIsLast, CutOnlyAtTheEdges
<1> QED
  BY <1>3, <1>4, <1>5 DEF IndInv

LEMMA InsertInv ==
  ASSUME IndInv, NEW x \in Tx, Insert(x)
  PROVE  IndInv'
<1>1. /\ table' = table \cup {x}
      /\ UNCHANGED <<listing, limit, offset, step, page, seen, start, answer>>
  BY DEF Insert
<1>2. Typed /\ Typed'
  BY <1>1 DEF IndInv, Typed, TypeOK, ByIds
<1>3. table \in SUBSET table' /\ table' \in SUBSET Tx
  BY <1>1, <1>2 DEF Typed, TypeOK
<1>4. \A t : /\ Place(listing, t, table) \in Nat /\ Place(listing, t, table') \in Nat
             /\ Place(listing, t, table) <= Place(listing, t, table')
  BY <1>3, Places
<1>5. offset \in Nat /\ limit \in Nat
  BY <1>2, Numbers
<1>6. PageOK'
  <2>1. ASSUME step = "ids", limit # 0, NEW t \in start \ ZeroSpend, Untied(t),
               Place(listing, t, table') < offset + limit
        PROVE  t \in seen \cup page
    <3>1. Place(listing, t, table) < offset + limit
      BY <1>4, <1>5, <2>1
    <3> QED
      BY <2>1, <3>1 DEF IndInv, PageOK
  <2> QED
    BY <1>1, <2>1 DEF IndInv, PageOK
<1>7. SeenOK' /\ ShortPageIsLast' /\ CutOnlyAtTheEdges'
  BY <1>1 DEF IndInv, SeenOK, ShortPageIsLast, CutOnlyAtTheEdges
<1>8. Skipless'
  <2>1. ASSUME ByIds, NEW t \in start \ ZeroSpend, Untied(t), Place(listing, t, table') < offset
        PROVE  t \in seen
    <3>1. Place(listing, t, table) < offset
      BY <1>4, <1>5, <2>1
    <3> QED
      BY <2>1, <3>1, Skips DEF IndInv, Skipless
  <2> QED
    BY <1>1, <2>1 DEF Skipless, ByIds
<1> QED
  BY <1>2, <1>6, <1>7, <1>8, SkipsThen DEF IndInv

LEMMA OpenInv ==
  ASSUME IndInv, NEW l \in Listing, NEW n \in Limits, Open(l, n)
  PROVE  IndInv'
<1>1. /\ listing = "none" /\ listing' = l /\ limit' = n /\ start' = table
      /\ UNCHANGED <<table, offset, step, page, seen, answer>>
  BY DEF Open
<1>2. Typed /\ offset = 0 /\ step = "idle" /\ seen = {} /\ answer = Unasked /\ page = {}
  BY <1>1 DEF IndInv, Typed
<1>3. l # "none"
  BY DEF Listing
<1>4. Typed'
  <2>1. n \in Nat /\ MaxOffset \in Nat /\ n \in Limits \cup {0}
    BY PagingAssumption
  <2>2. 0 \in 0..(MaxOffset + n) /\ Cardinality({}) <= n /\ Cardinality(Unasked.rows) <= n
    BY <2>1, FS_EmptySet, UnaskedIs
  <2>3. Unasked.rows = Unasked.of \ ZeroSpend
    BY UnaskedIs
  <2> QED
    BY <1>1, <1>2, <1>3, <2>1, <2>2, <2>3 DEF Typed, TypeOK, ByIds
<1>5. PageOK' /\ SeenOK'
  BY <1>1, <1>2 DEF PageOK, SeenOK
<1>6. ShortPageIsLast' /\ CutOnlyAtTheEdges'
  BY <1>1, <1>2, UnaskedIs DEF ShortPageIsLast, CutOnlyAtTheEdges
<1>7. Skipless'
  <2>1. \A t : Place(l, t, table) \in Nat
    BY <1>2, Numbers, Places
  <2> QED
    BY <1>1, <1>2, <2>1 DEF Skipless, ByIds
<1> QED
  BY <1>4, <1>5, <1>6, <1>7, SkipsThen DEF IndInv

LEMMA ReadIdsInv ==
  ASSUME IndInv, ReadIds
  PROVE  IndInv'
<1>1. /\ step = "idle" /\ offset <= MaxOffset /\ ByIds
      /\ page' \in Pages(ListedOf(listing, table), AttachedAt, limit, offset)
      /\ answer' = [answer EXCEPT !.of = table]
      /\ step' = "ids"
      /\ UNCHANGED <<table, listing, limit, offset, seen, start>>
  BY DEF ReadIds, ByIds, Listed, ListedOf
<1>2. Typed
  BY DEF IndInv
<1>3. /\ table \in SUBSET Tx /\ start \in SUBSET table /\ offset \in Nat /\ limit \in Nat
  BY <1>2, Numbers
<1>4. /\ page' \subseteq ListedOf(listing, table) /\ page' \subseteq table
      /\ limit = 0 => page' = ListedOf(listing, table)
      /\ limit # 0 => Cardinality(page') <= limit
      /\ Cardinality(page') < limit => Cardinality(ListedOf(listing, table)) <= offset + Cardinality(page')
      /\ limit # 0 => \A t \in ListedOf(listing, table) : Untied(t) =>
           (t \in page' <=> /\ offset <= Place(listing, t, table)
                            /\ Place(listing, t, table) < offset + limit)
  BY <1>1, <1>3, IdsPage
<1>5. answer' \in Answers /\ answer'.of = table /\ answer'.rows = answer.rows
  BY <1>1, <1>2, <1>3 DEF Typed, Answers
<1>6. Typed'
  BY <1>1, <1>2, <1>4, <1>5 DEF Typed, TypeOK, ByIds
<1>7. Skipless /\ SeenOK
  BY Skips DEF IndInv
<1>8. PageOK'
  <2>1. listing = "all" /\ Cardinality(page') < limit =>
           Cardinality(table \ ZeroSpend) <= offset + Cardinality(page')
    BY <1>4 DEF ListedOf
  <2>2. limit # 0 => \A t \in page' : Untied(t) =>
          offset <= Place(listing, t, table) /\ Place(listing, t, table) < offset + limit
    BY <1>4
  <2>3. ASSUME limit # 0, NEW t \in start \ ZeroSpend, Untied(t), Place(listing, t, table) < offset + limit
        PROVE  t \in seen \cup page'
    <3>1. Place(listing, t, table) \in Nat
      BY <1>3, Places
    <3>2. t \in ListedOf(listing, table)
      BY <1>3 DEF ListedOf
    <3>3. CASE Place(listing, t, table) < offset
      BY <1>1, <1>7, <2>3, <3>3 DEF Skipless
    <3>4. CASE ~(Place(listing, t, table) < offset)
      <4>1. offset <= Place(listing, t, table)
        BY <1>3, <3>1, <3>4
      <4> QED
        BY <1>4, <2>3, <3>2, <4>1
    <3> QED
      BY <3>3, <3>4
  <2> QED
    BY <1>1, <1>3, <1>4, <1>5, <2>1, <2>2, <2>3 DEF PageOK
<1>9. SeenOK' /\ Skipless'
  BY <1>1, <1>7 DEF SeenOK, Skipless, ByIds
<1>10. ShortPageIsLast' /\ CutOnlyAtTheEdges'
  BY <1>1 DEF ShortPageIsLast, CutOnlyAtTheEdges, ByIds
<1> QED
  BY <1>6, <1>8, <1>9, <1>10, SkipsThen DEF IndInv

LEMMA FailInv ==
  ASSUME IndInv, Fail
  PROVE  IndInv'
<1>1. /\ step = "ids" /\ step' = "idle" /\ page' = {} /\ answer' = Unasked
      /\ UNCHANGED <<table, listing, limit, offset, seen, start>>
  BY DEF Fail
<1>2. Typed /\ ByIds /\ Skipless /\ SeenOK
  BY <1>1, Skips DEF IndInv, Typed
<1>3. /\ limit # 0 => Cardinality({}) <= limit /\ Cardinality(Unasked.rows) <= limit
      /\ Unasked.rows = Unasked.of \ ZeroSpend
  BY <1>2, FS_EmptySet, Numbers, UnaskedIs
<1>4. Typed'
  BY <1>1, <1>2, <1>3, UnaskedIs DEF Typed, TypeOK, ByIds
<1>5. PageOK' /\ SeenOK' /\ Skipless'
  BY <1>1, <1>2 DEF PageOK, SeenOK, Skipless, ByIds
<1>6. ShortPageIsLast' /\ CutOnlyAtTheEdges'
  BY <1>1, <1>2, UnaskedIs DEF ShortPageIsLast, CutOnlyAtTheEdges, ByIds
<1> QED
  BY <1>4, <1>5, <1>6, SkipsThen DEF IndInv

LEMMA ReadTransactionsInv ==
  ASSUME IndInv, ReadTransactions
  PROVE  IndInv'
<1> DEFINE rows == page \ ZeroSpend
<1>1. /\ step = "ids"
      /\ answer' = [answer EXCEPT !.offset = offset, !.rows = rows, !.joined = {}]
      /\ seen' = seen \cup rows /\ offset' = offset + limit
      /\ step' = "idle" /\ page' = {}
      /\ UNCHANGED <<table, listing, limit, start>>
  BY DEF ReadTransactions, Answered
<1>2. Typed /\ PageOK /\ SeenOK
  BY DEF IndInv
<1>3. ByIds /\ offset <= MaxOffset /\ listing # "node" /\ listing # "none"
  BY <1>1, <1>2 DEF Typed, ByIds
<1>4. /\ table \in SUBSET Tx /\ start \in SUBSET table /\ offset \in Nat /\ limit \in Nat
      /\ MaxOffset \in Nat /\ answer.of \in SUBSET Tx /\ page \subseteq table
      /\ limit # 0 => Cardinality(page) <= limit
      /\ limit = 0 => offset = 0
      /\ answer \in Answers
  BY <1>2, Numbers DEF Typed, TypeOK
<1>5. /\ page \subseteq ListedOf(listing, answer.of) /\ start \in SUBSET answer.of
      /\ listing = "all" /\ Cardinality(page) < limit =>
           Cardinality(answer.of \ ZeroSpend) <= offset + Cardinality(page)
      /\ limit = 0 => page = ListedOf(listing, answer.of)
      /\ limit # 0 => \A t \in page : Untied(t) => Place(listing, t, answer.of) < offset + limit
      /\ limit # 0 => \A t \in start \ ZeroSpend :
           Untied(t) /\ Place(listing, t, table) < offset + limit => t \in seen \cup page
  BY <1>1, <1>2 DEF PageOK
<1>6. /\ rows \in SUBSET table /\ rows \in SUBSET Tx
      /\ limit # 0 => Cardinality(rows) <= limit /\ Cardinality({}) <= limit
      /\ limit = 0 => rows = answer.of \ ZeroSpend
  <2>1. IsFiniteSet(page) /\ rows \subseteq page
    BY <1>4, FiniteTable
  <2>2. Cardinality(rows) <= Cardinality(page) /\ Cardinality(rows) \in Nat /\ Cardinality(page) \in Nat
    BY <2>1, FS_Subset, FS_CardinalityType
  <2>3. limit = 0 => rows = answer.of \ ZeroSpend
    BY <1>5 DEF ListedOf
  <2>4. rows \in SUBSET table /\ rows \in SUBSET Tx
    BY <1>4, <2>1
  <2> HIDE DEF rows
  <2>5. limit # 0 => Cardinality(rows) <= limit
    BY <1>4, <2>2
  <2> QED
    BY <1>4, <2>3, <2>4, <2>5, FS_EmptySet
<1>7. /\ answer' \in Answers /\ answer'.offset = offset /\ answer'.rows = rows
      /\ answer'.of = answer.of
  <2> HIDE DEF rows
  <2>1. answer' = [answer EXCEPT !.offset = offset, !.rows = rows, !.joined = {}]
    BY <1>1
  <2> QED
    BY <1>4, <1>6, <2>1 DEF Answers
<1>8. Typed'
  <2>1. offset + limit \in 0..(MaxOffset + limit) /\ (limit = 0 => offset + limit = 0)
    BY <1>3, <1>4
  <2> HIDE DEF rows
  <2> QED
    BY <1>1, <1>2, <1>3, <1>6, <1>7, <2>1 DEF Typed, TypeOK, ByIds
<1>9. PageOK' /\ CutOnlyAtTheEdges'
  BY <1>1, <1>3 DEF PageOK, CutOnlyAtTheEdges
<1>10. SeenOK'
  <2>1. ASSUME limit # 0, NEW t \in seen \cup rows, Untied(t) PROVE Place(listing, t, start) < offset + limit
    <3>1. Place(listing, t, start) \in Nat
      BY <1>4, Places
    <3>2. CASE t \in seen
      <4>1. Place(listing, t, start) < offset
        BY <1>2, <1>3, <2>1, <3>2 DEF SeenOK
      <4> QED
        BY <1>4, <3>1, <4>1
    <3>3. CASE t \in page
      <4>1. Place(listing, t, answer.of) < offset + limit
        BY <1>5, <2>1, <3>3
      <4>2. Place(listing, t, answer.of) \in Nat /\ Place(listing, t, start) <= Place(listing, t, answer.of)
        BY <1>4, <1>5, Places
      <4> QED
        BY <1>4, <3>1, <4>1, <4>2
    <3> QED
      BY <3>2, <3>3
  <2> QED
    BY <1>1, <1>3, <2>1 DEF SeenOK
<1>11. Skipless'
  <2>1. CASE limit # 0
    BY <1>1, <1>5, <2>1 DEF Skipless, ByIds
  <2>2. CASE limit = 0
    <3>1. offset' = 0
      BY <1>1, <1>4, <2>2
    <3>2. \A t : Place(listing, t, table) \in Nat
      BY <1>4, Places
    <3> QED
      BY <1>1, <3>1, <3>2 DEF Skipless
  <2> QED
    BY <2>1, <2>2
<1>12. ShortPageIsLast'
  <2>1. listing = "all" => rows = page
    BY <1>5 DEF ListedOf
  <2> HIDE DEF rows
  <2> QED
    BY <1>1, <1>5, <1>7, <2>1 DEF ShortPageIsLast
<1> QED
  BY <1>8, <1>9, <1>10, <1>11, <1>12, SkipsThen DEF IndInv

(* The one query of a node's listing. *)
LEMMA JoinedPage ==
  ASSUME ReadJoined
  PROVE  \E rows \in Pages(JoinedOf(table), TimesOf(table), limit, offset) :
           /\ answer' = [offset |-> offset, of |-> table, rows |-> Of(rows), joined |-> rows]
           /\ seen' = seen \cup Of(rows)
<1>1. Joined = JoinedOf(table)
  BY DEF Joined, JoinedOf
<1>2. [r \in Joined |-> AttachedAt[r[1]]] = TimesOf(table)
  BY <1>1 DEF TimesOf
<1>3. \E rows \in Pages(Joined, [r \in Joined |-> AttachedAt[r[1]]], limit, offset) :
        /\ answer' = [offset |-> offset, of |-> table, rows |-> {r[1] : r \in rows}, joined |-> rows]
        /\ seen' = seen \cup {r[1] : r \in rows}
  BY DEF ReadJoined
<1> QED
  BY <1>1, <1>2, <1>3 DEF Of

LEMMA ReadJoinedInv ==
  ASSUME IndInv, ReadJoined
  PROVE  IndInv'
<1>1. /\ step = "idle" /\ offset <= MaxOffset /\ listing = "node"
      /\ offset' = offset + limit
      /\ UNCHANGED <<table, listing, limit, step, page, start>>
  BY DEF ReadJoined
<1>2. PICK rows \in Pages(JoinedOf(table), TimesOf(table), limit, offset) :
        /\ answer' = [offset |-> offset, of |-> table, rows |-> Of(rows), joined |-> rows]
        /\ seen' = seen \cup Of(rows)
  BY JoinedPage
<1> DEFINE shown == Of(rows)
<1>3. Typed /\ SeenOK
  BY DEF IndInv
<1>4. /\ table \in SUBSET Tx /\ start \in SUBSET table /\ offset \in Nat /\ limit \in Nat
      /\ MaxOffset \in Nat /\ (limit = 0 => offset = 0)
  BY <1>3, Numbers DEF Typed
<1>5. /\ rows \subseteq JoinedOf(table) /\ shown \subseteq table \ ZeroSpend
      /\ limit = 0 => shown = table \ ZeroSpend
      /\ limit # 0 => Cardinality(shown) <= limit
      /\ limit # 0 => \A t \in shown : RowPlace(t, table) < offset + limit
      /\ \A t \in shown : (\E j \in 1..Parts[t] : <<t, j>> \notin rows) =>
           Newer(t, shown) = {} \/ \A u \in shown : AttachedAt[u] >= AttachedAt[t]
  BY <1>4, NodePage
<1>6. rows \in SUBSET (Tx \X Nat)
  <2>1. ASSUME NEW r \in JoinedOf(table) PROVE r \in Tx \X Nat
    <3>1. r[1] \in table /\ r[2] \in 1..Parts[r[1]] /\ r = <<r[1], r[2]>>
      BY <1>4, JoinedRows
    <3>2. r[1] \in Tx /\ r[2] \in Nat
      BY <1>4, <3>1, PagingAssumption
    <3> QED
      BY <3>1, <3>2
  <2> QED
    BY <1>5, <2>1
<1> HIDE DEF shown
<1>7. /\ answer' \in Answers /\ answer'.of = table /\ answer'.rows = shown /\ answer'.joined = rows
      /\ seen' = seen \cup shown
  BY <1>2, <1>4, <1>5, <1>6 DEF Answers, shown
<1>8. Typed'
  <2>1. offset + limit \in 0..(MaxOffset + limit) /\ (limit = 0 => offset + limit = 0)
    BY <1>1, <1>4
  <2> QED
    BY <1>1, <1>3, <1>5, <1>7, <2>1 DEF Typed, TypeOK, ByIds
<1>9. PageOK' /\ Skipless' /\ ShortPageIsLast'
  BY <1>1 DEF PageOK, Skipless, ByIds, ShortPageIsLast
<1>10. CutOnlyAtTheEdges'
  BY <1>1, <1>5, <1>7 DEF CutOnlyAtTheEdges
<1>11. SeenOK'
  <2>1. ASSUME limit # 0, NEW t \in seen \cup shown, Untied(t) PROVE RowPlace(t, start) < offset + limit
    <3>1. /\ RowPlace(t, start) \in Nat /\ RowPlace(t, table) \in Nat
          /\ RowPlace(t, start) <= RowPlace(t, table)
      BY <1>4, RowPlaces
    <3>2. CASE t \in seen
      <4>1. RowPlace(t, start) < offset
        BY <1>1, <1>3, <2>1, <3>2 DEF SeenOK
      <4> QED
        BY <1>4, <3>1, <4>1
    <3>3. CASE t \in shown
      <4>1. RowPlace(t, table) < offset + limit
        BY <1>5, <2>1, <3>3
      <4> QED
        BY <1>4, <3>1, <4>1
    <3> QED
      BY <2>1, <3>2, <3>3
  <2> QED
    BY <1>1, <1>7, <2>1 DEF SeenOK
<1> QED
  BY <1>8, <1>9, <1>10, <1>11, SkipsThen DEF IndInv

-----------------------------------------------------------------------------
(* Theorems.                                                               *)

(* The invariant is one: of the indexer, and of all the queries of         *)
(* getTransactions, the listings by address and by currency, and of a      *)
(* node.                                                                   *)
THEOREM Invariance == Spec => []IndInv
<1>1. IndInv /\ UNCHANGED vars => IndInv'
  <2> SUFFICES ASSUME IndInv, UNCHANGED vars PROVE IndInv'
    OBVIOUS
  <2>1. UNCHANGED <<table, listing, limit, offset, step, page, seen, start, answer>>
    BY DEF vars
  <2>2. Typed' /\ PageOK' /\ SeenOK' /\ Skipless' /\ ShortPageIsLast' /\ CutOnlyAtTheEdges'
    BY <2>1, Skips DEF IndInv, Typed, TypeOK, ByIds, PageOK, SeenOK, Skipless, ShortPageIsLast, CutOnlyAtTheEdges
  <2> QED
    BY <2>2, SkipsThen DEF IndInv
<1>2. IndInv /\ [Next]_vars => IndInv'
  BY <1>1, InsertInv, OpenInv, ReadIdsInv, ReadTransactionsInv, ReadJoinedInv, FailInv DEF Next
<1> QED
  BY InitInv, <1>2, PTL DEF Spec

(* The variables keep their types, and no page is longer than the limit:   *)
(* LIMIT counts transactions in the queries that read ids, and rows of the *)
(* join, of which a transaction has at least one, in that of a node.  With *)
(* the limit 0, which the listings of an address, a currency and a node    *)
(* allow, there is no LIMIT, and the page is the whole listing.            *)
THEOREM TypeCorrect == Spec => []TypeOK
<1>1. IndInv => TypeOK
  BY DEF IndInv, Typed
<1> QED
  BY <1>1, Invariance, PTL

(* Whoever reads on while the indexer inserts gets every transaction that  *)
(* was there when it began, up to where it has read, unless another one has *)
(* the same attachmentTime: inserts push a row to later pages, never to    *)
(* earlier ones (getTransactions and the listings by address and currency). *)
THEOREM NobodySkipped == Spec => []NothingSkipped
<1>1. IndInv => NothingSkipped
  BY DEF IndInv
<1> QED
  BY <1>1, Invariance, PTL

(* In the listing of all transactions a page shorter than the limit is the *)
(* last one: getTransactions leaves ZeroSpend out before it limits.        *)
THEOREM ShortIsLast == Spec => []ShortPageIsLast
<1>1. IndInv => ShortPageIsLast
  BY DEF IndInv
<1> QED
  BY <1>1, Invariance, PTL

(* A page of the listing of a node holds its transactions whole, but for   *)
(* the first and the last one, which the limit on the joined rows may cut. *)
THEOREM CutAtTheEdges == Spec => []CutOnlyAtTheEdges
<1>1. IndInv => CutOnlyAtTheEdges
  BY DEF IndInv
<1> QED
  BY <1>1, Invariance, PTL

(* RepeatsOnlyAfterInsert of a step. *)
NoRepeat ==
  \A t \in answer'.rows \cap seen :
    offset' # offset /\ Untied(t)
      => \/ answer'.of # start
         \/ listing = "node" /\ \E j \in 1..Parts[t] : <<t, j>> \notin answer'.joined

(* A page gives again only what an insert pushed into it, or what the      *)
(* limit had cut.                                                          *)
LEMMA NoRepeatStep == IndInv /\ [Next]_vars => NoRepeat
<1> SUFFICES ASSUME IndInv, [Next]_vars, NEW t \in answer'.rows \cap seen, offset' # offset, Untied(t),
                    answer'.of = start
             PROVE  listing = "node" /\ \E j \in 1..Parts[t] : <<t, j>> \notin answer'.joined
  BY DEF NoRepeat
<1>1. Typed /\ PageOK /\ SeenOK
  BY DEF IndInv
<1>2. /\ table \in SUBSET Tx /\ start \in SUBSET table /\ start \in SUBSET Tx /\ offset \in Nat
      /\ answer.of \in SUBSET Tx /\ limit \in Nat
  BY <1>1, Numbers
<1>3. CASE ReadTransactions
  <2>1. /\ step = "ids" /\ answer'.rows = page \ ZeroSpend /\ answer'.of = answer.of
    BY <1>1, <1>3 DEF ReadTransactions, Answered, Typed, Answers
  <2>2. listing # "node"
    BY <1>1, <2>1 DEF Typed, ByIds
  <2>0. limit # 0
    BY <1>2, <1>3 DEF ReadTransactions, Answered
  <2>3. Place(listing, t, start) < offset
    BY <1>1, <2>0, <2>2 DEF SeenOK
  <2>4. offset <= Place(listing, t, answer.of)
    BY <1>1, <2>0, <2>1 DEF PageOK
  <2>5. Place(listing, t, start) \in Nat
    BY <1>2, Places
  <2> QED
    BY <1>2, <2>1, <2>3, <2>4, <2>5
<1>4. CASE ReadJoined
  <2>0. limit # 0
    BY <1>2, <1>4 DEF ReadJoined
  <2>1. listing = "node"
    BY <1>4 DEF ReadJoined
  <2>2. PICK rows \in Pages(JoinedOf(table), TimesOf(table), limit, offset) :
          /\ answer' = [offset |-> offset, of |-> table, rows |-> Of(rows), joined |-> rows]
          /\ seen' = seen \cup Of(rows)
    BY <1>4, JoinedPage
  <2>3. answer'.of = table /\ answer'.rows = Of(rows) /\ answer'.joined = rows
    BY <2>2
  <2>4. RowPlace(t, start) < offset /\ RowPlace(t, start) \in Nat
    BY <1>1, <1>2, <2>0, <2>1, RowPlaces DEF SeenOK
  <2>5. (\A j \in 1..Parts[t] : <<t, j>> \in rows) => offset <= RowPlace(t, table)
    BY <1>2, <2>0, <2>3, NodePage
  <2> QED
    BY <1>2, <2>1, <2>3, <2>4, <2>5
<1>5. CASE UNCHANGED vars
  BY <1>5 DEF vars
<1>6. CASE \/ \E x \in Tx : Insert(x)
           \/ \E l \in Listing, n \in Limits : Open(l, n)
           \/ ReadIds \/ Fail
  BY <1>6 DEF Insert, Open, ReadIds, Fail
<1> QED
  BY <1>3, <1>4, <1>5, <1>6 DEF Next

(* A transaction comes a second time only when one was inserted since the  *)
(* client began, or when the limit cut its rows between two pages of a     *)
(* node.                                                                   *)
THEOREM RepeatsNeedAnInsert == Spec => RepeatsOnlyAfterInsert
<1>1. IndInv /\ [Next]_vars => [NoRepeat]_vars
  BY NoRepeatStep
<1>2. Spec => [][NoRepeat]_vars
  BY <1>1, Invariance, PTL DEF Spec
<1> QED
  BY <1>2 DEF RepeatsOnlyAfterInsert, NoRepeat
=============================================================================
