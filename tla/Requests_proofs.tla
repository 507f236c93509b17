-------------------------- MODULE Requests_proofs ---------------------------
(***************************************************************************)
(* Proofs about Requests, for any number of requests and connections: an   *)
(* answered request holds nothing, no chain is forgotten in a queue, an    *)
(* error leaves the tables unwritten, and every error reply blames whom    *)
(* BlameIsTold says.  They follow from the inductive invariant IndInv: a   *)
(* pool serves just the chains that need it, a chain has failed with what  *)
(* its await can fail with, only a read-back comes after a write, and a    *)
(* reply fits its cause.                                                   *)
(***************************************************************************)
EXTENDS Requests, TLAPS, FiniteSetTheorems, FunctionTheorems, WellFoundedInduction

-----------------------------------------------------------------------------
(***************************************************************************)
(* What the proofs need to know of the operators: the chains a pool serves *)
(* when one of them asks, gives back or an await begins, the shape that    *)
(* every service of the API has, and the reply that each failure ends in.  *)
(***************************************************************************)

(* The place of a number in a set of numbers.                              *)

(* A place is a number up to the size of the set, and grows with the       *)
(* number.                                                                 *)
LEMMA PlaceGrows ==
  ASSUME NEW S, IsFiniteSet(S), S \subseteq Nat, NEW c \in S
  PROVE  /\ Place(c, S) \in 1..Cardinality(S)
         /\ \A d \in S : c < d => Place(c, S) < Place(d, S)
<1> DEFINE upTo(d) == {e \in S : e <= d}
<1>1. \A d \in S : IsFiniteSet(upTo(d)) /\ Cardinality(upTo(d)) \in Nat
                   /\ Cardinality(upTo(d)) <= Cardinality(S)
  BY FS_Subset, FS_CardinalityType
<1>2. Cardinality(S) \in Nat
  BY FS_CardinalityType
<1>3. Cardinality(upTo(c)) # 0
  <2>1. c \in upTo(c)
    OBVIOUS
  <2> QED
    BY <1>1, <2>1, FS_EmptySet
<1>4. ASSUME NEW d \in S, c < d PROVE Cardinality(upTo(c)) < Cardinality(upTo(d))
  <2>1. upTo(c) \subseteq upTo(d) /\ d \in upTo(d) /\ d \notin upTo(c)
    <3>1. \A e \in S : e \in Int
      OBVIOUS
    <3>2. d \notin upTo(c)
      BY <1>4, <3>1
    <3>3. d \in upTo(d)
      BY <3>1
    <3>4. \A e \in S : e <= c => e <= d
      BY <1>4, <3>1
    <3> QED
      BY <3>2, <3>3, <3>4
  <2> HIDE DEF upTo
  <2>2. Cardinality(upTo(c)) <= Cardinality(upTo(d)) /\ Cardinality(upTo(c)) # Cardinality(upTo(d))
    BY <1>1, <2>1, FS_Subset
  <2> QED
    BY <1>1, <2>2
<1> QED
  BY <1>1, <1>2, <1>3, <1>4 DEF Place

(* Each has a place of its own, and each place is somebody's. *)
LEMMA Places ==
  ASSUME NEW S, IsFiniteSet(S), S \subseteq Nat
  PROVE  /\ \A c \in S : Place(c, S) \in 1..Cardinality(S)
         /\ \A c, d \in S : Place(c, S) = Place(d, S) => c = d
         /\ \A i \in 1..Cardinality(S) : \E c \in S : Place(c, S) = i
<1> DEFINE f == [c \in S |-> Place(c, S)]
<1>0. Cardinality(S) \in Nat
  BY FS_CardinalityType
<1>1. \A c \in S : Place(c, S) \in 1..Cardinality(S)
  BY PlaceGrows
<1>2. \A c, d \in S : Place(c, S) = Place(d, S) => c = d
  <2> SUFFICES ASSUME NEW c \in S, NEW d \in S, c # d PROVE Place(c, S) # Place(d, S)
    OBVIOUS
  <2>1. c < d \/ d < c
    OBVIOUS
  <2>2. Place(c, S) < Place(d, S) \/ Place(d, S) < Place(c, S)
    BY <2>1, PlaceGrows
  <2> QED
    BY <1>0, <1>1, <2>2
<1>3. f \in Injection(S, 1..Cardinality(S))
  BY <1>1, <1>2 DEF Injection, IsInjective
<1>4. IsFiniteSet(1..Cardinality(S)) /\ Cardinality(1..Cardinality(S)) = Cardinality(S)
  BY <1>0, FS_Interval
<1>5. f \in Surjection(S, 1..Cardinality(S))
  <2> HIDE DEF f
  <2> QED
    BY <1>3, <1>4, FS_Injection
<1>6. \A i \in 1..Cardinality(S) : \E c \in S : Place(c, S) = i
  BY <1>5 DEF Surjection
<1> QED
  BY <1>1, <1>2, <1>6

(* The first n of them are n, if there are as many. *)
LEMMA FirstPlaces ==
  ASSUME NEW S, IsFiniteSet(S), S \subseteq Nat, NEW n \in Nat, n <= Cardinality(S),
         NEW T \in SUBSET S, \A c \in S : c \in T <=> Place(c, S) <= n
  PROVE  Cardinality(T) = n
<1> DEFINE f == [c \in T |-> Place(c, S)]
<1>0. Cardinality(S) \in Nat
  BY FS_CardinalityType
<1>1. IsFiniteSet(T)
  BY FS_Subset
<1>2. \A c \in T : Place(c, S) \in 1..n
  <2>1. \A c \in S : Place(c, S) \in 1..Cardinality(S)
    BY Places
  <2> QED
    BY <1>0, <2>1
<1>3. \A i \in 1..n : \E c \in T : Place(c, S) = i
  <2> SUFFICES ASSUME NEW i \in 1..n PROVE \E c \in T : Place(c, S) = i
    OBVIOUS
  <2>1. i \in 1..Cardinality(S)
    BY <1>0
  <2>2. PICK c \in S : Place(c, S) = i
    BY <2>1, Places
  <2> QED
    BY <2>2
<1>4. \A c, d \in T : Place(c, S) = Place(d, S) => c = d
  BY Places
<1>5. f \in Bijection(T, 1..n)
  BY <1>2, <1>3, <1>4 DEF Bijection, Injection, IsInjective, Surjection
<1>6. Cardinality(1..n) = Cardinality(T)
  BY <1>1, <1>5, FS_Bijection DEF ExistsBijection
<1>7. Cardinality(1..n) = n
  BY FS_Interval
<1> QED
  BY <1>1, <1>6, <1>7

-----------------------------------------------------------------------------
(* One pool.                                                               *)

Chains == Request \X Nat
PoolType == [busy : SUBSET Chains, queue : Seq(Chains)]

(* The chains in `users` are those that the pool serves: each holds one    *)
(* connection or stands in the queue once, and nobody waits while a        *)
(* connection is free.                                                     *)
Serves(pool, users) ==
  /\ pool \in PoolType
  /\ IsFiniteSet(pool.busy) /\ Cardinality(pool.busy) <= Limit
  /\ pool.busy \cup Range(pool.queue) = users
  /\ pool.busy \cap Range(pool.queue) = {}
  /\ \A i, j \in 1..Len(pool.queue) : pool.queue[i] = pool.queue[j] => i = j
  /\ pool.queue # <<>> => Cardinality(pool.busy) = Limit

(* A chain that asks for a connection is served from then on. *)
LEMMA Acquires ==
  ASSUME NEW ps \in [Pool -> PoolType], NEW p \in Pool, NEW x \in Chains, NEW users,
         Serves(ps[p], users), x \notin users
  PROVE  /\ Acquired(ps, p, x) \in [Pool -> PoolType]
         /\ Serves(Acquired(ps, p, x)[p], users \cup {x})
         /\ \A q \in Pool \ {p} : Acquired(ps, p, x)[q] = ps[q]
<1> DEFINE busy == ps[p].busy
           queue == ps[p].queue
<1>1. /\ ps[p] \in PoolType /\ busy \in SUBSET Chains /\ queue \in Seq(Chains)
      /\ IsFiniteSet(busy) /\ Cardinality(busy) <= Limit
      /\ busy \cup Range(queue) = users /\ busy \cap Range(queue) = {}
      /\ \A i, j \in 1..Len(queue) : queue[i] = queue[j] => i = j
      /\ queue # <<>> => Cardinality(busy) = Limit
  BY DEF Serves, PoolType
<1>2. Cardinality(busy) \in Nat /\ Limit \in Nat
  BY <1>1, FS_CardinalityType, RequestsAssumption
<1>3. CASE Cardinality(busy) < Limit
  <2> DEFINE new == [ps[p] EXCEPT !.busy = busy \cup {x}]
  <2>1. Acquired(ps, p, x) = [ps EXCEPT ![p] = new]
    BY <1>3 DEF Acquired
  <2>2. new \in PoolType /\ new.busy = busy \cup {x} /\ new.queue = queue
    BY <1>1 DEF PoolType
  <2>3. queue = <<>>
    BY <1>1, <1>2, <1>3
  <2>4. Range(queue) = {}
    BY <2>3 DEF Range
  <2>5. /\ IsFiniteSet(busy \cup {x}) /\ Cardinality(busy \cup {x}) = Cardinality(busy) + 1
    BY <1>1, FS_AddElement
  <2> HIDE DEF new, busy, queue
  <2>6. Serves(new, users \cup {x})
    BY <1>1, <1>2, <1>3, <2>2, <2>3, <2>4, <2>5 DEF Serves
  <2> QED
    BY <2>1, <2>2, <2>6
<1>4. CASE ~(Cardinality(busy) < Limit)
  <2> DEFINE new == [ps[p] EXCEPT !.queue = Append(queue, x)]
  <2>1. Acquired(ps, p, x) = [ps EXCEPT ![p] = new]
    BY <1>4 DEF Acquired
  <2>2. new \in PoolType /\ new.busy = busy /\ new.queue = Append(queue, x)
    <3>1. Append(queue, x) \in Seq(Chains)
      BY <1>1
    <3>2. \A l \in Seq(Chains) : LET e == [ps[p] EXCEPT !.queue = l] IN
            e \in PoolType /\ e.busy = busy /\ e.queue = l
      BY <1>1 DEF PoolType
    <3> QED
      BY <3>1, <3>2
  <2> HIDE DEF new, busy, queue
  <2>3. /\ Len(Append(queue, x)) = Len(queue) + 1 /\ Len(queue) \in Nat
        /\ DOMAIN queue = 1..Len(queue)
        /\ DOMAIN Append(queue, x) = 1..Len(queue) + 1
        /\ \A i \in 1..Len(queue) : Append(queue, x)[i] = queue[i]
        /\ Append(queue, x)[Len(queue) + 1] = x
    BY <1>1
  <2>4. Range(Append(queue, x)) = Range(queue) \cup {x}
    BY <2>3 DEF Range
  <2>5. \A i \in 1..Len(queue) : queue[i] # x
    BY <1>1, <2>3 DEF Range
  <2>6. \A i, j \in 1..Len(Append(queue, x)) : Append(queue, x)[i] = Append(queue, x)[j] => i = j
    <3> SUFFICES ASSUME NEW i \in 1..Len(queue) + 1, NEW j \in 1..Len(queue) + 1, i # j
                 PROVE  Append(queue, x)[i] # Append(queue, x)[j]
      BY <2>3
    <3>1. CASE i \in 1..Len(queue) /\ j \in 1..Len(queue)
      BY <1>1, <2>3, <3>1
    <3>2. CASE i = Len(queue) + 1 /\ j \in 1..Len(queue)
      BY <2>3, <2>5, <3>2
    <3>3. CASE j = Len(queue) + 1 /\ i \in 1..Len(queue)
      BY <2>3, <2>5, <3>3
    <3> QED
      BY <2>3, <3>1, <3>2, <3>3
  <2>7. Cardinality(busy) = Limit
    BY <1>1, <1>2, <1>4
  <2>8. Serves(new, users \cup {x})
    BY <1>1, <2>2, <2>4, <2>6, <2>7 DEF Serves
  <2> QED
    BY <2>1, <2>2, <2>8
<1> QED
  BY <1>3, <1>4

(* A chain that gives its connection back is served no more; the first in  *)
(* the queue has its connection.                                           *)
LEMMA Releases ==
  ASSUME NEW ps \in [Pool -> PoolType], NEW p \in Pool, NEW x, NEW users,
         Serves(ps[p], users), x \in ps[p].busy
  PROVE  /\ Released(ps, p, x) \in [Pool -> PoolType]
         /\ Serves(Released(ps, p, x)[p], users \ {x})
         /\ \A q \in Pool \ {p} : Released(ps, p, x)[q] = ps[q]
<1> DEFINE busy == ps[p].busy
           queue == ps[p].queue
           new == [busy  |-> (busy \ {x}) \cup (IF queue = <<>> THEN {} ELSE {Head(queue)}),
                   queue |-> IF queue = <<>> THEN <<>> ELSE Tail(queue)]
<1>1. /\ ps[p] \in PoolType /\ busy \in SUBSET Chains /\ queue \in Seq(Chains)
      /\ IsFiniteSet(busy) /\ Cardinality(busy) <= Limit
      /\ busy \cup Range(queue) = users /\ busy \cap Range(queue) = {}
      /\ \A i, j \in 1..Len(queue) : queue[i] = queue[j] => i = j
      /\ queue # <<>> => Cardinality(busy) = Limit
      /\ x \in busy
  BY DEF Serves, PoolType
<1>2. Released(ps, p, x) = [ps EXCEPT ![p] = new]
  BY DEF Released
<1>3. Cardinality(busy) \in Nat /\ Limit \in Nat
  BY <1>1, FS_CardinalityType, RequestsAssumption
<1>4. IsFiniteSet(busy \ {x}) /\ Cardinality(busy \ {x}) = Cardinality(busy) - 1
  BY <1>1, FS_RemoveElement
<1>5. CASE queue = <<>>
  <2>1. new.busy = busy \ {x} /\ new.queue = <<>>
    BY <1>5
  <2>2. new \in PoolType
    BY <1>1, <1>5 DEF PoolType
  <2> HIDE DEF new, busy, queue
  <2>3. Range(queue) = {} /\ Range(new.queue) = {} /\ Len(new.queue) = 0
    BY <1>5, <2>1 DEF Range
  <2>4. Serves(new, users \ {x})
    BY <1>1, <1>3, <1>4, <2>1, <2>2, <2>3 DEF Serves
  <2> QED
    BY <1>2, <2>2, <2>4
<1>6. CASE queue # <<>>
  <2>1. new.busy = (busy \ {x}) \cup {Head(queue)} /\ new.queue = Tail(queue)
    BY <1>6
  <2>2. new \in PoolType
    BY <1>1, <1>6 DEF PoolType
  <2> HIDE DEF new, busy, queue
  <2>3. /\ Len(queue) \in Nat \ {0} /\ DOMAIN queue = 1..Len(queue)
        /\ Len(Tail(queue)) = Len(queue) - 1
        /\ DOMAIN Tail(queue) = 1..Len(queue) - 1
        /\ Head(queue) = queue[1]
        /\ \A i \in 1..Len(queue) - 1 : Tail(queue)[i] = queue[i + 1]
    BY <1>1, <1>6
  <2>4. /\ Head(queue) \in Range(queue)
        /\ Range(Tail(queue)) = Range(queue) \ {Head(queue)}
    <3>1. Range(queue) = {queue[i] : i \in 1..Len(queue)}
      BY <2>3 DEF Range
    <3>2. Range(Tail(queue)) = {queue[i + 1] : i \in 1..Len(queue) - 1}
      BY <2>3 DEF Range
    <3>3. ASSUME NEW y \in Range(queue), y # Head(queue) PROVE y \in Range(Tail(queue))
      <4>1. PICK i \in 1..Len(queue) : y = queue[i]
        BY <3>1
      <4>2. i - 1 \in 1..Len(queue) - 1 /\ (i - 1) + 1 = i
        BY <2>3, <3>3, <4>1
      <4> QED
        BY <3>2, <4>1, <4>2
    <3>4. ASSUME NEW y \in Range(Tail(queue)) PROVE y \in Range(queue) /\ y # Head(queue)
      <4>1. PICK i \in 1..Len(queue) - 1 : y = queue[i + 1]
        BY <3>2
      <4>2. i + 1 \in 1..Len(queue) /\ i + 1 # 1 /\ 1 \in 1..Len(queue)
        BY <2>3
      <4> QED
        BY <1>1, <2>3, <3>1, <4>1, <4>2
    <3>5. Head(queue) \in Range(queue)
      BY <2>3, <3>1
    <3> QED
      BY <3>3, <3>4, <3>5
  <2>5. \A i, j \in 1..Len(Tail(queue)) : Tail(queue)[i] = Tail(queue)[j] => i = j
    <3> SUFFICES ASSUME NEW i \in 1..Len(queue) - 1, NEW j \in 1..Len(queue) - 1,
                        queue[i + 1] = queue[j + 1]
                 PROVE  i = j
      BY <2>3
    <3>1. i + 1 \in 1..Len(queue) /\ j + 1 \in 1..Len(queue)
      BY <2>3
    <3>2. i + 1 = j + 1
      BY <1>1, <3>1
    <3> QED
      BY <3>2
  <2>6. Head(queue) \notin busy
    BY <1>1, <2>4
  <2>7. /\ IsFiniteSet(new.busy) /\ Cardinality(new.busy) = Limit
    <3>1. Head(queue) \notin busy \ {x} /\ Cardinality(busy \ {x}) = Limit - 1
      BY <1>1, <1>4, <1>6, <2>6
    <3>2. /\ IsFiniteSet((busy \ {x}) \cup {Head(queue)})
          /\ Cardinality((busy \ {x}) \cup {Head(queue)}) = Cardinality(busy \ {x}) + 1
      BY <1>4, <3>1, FS_AddElement
    <3> QED
      BY <1>3, <2>1, <3>1, <3>2
  <2>8. new.busy \cup Range(new.queue) = users \ {x} /\ new.busy \cap Range(new.queue) = {}
    BY <1>1, <2>1, <2>4, <2>6
  <2>9. Serves(new, users \ {x})
    BY <1>3, <2>1, <2>2, <2>5, <2>7, <2>8 DEF Serves
  <2> QED
    BY <1>2, <2>2, <2>9
<1> QED
  BY <1>5, <1>6

(* Of the chains in S, those beyond `free` wait, one after the other. *)
WaitInTurn(S, free, waiting, turn) ==
  /\ Cardinality(waiting) \in Nat
  /\ IsFiniteSet(S \ waiting) /\ Cardinality(S \ waiting) <= free
  /\ waiting # {} => Cardinality(S \ waiting) = free
  /\ \A i \in 1..Cardinality(waiting) : turn[i] \in waiting /\ Place(turn[i], S) = free + i
  /\ \A c \in waiting : \E i \in 1..Cardinality(waiting) : turn[i] = c

(* Those that wait stand in the queue once each, in their order. *)
LEMMA LastWait ==
  ASSUME NEW S, IsFiniteSet(S), S \subseteq Nat, NEW free \in Nat,
         NEW waiting \in SUBSET S, \A c \in S : c \in waiting <=> Place(c, S) > free,
         NEW turn, \A i \in 1..Cardinality(waiting) :
           \A c \in S : Place(c, S) = free + i => turn[i] \in S /\ Place(turn[i], S) = free + i
  PROVE  WaitInTurn(S, free, waiting, turn)
<1> DEFINE n == Cardinality(S)
           m == Cardinality(waiting)
<1>1. n \in Nat /\ \A c \in S : Place(c, S) \in 1..n
  BY FS_CardinalityType, Places
<1>2. IsFiniteSet(waiting) /\ m \in Nat /\ IsFiniteSet(S \ waiting) /\ waiting \subseteq S
  BY FS_Subset, FS_CardinalityType
<1>3. Cardinality(S \ waiting) = n - m /\ n - m \in Nat
  <2>1. Cardinality(S \ waiting) = n - Cardinality(S \cap waiting)
    BY FS_Difference
  <2>2. S \cap waiting = waiting
    BY <1>2
  <2> QED
    BY <1>2, <2>1, <2>2, FS_CardinalityType
<1>a. \A c \in S : Place(c, S) \in Int /\ (c \in waiting <=> Place(c, S) > free)
  BY <1>1
<1>4. \A c \in S : c \in S \ waiting <=> Place(c, S) <= free
  BY <1>a
<1>5. CASE n <= free
  <2>1. waiting = {}
    <3>1. \A c \in S : ~(Place(c, S) > free)
      BY <1>1, <1>5
    <3> QED
      BY <1>2, <1>a, <3>1
  <2>2. m = 0
    BY <2>1, FS_EmptySet
  <2> QED
    BY <1>1, <1>2, <1>3, <1>5, <2>1, <2>2 DEF WaitInTurn
<1>6. CASE free < n
  <2>1. n - m = free
    <3>1. S \ waiting \in SUBSET S /\ free <= Cardinality(S)
      BY <1>1, <1>6
    <3>2. \A c \in S : (c \in (S \ waiting)) <=> Place(c, S) <= free
      BY <1>4
    <3> HIDE DEF m, n
    <3>3. Cardinality(S \ waiting) = free
      BY <3>1, <3>2, FirstPlaces
    <3> QED
      BY <1>3, <3>3
  <2>2. ASSUME NEW i \in 1..m PROVE turn[i] \in waiting /\ Place(turn[i], S) = free + i
    <3>1. free + i \in 1..n
      BY <1>1, <1>2, <2>1
    <3>2. \E c \in S : Place(c, S) = free + i
      BY <3>1, Places
    <3>3. turn[i] \in S /\ Place(turn[i], S) = free + i
      BY <3>2
    <3> QED
      <4>1. free + i > free
        BY <1>2
      <4> QED
        BY <1>a, <3>3, <4>1
  <2>3. ASSUME NEW c \in waiting PROVE \E i \in 1..m : turn[i] = c
    <3> DEFINE i == Place(c, S) - free
    <3>1. c \in S /\ Place(c, S) \in 1..n /\ Place(c, S) > free
      BY <1>1
    <3>2. i \in 1..m /\ free + i = Place(c, S)
      BY <1>1, <1>2, <2>1, <3>1
    <3>3. Place(turn[i], S) = Place(c, S) /\ turn[i] \in S
      BY <1>2, <2>2, <3>2
    <3>4. turn[i] = c
      BY <3>1, <3>3, Places
    <3> QED
      BY <3>2, <3>4
  <2> HIDE DEF m, n
  <2>4. /\ m \in Nat
        /\ IsFiniteSet(S \ waiting) /\ Cardinality(S \ waiting) = free
        /\ \A i \in 1..m : turn[i] \in waiting /\ Place(turn[i], S) = free + i
        /\ \A c \in waiting : \E i \in 1..m : turn[i] = c
    BY <1>2, <1>3, <2>1, <2>2, <2>3
  <2> QED
    BY <2>4 DEF m, WaitInTurn
<1> QED
  BY <1>1, <1>5, <1>6

(* The chains of an await are served from its start on. *)
LEMMA Starts ==
  ASSUME NEW ps \in [Pool -> PoolType], NEW r \in Request, NEW await,
         NEW n \in Nat, DOMAIN await.chains = 1..n,
         NEW p \in Pool, NEW users, Serves(ps[p], users),
         \A c \in Nat : <<r, c>> \notin users
  PROVE  /\ Started(ps, r, await)[p] \in PoolType
         /\ Serves(Started(ps, r, await)[p], users \cup {<<r, c>> : c \in Asking(await, p)})
<1> DEFINE busy == ps[p].busy
           queue == ps[p].queue
           S == Asking(await, p)
           free == Limit - Cardinality(busy)
           waiting == {c \in S : Place(c, S) > free}
           m == Cardinality(waiting)
           turn == [i \in 1..m |-> CHOOSE c \in S : Place(c, S) = free + i]
           first == {<<r, c>> : c \in S \ waiting}
           last == [i \in 1..m |-> <<r, CHOOSE c \in S : Place(c, S) = free + i>>]
           new == [busy |-> busy \cup first, queue |-> queue \o last]
<1>1. /\ ps[p] \in PoolType /\ busy \in SUBSET Chains /\ queue \in Seq(Chains)
      /\ IsFiniteSet(busy) /\ Cardinality(busy) <= Limit
      /\ busy \cup Range(queue) = users /\ busy \cap Range(queue) = {}
      /\ \A i, j \in 1..Len(queue) : queue[i] = queue[j] => i = j
      /\ queue # <<>> => Cardinality(busy) = Limit
  BY DEF Serves, PoolType
<1>2. Started(ps, r, await)[p] = new
  BY DEF Started
<1>3. Cardinality(busy) \in Nat /\ Limit \in Nat /\ free \in Nat
  BY <1>1, FS_CardinalityType, RequestsAssumption
<1>4. IsFiniteSet(S) /\ S \subseteq Nat
  <2>1. S \subseteq 1..n
    BY DEF Asking
  <2>2. IsFiniteSet(1..n)
    BY FS_Interval
  <2> QED
    BY <2>1, <2>2, FS_Subset
<1>5. /\ m \in Nat
      /\ IsFiniteSet(S \ waiting) /\ Cardinality(S \ waiting) <= free
      /\ waiting # {} => Cardinality(S \ waiting) = free
      /\ \A i \in 1..m : turn[i] \in waiting /\ Place(turn[i], S) = free + i
      /\ \A c \in waiting : \E i \in 1..m : turn[i] = c
  <2>1. waiting \in SUBSET S /\ \A c \in S : c \in waiting <=> Place(c, S) > free
    OBVIOUS
  <2>2. ASSUME NEW i \in 1..m, NEW c \in S, Place(c, S) = free + i
        PROVE  turn[i] \in S /\ Place(turn[i], S) = free + i
    <3>1. turn[i] = CHOOSE d \in S : Place(d, S) = free + i
      OBVIOUS
    <3> HIDE DEF turn, S, free, m
    <3> QED
      BY <2>2, <3>1
  <2>3. \A i \in 1..m : \A c \in S :
          Place(c, S) = free + i => turn[i] \in S /\ Place(turn[i], S) = free + i
    BY <2>2
  <2> HIDE DEF S, free, waiting, turn, first, last, new, busy, queue
  <2>4. free \in Nat /\ IsFiniteSet(S) /\ S \subseteq Nat
    BY <1>3, <1>4
  <2>5. WaitInTurn(S, free, waiting, turn)
    BY <2>1, <2>3, <2>4, LastWait
  <2> QED
    BY <2>5 DEF WaitInTurn
<1>6. last = [i \in 1..m |-> <<r, turn[i]>>]
  OBVIOUS
<1>7. waiting \subseteq S
  OBVIOUS
<1> HIDE DEF new, busy, queue, S, free, waiting, m, turn, last
<1>8. /\ IsFiniteSet(first) /\ Cardinality(first) = Cardinality(S \ waiting)
      /\ first \subseteq Chains
  <2> DEFINE f == [c \in S \ waiting |-> <<r, c>>]
  <2>1. f \in Bijection(S \ waiting, first)
    BY DEF Bijection, Injection, IsInjective, Surjection
  <2> HIDE DEF first, f
  <2>2. IsFiniteSet(first) /\ Cardinality(first) = Cardinality(S \ waiting)
    BY <1>5, <2>1, FS_Bijection DEF ExistsBijection
  <2>3. first \subseteq Chains
    <3>1. \A c \in S : <<r, c>> \in Chains
      BY <1>4 DEF Chains
    <3> QED
      BY <3>1 DEF first
  <2> QED
    BY <2>2, <2>3
<1>9. last \in Seq(Chains) /\ Len(last) = m
  <2>1. \A i \in 1..m : <<r, turn[i]>> \in Chains
    BY <1>4, <1>5, <1>7 DEF Chains
  <2> QED
    BY <1>5, <1>6, <2>1
<1>10. Range(last) = {<<r, c>> : c \in waiting}
  <2>1. Range(last) = {<<r, turn[i]>> : i \in 1..m}
    BY <1>6 DEF Range
  <2> QED
    BY <1>5, <2>1
<1>11. /\ first \cap busy = {} /\ first \cap Range(queue) = {}
       /\ Range(last) \cap busy = {} /\ Range(last) \cap Range(queue) = {}
       /\ first \cap Range(last) = {}
       /\ first \cup Range(last) = {<<r, c>> : c \in S}
  BY <1>1, <1>4, <1>7, <1>10
<1> HIDE DEF first
<1>12. /\ IsFiniteSet(busy \cup first)
       /\ Cardinality(busy \cup first) = Cardinality(busy) + Cardinality(first)
  <2>1. busy \cap first = {} /\ Cardinality({}) = 0
    BY <1>11, FS_EmptySet
  <2> QED
    <3>1. Cardinality(first) \in Nat
      BY <1>8, FS_CardinalityType
    <3>2. /\ IsFiniteSet(busy \cup first)
          /\ Cardinality(busy \cup first) = Cardinality(busy) + Cardinality(first) - Cardinality(busy \cap first)
      BY <1>1, <1>8, FS_Union
    <3>3. Cardinality(busy \cap first) = 0
      BY <2>1
    <3> QED
      BY <1>3, <3>1, <3>2, <3>3
<1>13. Cardinality(first) \in Nat /\ Cardinality(first) <= free
  BY <1>5, <1>8, FS_CardinalityType
<1>14. /\ Len(queue \o last) = Len(queue) + m /\ queue \o last \in Seq(Chains)
       /\ Len(queue) \in Nat /\ DOMAIN queue = 1..Len(queue) /\ DOMAIN last = 1..m
       /\ DOMAIN (queue \o last) = 1..Len(queue) + m
       /\ \A i \in 1..Len(queue) : (queue \o last)[i] = queue[i]
       /\ \A i \in Len(queue) + 1..Len(queue) + m : (queue \o last)[i] = last[i - Len(queue)]
  <2>1. Len(queue) \in Nat /\ DOMAIN queue = 1..Len(queue) /\ DOMAIN last = 1..m
    BY <1>1, <1>9
  <2>2. queue \o last \in Seq(Chains) /\ Len(queue \o last) = Len(queue) + m
    <3>0. queue \in Seq(Chains) /\ last \in Seq(Chains)
      BY <1>1, <1>9
    <3>1. Len(queue \o last) = Len(queue) + Len(last)
      BY <3>0
    <3>2. queue \o last \in Seq(Chains)
      BY <1>1, <1>9
    <3> QED
      BY <1>9, <3>1, <3>2
  <2>3. DOMAIN (queue \o last) = 1..Len(queue) + m
    BY <2>2
  <2>4. \A i \in 1..Len(queue) + m :
          (queue \o last)[i] = IF i <= Len(queue) THEN queue[i] ELSE last[i - Len(queue)]
    BY <1>1, <1>9
  <2>5. \A i \in 1..Len(queue) : i \in 1..Len(queue) + m /\ i <= Len(queue)
    BY <1>5, <2>1
  <2>6. \A i \in Len(queue) + 1..Len(queue) + m : i \in 1..Len(queue) + m /\ ~(i <= Len(queue))
    BY <1>5, <2>1
  <2> QED
    BY <2>1, <2>2, <2>3, <2>4, <2>5, <2>6
<1>15. Range(queue \o last) = Range(queue) \cup Range(last)
  <2>1. ASSUME NEW i \in 1..Len(queue) + m PROVE (queue \o last)[i] \in Range(queue) \cup Range(last)
    <3>1. CASE i \in 1..Len(queue)
      BY <1>14, <3>1 DEF Range
    <3>2. CASE i \in Len(queue) + 1..Len(queue) + m
      <4>1. i - Len(queue) \in 1..m
        BY <1>5, <1>14, <3>2
      <4> QED
        BY <1>14, <3>2, <4>1 DEF Range
    <3> QED
      BY <1>5, <1>14, <3>1, <3>2
  <2>2. ASSUME NEW i \in 1..Len(queue) PROVE queue[i] \in Range(queue \o last)
    <3>1. i \in 1..Len(queue) + m
      BY <1>5, <1>14
    <3> QED
      BY <1>14, <3>1 DEF Range
  <2>3. ASSUME NEW i \in 1..m PROVE last[i] \in Range(queue \o last)
    <3>1. /\ i + Len(queue) \in 1..Len(queue) + m
          /\ i + Len(queue) \in Len(queue) + 1..Len(queue) + m
          /\ (i + Len(queue)) - Len(queue) = i
      BY <1>5, <1>14
    <3> QED
      BY <1>14, <3>1 DEF Range
  <2> QED
    BY <1>14, <2>1, <2>2, <2>3 DEF Range
<1>16. \A i, j \in 1..Len(queue \o last) : (queue \o last)[i] = (queue \o last)[j] => i = j
  <2> SUFFICES ASSUME NEW i \in 1..Len(queue) + m, NEW j \in 1..Len(queue) + m,
                      (queue \o last)[i] = (queue \o last)[j]
               PROVE  i = j
    BY <1>14
  <2>1. \A k \in 1..Len(queue) + m :
          \/ k \in 1..Len(queue) /\ (queue \o last)[k] = queue[k] /\ queue[k] \in Range(queue)
          \/ k - Len(queue) \in 1..m /\ (queue \o last)[k] = last[k - Len(queue)]
             /\ last[k - Len(queue)] \in Range(last)
    <3> TAKE k \in 1..Len(queue) + m
    <3>1. CASE k \in 1..Len(queue)
      BY <1>14, <3>1 DEF Range
    <3>2. CASE k \in Len(queue) + 1..Len(queue) + m
      <4>1. k - Len(queue) \in 1..m
        BY <1>5, <1>14, <3>2
      <4> QED
        BY <1>14, <3>2, <4>1 DEF Range
    <3> QED
      BY <1>5, <1>14, <3>1, <3>2
  <2>2. \A k, l \in 1..m : last[k] = last[l] => k = l
    <3> SUFFICES ASSUME NEW k \in 1..m, NEW l \in 1..m, last[k] = last[l] PROVE k = l
      OBVIOUS
    <3>1. turn[k] = turn[l]
      BY <1>6
    <3>2. free + k = free + l
      BY <1>5, <3>1
    <3> QED
      BY <1>3, <3>2
  <2>3. CASE i \in 1..Len(queue) /\ j \in 1..Len(queue)
    BY <1>1, <1>14, <2>3
  <2>4. CASE i - Len(queue) \in 1..m /\ j - Len(queue) \in 1..m
    <3>1. last[i - Len(queue)] = last[j - Len(queue)]
      BY <1>14, <2>1, <2>4
    <3>2. i - Len(queue) = j - Len(queue)
      BY <2>2, <2>4, <3>1
    <3> QED
      BY <1>14, <3>2
  <2> QED
    BY <1>11, <2>1, <2>3, <2>4
<1>17. queue \o last # <<>> => Cardinality(busy \cup first) = Limit
  <2>1. CASE queue # <<>>
    <3>1. free = 0
      BY <1>1, <1>3, <2>1 DEF free
    <3> QED
      BY <1>1, <1>3, <1>12, <1>13, <2>1, <3>1
  <2>2. CASE waiting # {}
    BY <1>3, <1>5, <1>8, <1>12, <2>2 DEF free
  <2>3. CASE queue = <<>> /\ waiting = {}
    <3>1. m = 0
      BY <2>3, FS_EmptySet DEF m
    <3>2. Len(queue \o last) = 0
      BY <1>14, <2>3, <3>1
    <3> QED
      BY <1>14, <3>2
  <2> QED
    BY <2>1, <2>2, <2>3
<1>18. new.busy = busy \cup first /\ new.queue = queue \o last /\ new \in PoolType
  BY <1>1, <1>8, <1>14 DEF new, PoolType
<1>19. Cardinality(busy \cup first) <= Limit
  BY <1>3, <1>12, <1>13 DEF free
<1>20. Serves(new, users \cup {<<r, c>> : c \in S})
  BY <1>1, <1>11, <1>12, <1>15, <1>16, <1>17, <1>18, <1>19 DEF Serves
<1> QED
  BY <1>2, <1>18, <1>20 DEF S

-----------------------------------------------------------------------------
(* The services.                                                           *)

(* A lease whose query finds nothing in the senses `nones` only. *)
LeaseOf(nones) == [pool : Pool \cup {"web"}, queries : {1, 2}, none : nones]

(* An await of chains of such leases; `side` tells whether they run side   *)
(* by side.                                                                *)
AwaitOf(await, nones, side) ==
  /\ await \in [chains : Seq(Seq(LeaseOf(nones)) \ {<<>>}), guards : BOOLEAN, checks : BOOLEAN,
                writes : BOOLEAN]
  /\ IF side THEN Len(await.chains) > 1 ELSE Len(await.chains) = 1

Plain(await, nones, side) ==
  /\ AwaitOf(await, nones, side)
  /\ ~await.guards /\ ~await.checks /\ ~await.writes

(* Tuples are sequences that are not empty. *)
LEMMA Tuples ==
  ASSUME NEW S
  PROVE  /\ \A a \in S : <<a>> \in Seq(S) \ {<<>>} /\ Len(<<a>>) = 1
         /\ \A a, b \in S : <<a, b>> \in Seq(S) \ {<<>>} /\ Len(<<a, b>>) = 2
         /\ \A a, b, c \in S : <<a, b, c>> \in Seq(S) \ {<<>>} /\ Len(<<a, b, c>>) = 3
         /\ \A a, b, c, d \in S : <<a, b, c, d>> \in Seq(S) \ {<<>>} /\ Len(<<a, b, c, d>>) = 4
<1>1. \A a \in S : <<a>> \in Seq(S) \ {<<>>} /\ Len(<<a>>) = 1
  OBVIOUS
<1>2. \A a, b \in S : <<a, b>> \in Seq(S) \ {<<>>} /\ Len(<<a, b>>) = 2
  OBVIOUS
<1>3. \A a, b, c \in S : <<a, b, c>> \in Seq(S) \ {<<>>} /\ Len(<<a, b, c>>) = 3
  OBVIOUS
<1>4. \A a, b, c, d \in S : <<a, b, c, d>> \in Seq(S) \ {<<>>} /\ Len(<<a, b, c, d>>) = 4
  OBVIOUS
<1> QED
  BY <1>1, <1>2, <1>3, <1>4

(* The leases that the services are built of. *)
LEMMA Leases ==
  ASSUME NEW nones
  PROVE  /\ \A p \in Pool, n \in nones : Find(p, n) \in LeaseOf(nones)
         /\ "" \in nones => \A p \in Pool \cup {"web"} : Query(p) \in LeaseOf(nones)
         /\ "" \in nones => \A p \in Pool : Transaction(p) \in LeaseOf(nones)
BY DEF LeaseOf, Find, Query, Transaction

(* Awaits of one chain: as it is, of the guard, with an input check, with  *)
(* a write.                                                                *)
LEMMA InTurnType ==
  ASSUME NEW nones, NEW leases \in Seq(LeaseOf(nones)) \ {<<>>}
  PROVE  /\ Plain(InTurn(leases), nones, FALSE)
         /\ AwaitOf([InTurn(leases) EXCEPT !.guards = TRUE], nones, FALSE)
         /\ [InTurn(leases) EXCEPT !.guards = TRUE].guards
         /\ ~[InTurn(leases) EXCEPT !.guards = TRUE].checks
         /\ ~[InTurn(leases) EXCEPT !.guards = TRUE].writes
         /\ AwaitOf(Checked(InTurn(leases)), nones, FALSE)
         /\ ~Checked(InTurn(leases)).guards /\ ~Checked(InTurn(leases)).writes
         /\ AwaitOf(Writing(InTurn(leases)), nones, FALSE)
         /\ ~Writing(InTurn(leases)).guards /\ ~Writing(InTurn(leases)).checks
<1>1. <<leases>> \in Seq(Seq(LeaseOf(nones)) \ {<<>>}) /\ Len(<<leases>>) = 1
  BY Tuples
<1> QED
  BY <1>1 DEF InTurn, Await, AwaitOf, Plain, Checked, Writing

(* Awaits of several chains. *)
LEMMA SideBySide ==
  ASSUME NEW nones, NEW chains \in Seq(Seq(LeaseOf(nones)) \ {<<>>}), Len(chains) > 1
  PROVE  Plain(Await(chains), nones, TRUE)
BY DEF Await, AwaitOf, Plain

(* What the proofs need to know of await i of a request of kind k. *)
Fits(k, i, await) ==
  /\ AwaitOf(await, {"", "unknown", "absent", "missing"}, Len(await.chains) > 1)
  /\ await.guards => i = 1 /\ ~await.checks
  /\ await.checks => k \notin {"search", "walletCount", "cotiPrice"}
  /\ await.writes => k \in {"updateNode", "createToken"} /\ i = 2
  /\ \A c \in DOMAIN await.chains : \A l \in DOMAIN await.chains[c] :
       LET none == await.chains[c][l].none IN
       /\ await.guards => none \in {"", "unknown"}
       /\ Len(await.chains) > 1 => none \in {"", "missing"}
       /\ k \in {"search", "walletCount", "cotiPrice"} => none \in {"", "missing"}
       /\ k \in {"updateNode", "createToken"} /\ i = 3 => none \in {"", "unknown"}
  /\ Len(await.chains) > 1 => ~await.guards /\ k \notin {"cotiPrice", "tokenIcon"}

(* Sequences over a set are sequences over a larger one. *)
LEMMA Wider ==
  ASSUME NEW S, NEW T, S \subseteq T
  PROVE  Seq(S) \subseteq Seq(T)
OBVIOUS

(* What a sequence over a set consists of. *)
LEMMA Entries ==
  ASSUME NEW S, NEW s \in Seq(S), NEW i \in DOMAIN s
  PROVE  s[i] \in S
OBVIOUS

(* Comparisons that the solver is not to make among strings. *)
LEMMA MoreThanOne == \A n : n \in {2, 3, 4} => n > 1
OBVIOUS

LEMMA OneIsNotMore == \A n : n = 1 => ~(n > 1)
OBVIOUS

(* An await of a known type fits, if what its queries may miss does. *)
LEMMA Fit ==
  ASSUME NEW k, NEW i, NEW await, NEW side \in BOOLEAN,
         NEW nones \in SUBSET {"", "unknown", "absent", "missing"},
         AwaitOf(await, nones, side),
         await.guards => i = 1 /\ ~side /\ ~await.checks /\ nones \subseteq {"", "unknown"},
         side => nones \subseteq {"", "missing"} /\ k \notin {"cotiPrice", "tokenIcon"},
         k \in {"search", "walletCount", "cotiPrice"} => ~await.checks /\ nones \subseteq {"", "missing"},
         k \in {"updateNode", "createToken"} /\ i = 3 => nones \subseteq {"", "unknown"},
         await.writes => k \in {"updateNode", "createToken"} /\ i = 2
  PROVE  Fits(k, i, await)
<1> DEFINE N == {"", "unknown", "absent", "missing"}
           L == Seq(LeaseOf(nones)) \ {<<>>}
           M == Seq(LeaseOf(N)) \ {<<>>}
           chains == await.chains
<1>1. chains \in Seq(L)
  BY DEF AwaitOf
<1>2. LeaseOf(nones) \subseteq LeaseOf(N)
  BY DEF LeaseOf
<1>3. L \subseteq M
  BY <1>2, Wider
<1>4. chains \in Seq(M)
  <2> HIDE DEF L, M
  <2> QED
    BY <1>1, <1>3, Wider
<1>5. (side => Len(chains) > 1) /\ (Len(chains) > 1 => side)
  <2>1. CASE side
    BY <2>1 DEF AwaitOf
  <2>2. CASE ~side
    <3>1. Len(chains) = 1
      BY <2>2, Zenon DEF AwaitOf
    <3>2. ~(Len(chains) > 1)
      BY <3>1, OneIsNotMore, Zenon
    <3> QED
      BY <2>2, <3>2
  <2> QED
    BY <2>1, <2>2
<1>6. AwaitOf(await, N, Len(chains) > 1)
  <2>1. await \in [chains : Seq(M), guards : BOOLEAN, checks : BOOLEAN, writes : BOOLEAN]
    <3>1. await \in [chains : Seq(L), guards : BOOLEAN, checks : BOOLEAN, writes : BOOLEAN]
      BY DEF AwaitOf
    <3> HIDE DEF L, M
    <3> QED
      BY <1>4, <3>1
  <2>2. IF Len(chains) > 1 THEN Len(chains) > 1 ELSE Len(chains) = 1
    BY <1>5 DEF AwaitOf
  <2> QED
    BY <2>1, <2>2 DEF AwaitOf
<1>7. \A c \in DOMAIN chains : \A l \in DOMAIN chains[c] : chains[c][l].none \in nones
  <2> TAKE c \in DOMAIN chains
  <2> TAKE l \in DOMAIN chains[c]
  <2>1. chains[c] \in L
    <3> HIDE DEF L, chains
    <3> QED
      BY <1>1, Entries
  <2>2. chains[c][l] \in LeaseOf(nones)
    BY <2>1, Entries
  <2> QED
    BY <2>2 DEF LeaseOf
<1> QED
  BY <1>5, <1>6, <1>7 DEF Fits

(* A service, each of whose awaits fits. *)
ServiceFits(k, service) ==
  /\ Len(service) \in Nat
  /\ k \in {"updateNode", "createToken"} => Len(service) = 3
  /\ \A i \in 1..Len(service) : Fits(k, i, service[i])

(* The awaits that several services share. *)
LEMMA GuardType ==
  AwaitOf(Guard, {"", "unknown"}, FALSE) /\ Guard.guards /\ ~Guard.checks /\ ~Guard.writes
<1>1. <<Find("default", "unknown")>> \in Seq(LeaseOf({"", "unknown"})) \ {<<>>}
  BY Leases, Tuples DEF Pool
<1> QED
  BY <1>1, InTurnType DEF Guard

LEMMA TokenInfoType ==
  /\ AwaitOf(TokenInfo, {"", "unknown"}, FALSE)
  /\ ~TokenInfo.guards /\ ~TokenInfo.writes
<1> DEFINE chain3 == <<Find("db_app", "unknown"), Query("default"), Query("db_app")>>
<1>1. chain3 \in Seq(LeaseOf({"", "unknown"})) \ {<<>>}
  <2>1. {Find("db_app", "unknown"), Query("default"), Query("db_app")} \subseteq LeaseOf({"", "unknown"})
    BY Leases DEF Pool
  <2> QED
    BY <2>1, Tuples
<1> HIDE DEF chain3
<1>2. AwaitOf(Checked(InTurn(chain3)), {"", "unknown"}, FALSE)
      /\ ~Checked(InTurn(chain3)).guards /\ ~Checked(InTurn(chain3)).writes
  BY <1>1, InTurnType
<1> QED
  BY <1>2 DEF TokenInfo, chain3

LEMMA NodeInfoType ==
  Plain(NodeInfo, {"", "unknown"}, FALSE)
<1>1. <<Find("default", "unknown")>> \in Seq(LeaseOf({"", "unknown"})) \ {<<>>}
  BY Leases, Tuples DEF Pool
<1> QED
  BY <1>1, InTurnType DEF NodeInfo

(* Every service fits, one after the other. *)
LEMMA SearchFits == ServiceFits("search", Search)
<1> DEFINE L == Seq(LeaseOf({"", "missing"})) \ {<<>>}
           c1 == <<Query("db_app"), Query("default")>>
           c2 == <<Query("default")>>
           c3 == <<Query("db_app")>>
<1>1. Query("db_app") \in LeaseOf({"", "missing"}) /\ Query("default") \in LeaseOf({"", "missing"})
  BY Leases DEF Pool
<1>2. c1 \in L /\ c2 \in L /\ c3 \in L
  BY <1>1, Tuples
<1>3. Search = <<Await(<<c1, c2, c3, c3>>)>>
  BY DEF Search
<1> HIDE DEF c1, c2, c3, L
<1>4. <<c1, c2, c3, c3>> \in Seq(L) /\ Len(<<c1, c2, c3, c3>>) = 4
  BY <1>2, Tuples
<1>5. Plain(Await(<<c1, c2, c3, c3>>), {"", "missing"}, TRUE)
  <2>1. Len(<<c1, c2, c3, c3>>) > 1
    BY <1>4
  <2> QED
    BY <1>4, <2>1, SideBySide DEF L
<1>6. Fits("search", 1, Await(<<c1, c2, c3, c3>>))
  BY <1>5, Fit DEF Plain
<1> QED
  BY <1>3, <1>6 DEF ServiceFits

LEMMA LastTransactionsFits == ServiceFits("lastTransactions", LastTransactions)
<1>1. {Query("db_app"), TokensSymbols, TransactionsById} \subseteq LeaseOf({""})
  BY Leases DEF Pool, TransactionsById, TokensSymbols, TotalTgbts, TransactionCount, Call
<1>2. <<Query("db_app"), TransactionsById, TokensSymbols>> \in Seq(LeaseOf({""})) \ {<<>>}
  BY <1>1, Tuples
<1>3. Fits("lastTransactions", 1, Checked(InTurn(<<Query("db_app"), TransactionsById, TokensSymbols>>)))
  BY <1>2, InTurnType, Fit DEF Plain
<1> QED
  BY <1>3 DEF ServiceFits, LastTransactions

LEMMA NodeTransactionsFits == ServiceFits("nodeTransactions", NodeTransactions)
<1>1. {Query("db_app"), TokensSymbols} \subseteq LeaseOf({""})
  BY Leases DEF Pool, TransactionsById, TokensSymbols, TotalTgbts, TransactionCount, Call
<1>2. <<Query("db_app"), TokensSymbols>> \in Seq(LeaseOf({""})) \ {<<>>}
  BY <1>1, Tuples
<1>3. Fits("nodeTransactions", 1, InTurn(<<Query("db_app"), TokensSymbols>>))
  BY <1>2, InTurnType, Fit DEF Plain
<1> QED
  BY <1>3 DEF ServiceFits, NodeTransactions

LEMMA TransactionDetailsFits == ServiceFits("transaction", TransactionDetails)
<1>1. {Find("db_app", "absent"), TokensSymbols} \subseteq LeaseOf({"", "absent"})
  BY Leases DEF Pool, TransactionsById, TokensSymbols, TotalTgbts, TransactionCount, Call
<1>2. <<Find("db_app", "absent"), TokensSymbols>> \in Seq(LeaseOf({"", "absent"})) \ {<<>>}
  BY <1>1, Tuples
<1>3. Fits("transaction", 1, InTurn(<<Find("db_app", "absent"), TokensSymbols>>))
  BY <1>2, InTurnType, Fit DEF Plain
<1> QED
  BY <1>3 DEF ServiceFits, TransactionDetails

LEMMA TokensFits == ServiceFits("tokens", Tokens)
<1> DEFINE L == LeaseOf({""})
           q1 == Query("db_app")
           q2 == Query("default")
<1>1. q1 \in L /\ q2 \in L
  BY Leases DEF Pool
<1>2. Tokens = <<InTurn(<<q1, q1, q2, q1>>)>>
  BY DEF Tokens, TotalTgbts
<1> HIDE DEF L, q1, q2
<1>3. <<q1, q1, q2, q1>> \in Seq(L) \ {<<>>}
  BY <1>1, Tuples
<1>4. Fits("tokens", 1, InTurn(<<q1, q1, q2, q1>>))
  BY <1>3, InTurnType, Fit DEF Plain, L
<1> QED
  BY <1>2, <1>4 DEF ServiceFits

LEMMA NodesFits == ServiceFits("nodes", Nodes)
<1>1. {Query("default")} \subseteq LeaseOf({""})
  BY Leases DEF Pool, TransactionsById, TokensSymbols, TotalTgbts, TransactionCount, Call
<1>2. <<Query("default")>> \in Seq(LeaseOf({""})) \ {<<>>}
  BY <1>1, Tuples
<1>3. Fits("nodes", 1, InTurn(<<Query("default")>>))
  BY <1>2, InTurnType, Fit DEF Plain
<1> QED
  BY <1>3 DEF ServiceFits, Nodes

LEMMA WalletCountFits == ServiceFits("walletCount", WalletCount)
<1>1. {Query("db_app")} \subseteq LeaseOf({""})
  BY Leases DEF Pool, TransactionsById, TokensSymbols, TotalTgbts, TransactionCount, Call
<1>2. <<Query("db_app")>> \in Seq(LeaseOf({""})) \ {<<>>}
  BY <1>1, Tuples
<1>3. Fits("walletCount", 1, InTurn(<<Query("db_app")>>))
  BY <1>2, InTurnType, Fit DEF Plain
<1> QED
  BY <1>3 DEF ServiceFits, WalletCount

LEMMA ConfirmationTimeFits == ServiceFits("confirmationTime", ConfirmationTime)
<1>1. {Find("default", "missing")} \subseteq LeaseOf({"missing"})
  BY Leases DEF Pool, TransactionsById, TokensSymbols, TotalTgbts, TransactionCount, Call
<1>2. <<Find("default", "missing")>> \in Seq(LeaseOf({"missing"})) \ {<<>>}
  BY <1>1, Tuples
<1>3. Fits("confirmationTime", 1, InTurn(<<Find("default", "missing")>>))
  BY <1>2, InTurnType, Fit DEF Plain
<1> QED
  BY <1>3 DEF ServiceFits, ConfirmationTime

LEMMA TreasuryTotalsFits == ServiceFits("treasuryTotals", TreasuryTotals)
<1>1. {Find("default", "missing")} \subseteq LeaseOf({"missing"})
  BY Leases DEF Pool, TransactionsById, TokensSymbols, TotalTgbts, TransactionCount, Call
<1>2. <<Find("default", "missing")>> \in Seq(LeaseOf({"missing"})) \ {<<>>}
  BY <1>1, Tuples
<1>3. Fits("treasuryTotals", 1, InTurn(<<Find("default", "missing")>>))
  BY <1>2, InTurnType, Fit DEF Plain
<1> QED
  BY <1>3 DEF ServiceFits, TreasuryTotals

LEMMA CotiPriceFits == ServiceFits("cotiPrice", CotiPrice)
<1>1. {Call} \subseteq LeaseOf({""})
  BY Leases DEF Pool, TransactionsById, TokensSymbols, TotalTgbts, TransactionCount, Call
<1>2. <<Call>> \in Seq(LeaseOf({""})) \ {<<>>}
  BY <1>1, Tuples
<1>3. Fits("cotiPrice", 1, InTurn(<<Call>>))
  BY <1>2, InTurnType, Fit DEF Plain
<1> QED
  BY <1>3 DEF ServiceFits, CotiPrice

LEMMA AddressTransactionsFits == ServiceFits("addressTransactions", AddressTransactions)
<1> DEFINE L == Seq(LeaseOf({"", "missing"})) \ {<<>>}
           first == <<Find("db_app", "absent"), Query("db_app"), TransactionsById, TransactionCount>>
           side == << <<TokensSymbols>>, <<TokenBalances>>, <<NativeBalance>> >>
<1>1. /\ {Find("db_app", "absent"), Query("db_app"), TransactionsById, TransactionCount}
           \subseteq LeaseOf({"", "absent"})
      /\ {TokensSymbols, TokenBalances, NativeBalance} \subseteq LeaseOf({"", "missing"})
  BY Leases DEF Pool, TransactionsById, TransactionCount, TokensSymbols, TokenBalances, NativeBalance
<1>2. first \in Seq(LeaseOf({"", "absent"})) \ {<<>>}
  BY <1>1, Tuples
<1>3. <<TokensSymbols>> \in L /\ <<TokenBalances>> \in L /\ <<NativeBalance>> \in L
  BY <1>1, Tuples
<1>4. side \in Seq(L) /\ Len(side) > 1
  <2>1. side \in Seq(L) /\ Len(side) = 3
    <3> HIDE DEF L
    <3> QED
      BY <1>3, Tuples
  <2> QED
    BY <2>1, MoreThanOne
<1>5. AddressTransactions = <<InTurn(first), Await(side)>>
  BY DEF AddressTransactions
<1> HIDE DEF first, side
<1>6. Plain(Await(side), {"", "missing"}, TRUE) /\ Plain(InTurn(first), {"", "absent"}, FALSE)
  BY <1>2, <1>4, SideBySide, InTurnType DEF L
<1>7. Fits("addressTransactions", 1, InTurn(first))
  BY <1>6, Fit DEF Plain
<1>8. Fits("addressTransactions", 2, Await(side))
  BY <1>6, Fit DEF Plain
<1> QED
  BY <1>5, <1>7, <1>8 DEF ServiceFits

LEMMA TokenTransactionsFits == ServiceFits("tokenTransactions", TokenTransactions)
<1> DEFINE L == Seq(LeaseOf({"", "missing"})) \ {<<>>}
           first == <<Find("db_app", "absent"), Query("db_app"), TransactionsById>>
           side == << <<TransactionCurrenciesCount>>, <<TokensSymbols>> >>
<1>1. /\ {Find("db_app", "absent"), Query("db_app"), TransactionsById} \subseteq LeaseOf({"", "absent"})
      /\ {TokensSymbols, TransactionCurrenciesCount} \subseteq LeaseOf({"", "missing"})
  BY Leases DEF Pool, TransactionsById, TransactionCurrenciesCount, TokensSymbols
<1>2. first \in Seq(LeaseOf({"", "absent"})) \ {<<>>}
  BY <1>1, Tuples
<1>3. <<TokensSymbols>> \in L /\ <<TransactionCurrenciesCount>> \in L
  BY <1>1, Tuples
<1>4. side \in Seq(L) /\ Len(side) > 1
  <2>1. side \in Seq(L) /\ Len(side) = 2
    <3> HIDE DEF L
    <3> QED
      BY <1>3, Tuples
  <2> QED
    BY <2>1, MoreThanOne
<1>5. TokenTransactions = <<Checked(InTurn(first)), Await(side)>>
  BY DEF TokenTransactions
<1> HIDE DEF first, side
<1>6. /\ Plain(Await(side), {"", "missing"}, TRUE)
      /\ AwaitOf(Checked(InTurn(first)), {"", "absent"}, FALSE)
      /\ ~Checked(InTurn(first)).guards /\ ~Checked(InTurn(first)).writes
  BY <1>2, <1>4, SideBySide, InTurnType DEF L
<1>7. Fits("tokenTransactions", 1, Checked(InTurn(first)))
  BY <1>6, Fit DEF Plain
<1>8. Fits("tokenTransactions", 2, Await(side))
  BY <1>6, Fit DEF Plain
<1> QED
  BY <1>5, <1>7, <1>8 DEF ServiceFits

LEMMA TokenInfoFits == \A k \in {"tokenInfo", "tokenInfoBySymbol"} : ServiceFits(k, <<TokenInfo>>)
<1>1. \A k \in {"tokenInfo", "tokenInfoBySymbol"} : Fits(k, 1, TokenInfo)
  BY TokenInfoType, Fit
<1> QED
  BY <1>1 DEF ServiceFits

LEMMA NodeInfoFits == ServiceFits("nodeInfo", <<NodeInfo>>)
<1>1. Fits("nodeInfo", 1, NodeInfo)
  BY NodeInfoType, Fit DEF Plain
<1> QED
  BY <1>1 DEF ServiceFits

LEMMA UpdateNodeFits == ServiceFits("updateNode", UpdateNode)
<1> DEFINE write == Writing(InTurn(<<Transaction("default")>>))
<1>1. <<Transaction("default")>> \in Seq(LeaseOf({""})) \ {<<>>}
  BY Leases, Tuples DEF Pool
<1>2. AwaitOf(write, {""}, FALSE) /\ ~write.guards /\ ~write.checks
  BY <1>1, InTurnType
<1>3. UpdateNode = <<Guard, write, NodeInfo>>
  BY DEF UpdateNode
<1> HIDE DEF write
<1>4. Fits("updateNode", 1, Guard)
  BY GuardType, Fit
<1>5. Fits("updateNode", 2, write)
  BY <1>2, Fit
<1>6. Fits("updateNode", 3, NodeInfo)
  BY NodeInfoType, Fit DEF Plain
<1> QED
  BY <1>3, <1>4, <1>5, <1>6 DEF ServiceFits

LEMMA CreateTokenFits == ServiceFits("createToken", CreateToken)
<1> DEFINE write == Writing(InTurn(<<Query("default"), Query("default")>>))
<1>1. Query("default") \in LeaseOf({""})
  BY Leases DEF Pool
<1>2. <<Query("default"), Query("default")>> \in Seq(LeaseOf({""})) \ {<<>>}
  BY <1>1, Tuples
<1>3. AwaitOf(write, {""}, FALSE) /\ ~write.guards /\ ~write.checks
  BY <1>2, InTurnType
<1>4. CreateToken = <<Guard, write, TokenInfo>>
  BY DEF CreateToken
<1> HIDE DEF write
<1>5. Fits("createToken", 1, Guard)
  BY GuardType, Fit
<1>6. Fits("createToken", 2, write)
  BY <1>3, Fit
<1>7. Fits("createToken", 3, TokenInfo)
  BY TokenInfoType, Fit
<1> QED
  BY <1>4, <1>5, <1>6, <1>7 DEF ServiceFits

(* The upload of an icon. *)
LEMMA UploadType ==
  /\ AwaitOf(Checked(InTurn(<<Call>>)), {""}, FALSE)
  /\ ~Checked(InTurn(<<Call>>)).guards /\ ~Checked(InTurn(<<Call>>)).writes
<1>1. <<Call>> \in Seq(LeaseOf({""})) \ {<<>>}
  BY Leases, Tuples DEF Call
<1> QED
  BY <1>1, InTurnType

LEMMA NodeIconFits == ServiceFits("nodeIcon", NodeIcon)
<1> DEFINE upload == Checked(InTurn(<<Call>>))
<1>1. NodeIcon = <<Guard, NodeInfo, upload>>
  BY DEF NodeIcon
<1>2. Fits("nodeIcon", 1, Guard)
  BY GuardType, Fit
<1>3. Fits("nodeIcon", 2, NodeInfo)
  BY NodeInfoType, Fit DEF Plain
<1>4. Fits("nodeIcon", 3, upload)
  BY UploadType, Fit
<1> HIDE DEF upload
<1> QED
  BY <1>1, <1>2, <1>3, <1>4 DEF ServiceFits

LEMMA TokenIconFits == ServiceFits("tokenIcon", TokenIcon)
<1> DEFINE upload == Checked(InTurn(<<Call>>))
           find == InTurn(<<Find("db_app", "absent"), Find("default", "unknown")>>)
<1>1. TokenIcon = <<Guard, find, upload>>
  BY DEF TokenIcon
<1>2. Fits("tokenIcon", 1, Guard)
  BY GuardType, Fit
<1>3. Fits("tokenIcon", 2, find)
  <2>1. {Find("db_app", "absent"), Find("default", "unknown")} \subseteq LeaseOf({"absent", "unknown"})
    BY Leases DEF Pool
  <2>2. <<Find("db_app", "absent"), Find("default", "unknown")>>
          \in Seq(LeaseOf({"absent", "unknown"})) \ {<<>>}
    BY <2>1, Tuples
  <2>3. Plain(find, {"absent", "unknown"}, FALSE)
    BY <2>2, InTurnType
  <2> HIDE DEF find
  <2> QED
    BY <2>3, Fit DEF Plain
<1>4. Fits("tokenIcon", 3, upload)
  BY UploadType, Fit
<1> HIDE DEF upload, find
<1> QED
  BY <1>1, <1>2, <1>3, <1>4 DEF ServiceFits

(* So does the service of every route. *)
LEMMA Services == \A k \in Kind : ServiceFits(k, Service[k])
<1> SUFFICES ASSUME NEW k \in Kind PROVE ServiceFits(k, Service[k])
  OBVIOUS
<1>0. k \in Routes
  BY RequestsAssumption
<1>1. CASE k = "search"
  <2>1. Service[k] = Search
    BY <1>1 DEF Service
  <2> QED
    BY <1>1, <2>1, SearchFits
<1>2. CASE k = "addressTransactions"
  <2>1. Service[k] = AddressTransactions
    BY <1>2 DEF Service
  <2> QED
    BY <1>2, <2>1, AddressTransactionsFits
<1>3. CASE k = "tokenTransactions"
  <2>1. Service[k] = TokenTransactions
    BY <1>3 DEF Service
  <2> QED
    BY <1>3, <2>1, TokenTransactionsFits
<1>4. CASE k = "lastTransactions"
  <2>1. Service[k] = LastTransactions
    BY <1>4 DEF Service
  <2> QED
    BY <1>4, <2>1, LastTransactionsFits
<1>5. CASE k = "nodeTransactions"
  <2>1. Service[k] = NodeTransactions
    BY <1>5 DEF Service
  <2> QED
    BY <1>5, <2>1, NodeTransactionsFits
<1>6. CASE k = "transaction"
  <2>1. Service[k] = TransactionDetails
    BY <1>6 DEF Service
  <2> QED
    BY <1>6, <2>1, TransactionDetailsFits
<1>7. CASE k = "tokens"
  <2>1. Service[k] = Tokens
    BY <1>7 DEF Service
  <2> QED
    BY <1>7, <2>1, TokensFits
<1>8. CASE k = "nodes"
  <2>1. Service[k] = Nodes
    BY <1>8 DEF Service
  <2> QED
    BY <1>8, <2>1, NodesFits
<1>9. CASE k = "walletCount"
  <2>1. Service[k] = WalletCount
    BY <1>9 DEF Service
  <2> QED
    BY <1>9, <2>1, WalletCountFits
<1>10. CASE k = "confirmationTime"
  <2>1. Service[k] = ConfirmationTime
    BY <1>10 DEF Service
  <2> QED
    BY <1>10, <2>1, ConfirmationTimeFits
<1>11. CASE k = "treasuryTotals"
  <2>1. Service[k] = TreasuryTotals
    BY <1>11 DEF Service
  <2> QED
    BY <1>11, <2>1, TreasuryTotalsFits
<1>12. CASE k = "cotiPrice"
  <2>1. Service[k] = CotiPrice
    BY <1>12 DEF Service
  <2> QED
    BY <1>12, <2>1, CotiPriceFits
<1>13. CASE k = "updateNode"
  <2>1. Service[k] = UpdateNode
    BY <1>13 DEF Service
  <2> QED
    BY <1>13, <2>1, UpdateNodeFits
<1>14. CASE k = "createToken"
  <2>1. Service[k] = CreateToken
    BY <1>14 DEF Service
  <2> QED
    BY <1>14, <2>1, CreateTokenFits
<1>15. CASE k = "nodeIcon"
  <2>1. Service[k] = NodeIcon
    BY <1>15 DEF Service
  <2> QED
    BY <1>15, <2>1, NodeIconFits
<1>16. CASE k = "tokenIcon"
  <2>1. Service[k] = TokenIcon
    BY <1>16 DEF Service
  <2> QED
    BY <1>16, <2>1, TokenIconFits
<1>17. CASE k \in {"tokenInfo", "tokenInfoBySymbol"}
  <2>1. Service[k] = <<TokenInfo>>
    BY <1>17 DEF Service
  <2> QED
    BY <1>17, <2>1, TokenInfoFits
<1>18. CASE k = "nodeInfo"
  <2>1. Service[k] = <<NodeInfo>>
    BY <1>18 DEF Service
  <2> QED
    BY <1>18, <2>1, NodeInfoFits
<1> QED
  BY <1>0, <1>1, <1>2, <1>3, <1>4, <1>5, <1>6, <1>7, <1>8, <1>9, <1>10, <1>11, <1>12, <1>13, <1>14, <1>15, <1>16, <1>17, <1>18 DEF Routes

(* The facts about the services that the invariant needs. *)
LEMMA ServiceFacts ==
  ASSUME NEW k \in Kind
  PROVE  /\ Len(Service[k]) \in Nat
         /\ k \in {"updateNode", "createToken"} => Len(Service[k]) = 3
         /\ \A i \in 1..Len(Service[k]) :
              LET await == Service[k][i] IN
              /\ Fits(k, i, await)
              /\ \E n \in Nat : Len(await.chains) = n /\ DOMAIN await.chains = 1..n
              /\ \A c \in DOMAIN await.chains :
                   /\ Len(await.chains[c]) \in Nat \ {0}
                   /\ DOMAIN await.chains[c] = 1..Len(await.chains[c])
                   /\ \A l \in DOMAIN await.chains[c] :
                        /\ await.chains[c][l].queries \in {1, 2}
                        /\ await.chains[c][l].none \in {"", "unknown", "absent", "missing"}
<1>1. ServiceFits(k, Service[k])
  BY Services
<1>2. ASSUME NEW i \in 1..Len(Service[k])
      PROVE  LET await == Service[k][i] IN
              /\ Fits(k, i, await)
              /\ \E n \in Nat : Len(await.chains) = n /\ DOMAIN await.chains = 1..n
              /\ \A c \in DOMAIN await.chains :
                   /\ Len(await.chains[c]) \in Nat \ {0}
                   /\ DOMAIN await.chains[c] = 1..Len(await.chains[c])
                   /\ \A l \in DOMAIN await.chains[c] :
                        /\ await.chains[c][l].queries \in {1, 2}
                        /\ await.chains[c][l].none \in {"", "unknown", "absent", "missing"}
  <2> DEFINE chains == Service[k][i].chains
             N == {"", "unknown", "absent", "missing"}
             L == Seq(LeaseOf(N)) \ {<<>>}
  <2>1. Fits(k, i, Service[k][i])
    BY <1>1 DEF ServiceFits
  <2>2. chains \in Seq(L)
    BY <2>1 DEF Fits, AwaitOf
  <2> HIDE DEF chains
  <2>3. Len(chains) \in Nat /\ DOMAIN chains = 1..Len(chains)
    <3> HIDE DEF L
    <3> QED
      BY <2>2
  <2>4. ASSUME NEW c \in DOMAIN chains
        PROVE  /\ Len(chains[c]) \in Nat \ {0}
               /\ DOMAIN chains[c] = 1..Len(chains[c])
               /\ \A l \in DOMAIN chains[c] : chains[c][l].queries \in {1, 2} /\ chains[c][l].none \in N
    <3>1. chains[c] \in L
      <4> HIDE DEF L
      <4> QED
        BY <2>2, Entries
    <3>2. chains[c] \in Seq(LeaseOf(N)) /\ chains[c] # <<>>
      BY <3>1
    <3>3. \A l \in DOMAIN chains[c] : chains[c][l] \in LeaseOf(N)
      BY <3>2, Entries
    <3>4. \A e \in LeaseOf(N) : e.queries \in {1, 2} /\ e.none \in N
      BY DEF LeaseOf
    <3>5. \A T : \A s \in Seq(T) : s # <<>> => Len(s) \in Nat \ {0} /\ DOMAIN s = 1..Len(s)
      OBVIOUS
    <3> QED
      BY <3>2, <3>3, <3>4, <3>5
  <2> QED
    BY <2>1, <2>3, <2>4 DEF chains
<1> QED
  BY <1>1, <1>2 DEF ServiceFits

(* The parts of it that the steps need. *)
LEMMA AwaitFacts ==
  ASSUME NEW k \in Kind, NEW i \in 1..Len(Service[k])
  PROVE  \E n \in Nat : Len(Service[k][i].chains) = n /\ DOMAIN Service[k][i].chains = 1..n
BY ServiceFacts

LEMMA ChainFacts ==
  ASSUME NEW k \in Kind, NEW i \in 1..Len(Service[k]), NEW c \in DOMAIN Service[k][i].chains
  PROVE  /\ Len(Service[k][i].chains[c]) \in Nat \ {0}
         /\ DOMAIN Service[k][i].chains[c] = 1..Len(Service[k][i].chains[c])
         /\ \A l \in DOMAIN Service[k][i].chains[c] : Service[k][i].chains[c][l].queries \in {1, 2}
BY ServiceFacts

-----------------------------------------------------------------------------
(* The replies.                                                            *)

(* What can end await i of a request of kind k, once its queries are sent. *)
CanFail(k, i, why) ==
  \/ why \in {"", "database"}
  \/ why = "key" /\ Service[k][i].guards
  \/ \E c \in DOMAIN Service[k][i].chains : \E l \in DOMAIN Service[k][i].chains[c] :
       why = Service[k][i].chains[c][l].none

Failures == {"", "key", "unknown", "absent", "missing", "database"}

(* What BlameIsTold says of the answer to a request of kind k that await i *)
(* ended.                                                                  *)
Told(k, i, why, answer) ==
  /\ answer.http # "500" => why \in ClientsFault \/ (why = "database" /\ answer.http = "403")
  /\ why \in ClientsFault /\ answer.http = "500" =>
       \/ k = "tokenInfoBySymbol"
       \/ why \in {"file", "absent"}
       \/ k = "nodeIcon" /\ why = "input" /\ answer.status = "400"
  /\ why \in ClientsFault /\ answer.message = "generic" => why = "file"
  /\ answer.message = "" => Len(Service[k][i].chains) > 1

(* What ended await i of a request of kind k, and whether it ended queries *)
(* that run side by side.                                                  *)
CanEnd(k, i, why, parallel) ==
  /\ IF Service[k][i].guards
     THEN why \in {"header", "key", "unknown", "database"}
     ELSE why \in {"file", "body", "input", "unknown", "absent", "missing", "database"}
  /\ parallel =>
       /\ ~Service[k][i].guards
       /\ why \in {"missing", "database"}
       /\ Len(Service[k][i].chains) > 1
       /\ k \notin {"cotiPrice", "tokenIcon"}
  /\ why \in {"input", "unknown", "absent"} /\ ~Service[k][i].guards =>
       k \notin {"search", "walletCount", "cotiPrice"}

(* The replies that blame the client, and those that do not. *)
LEMMA Blames ==
  ASSUME NEW k, NEW i, NEW why, NEW answer, answer.http # "500", answer.message = "cause",
         why \in ClientsFault \/ (why = "database" /\ answer.http = "403")
  PROVE  Told(k, i, why, answer)
BY DEF Told, ClientsFault

(* A 500 that says what went wrong. *)
LEMMA Admits ==
  ASSUME NEW k, NEW i, NEW why, NEW answer, answer.http = "500", answer.message = "cause",
         \/ why \in {"missing", "database", "absent"}
         \/ k = "tokenInfoBySymbol"
         \/ k = "nodeIcon" /\ why = "input" /\ answer.status = "400"
  PROVE  Told(k, i, why, answer)
BY DEF Told, ClientsFault

(* A 500 that does not. *)
LEMMA AdmitsVaguely ==
  ASSUME NEW k, NEW i, NEW why, NEW answer, answer.http = "500",
         \/ answer.message = "generic" /\ why \in {"missing", "database", "file"}
         \/ answer.message = "" /\ why \in {"missing", "database"} /\ Len(Service[k][i].chains) > 1
  PROVE  Told(k, i, why, answer)
BY DEF Told, ClientsFault

(* Every reply blames whom BlameIsTold says. *)
LEMMA EveryReply ==
  ASSUME NEW k, NEW i, NEW why, NEW parallel \in BOOLEAN, CanEnd(k, i, why, parallel)
  PROVE  Told(k, i, why, ErrorReply(k, i, why, parallel))
<1> SUFFICES ASSUME NEW answer, answer = ErrorReply(k, i, why, parallel)
             PROVE  Told(k, i, why, answer)
  OBVIOUS
<1> DEFINE Is(http, status, message) ==
             answer.http = http /\ answer.status = status /\ answer.message = message
<1>1. CASE Service[k][i].guards
  <2>1. why \in {"header", "key", "unknown", "database"}
    BY <1>1 DEF CanEnd
  <2>2. answer = Caught(HttpException(IF why = "header" THEN "401" ELSE "403"))
    BY <1>1 DEF ErrorReply
  <2>3. IF why = "header" THEN Is("401", "401", "cause") ELSE Is("403", "403", "cause")
    BY <2>2 DEF Caught, HttpException, Or
  <2> QED
    BY <2>1, <2>3, Blames DEF ClientsFault
<1>2. CASE ~Service[k][i].guards
  <2>0. why \in {"file", "body", "input", "unknown", "absent", "missing", "database"}
    BY <1>2 DEF CanEnd
  <2>1. CASE why = "file"
    <3>1. answer = Caught(Failure)
      BY <1>2, <2>1 DEF ErrorReply
    <3>2. Is("500", "Error", "generic")
      BY <3>1 DEF Caught, Failure, Or
    <3> QED
      BY <2>1, <3>2, AdmitsVaguely DEF ClientsFault
  <2>2. CASE why = "body"
    <3>1. answer = Caught(HttpException("400"))
      BY <1>2, <2>2 DEF ErrorReply
    <3>2. Is("400", "400", "cause")
      BY <3>1 DEF Caught, HttpException, Or
    <3> QED
      BY <2>2, <3>2, Blames DEF ClientsFault
  <2>3. CASE why \notin {"file", "body"}
    <3>1. answer = Caught(Rethrown(k, Thrown(k, why, parallel)))
      BY <1>2, <2>3 DEF ErrorReply
    <3>2. CASE parallel
      <4>1. /\ why \in {"missing", "database"} /\ Len(Service[k][i].chains) > 1
            /\ k \notin {"cotiPrice", "tokenIcon"}
        BY <3>2 DEF CanEnd
      <4>2. Thrown(k, why, parallel) = Rejected
        BY <3>2 DEF Thrown
      <4>3. \/ answer = Caught(ExplorerError([Failure EXCEPT !.message = Rejected.message]))
            \/ answer = Caught(ExplorerError(Rejected))
        BY <3>1, <4>1, <4>2 DEF Rethrown
      <4>4. answer.http = "500" /\ answer.message = ""
        <5> DEFINE bare == [Failure EXCEPT !.message = ""]
        <5>0. /\ Rejected.statusCode = "" /\ Rejected.message = ""
              /\ bare.statusCode = "" /\ bare.message = ""
          BY DEF Rejected, Failure
        <5>1. \A e : Caught(ExplorerError(e)).http = Or(e.statusCode, "500")
                     /\ Caught(ExplorerError(e)).message = e.message
          BY DEF Caught, ExplorerError
        <5>2. answer = Caught(ExplorerError(bare)) \/ answer = Caught(ExplorerError(Rejected))
          BY <4>3, <5>0
        <5> HIDE DEF bare
        <5> QED
          BY <5>0, <5>1, <5>2 DEF Or
      <4> QED
        BY <4>1, <4>4, AdmitsVaguely DEF ClientsFault
    <3>3. CASE ~parallel /\ why \in {"input", "unknown"}
      <4>0. k \notin {"search", "walletCount", "cotiPrice"}
        BY <1>2, <3>3 DEF CanEnd
      <4>1. CASE k = "tokenIcon"
        <5>1. answer = Caught(HttpException("400"))
          BY <3>1, <3>3, <4>1 DEF Thrown, Rethrown
        <5>2. Is("400", "400", "cause")
          BY <5>1 DEF Caught, HttpException, Or
        <5> QED
          BY <3>3, <5>2, Blames DEF ClientsFault
      <4>2. CASE k = "nodeIcon" /\ why = "input"
        <5>1. answer = Caught(ExplorerError(HttpException("400")))
          BY <3>1, <3>3, <4>2 DEF Thrown, Rethrown
        <5>2. Is("500", "400", "cause")
          BY <5>1 DEF Caught, ExplorerError, HttpException, Or
        <5> QED
          BY <4>2, <5>2, Admits DEF ClientsFault
      <4>3. CASE k # "tokenIcon" /\ ~(k = "nodeIcon" /\ why = "input")
        <5>1. Thrown(k, why, parallel) = BadRequest
          BY <3>3, <4>3 DEF Thrown
        <5>2. CASE k = "tokenInfoBySymbol"
          <6>1. answer = Caught(ExplorerError([Failure EXCEPT !.message = BadRequest.message]))
            BY <3>1, <5>1, <5>2 DEF Rethrown
          <6>2. Is("500", "Error", "cause")
            BY <6>1 DEF Caught, ExplorerError, Failure, BadRequest, Or
          <6> QED
            BY <3>3, <5>2, <6>2, Admits DEF ClientsFault
        <5>3. CASE k # "tokenInfoBySymbol"
          <6>1. answer = Caught(ExplorerError(BadRequest))
            BY <3>1, <4>0, <4>3, <5>1, <5>3 DEF Rethrown
          <6>2. Is("400", "Error", "cause")
            BY <6>1 DEF Caught, ExplorerError, Failure, BadRequest, Or
          <6> QED
            BY <3>3, <6>2, Blames DEF ClientsFault
        <5> QED
          BY <5>2, <5>3
      <4> QED
        BY <4>1, <4>2, <4>3
    <3>4. CASE ~parallel /\ why \notin {"input", "unknown"}
      <4>0. why \in {"absent", "missing", "database"}
        BY <2>0, <2>3, <3>4
      <4>1. CASE k = "tokenIcon"
        <5>1. answer = Caught(ExplorerError(Failure))
          BY <3>1, <3>4, <4>1 DEF Thrown, Rethrown
        <5>2. Is("500", "Error", "cause")
          BY <5>1 DEF Caught, ExplorerError, Failure, Or
        <5> QED
          BY <4>0, <5>2, Admits DEF ClientsFault
      <4>2. CASE k = "cotiPrice"
        <5>1. answer = Caught(Failure)
          BY <3>1, <3>4, <4>2 DEF Thrown, Rethrown
        <5>2. Is("500", "Error", "generic")
          BY <5>1 DEF Caught, Failure, Or
        <5>3. why # "absent"
          BY <1>2, <4>2 DEF CanEnd
        <5> QED
          BY <4>0, <5>2, <5>3, AdmitsVaguely DEF ClientsFault
      <4>3. CASE k \notin {"tokenIcon", "cotiPrice"}
        <5>1. \/ answer = Caught(ExplorerError([Failure EXCEPT !.message = Failure.message]))
              \/ answer = Caught(ExplorerError(Failure))
          BY <3>1, <3>4, <4>3 DEF Thrown, Rethrown
        <5>2. Is("500", "Error", "cause")
          BY <5>1 DEF Caught, ExplorerError, Failure, Or
        <5> QED
          BY <4>0, <5>2, Admits DEF ClientsFault
      <4> QED
        BY <4>1, <4>2, <4>3
    <3> QED
      BY <3>2, <3>3, <3>4
  <2> QED
    BY <2>1, <2>2, <2>3
<1> QED
  BY <1>1, <1>2

(* The reply to what stops r before an await. *)
Refusal(k, i, w) == ErrorReply(k, i, w, FALSE)

(* The client's fault that stops it before an await. *)
LEMMA StopEnds ==
  ASSUME NEW k \in Kind, NEW i \in 1..Len(Service[k]), NEW w, Stops(k, w, i)
  PROVE  Told(k, i, w, Refusal(k, i, w))
<1>1. Fits(k, i, Service[k][i])
  BY ServiceFacts
<1>2. ASSUME w = "header", Service[k][i].guards PROVE CanEnd(k, i, w, FALSE)
  BY <1>2 DEF CanEnd
<1>3. ASSUME w \in {"file", "body"}, i = (IF Admin(k) THEN 2 ELSE 1)
      PROVE  CanEnd(k, i, w, FALSE)
  <2>1. ~Service[k][i].guards
    <3>1. CASE Admin(k)
      <4>1. Service[k][i].guards => i = 1
        BY <1>1 DEF Fits
      <4>2. i = 2
        BY <1>3, <3>1, Zenon
      <4> QED
        BY <4>1, <4>2
    <3>2. CASE ~Admin(k)
      BY <1>3, <3>2 DEF Admin
    <3> QED
      BY <3>1, <3>2
  <2> QED
    BY <1>3, <2>1 DEF CanEnd
<1>4. ASSUME w = "input", Service[k][i].checks PROVE CanEnd(k, i, w, FALSE)
  <2>1. ~Service[k][i].guards /\ k \notin {"search", "walletCount", "cotiPrice"}
    BY <1>1, <1>4 DEF Fits
  <2> QED
    BY <1>4, <2>1 DEF CanEnd
<1>5. CanEnd(k, i, w, FALSE)
  BY <1>2, <1>3, <1>4 DEF Stops
<1> QED
  BY <1>5, EveryReply DEF Refusal

(* A comparison is a Boolean, whatever is compared. *)
LEMMA Comparing == \A n : (n > 1) \in BOOLEAN
OBVIOUS

(* The failure that ends an await. *)
LEMMA FailureEnds ==
  ASSUME NEW k \in Kind, NEW i \in 1..Len(Service[k]), NEW why, CanFail(k, i, why), why # ""
  PROVE  Told(k, i, why, ErrorReply(k, i, why, Len(Service[k][i].chains) > 1))
<1> DEFINE await == Service[k][i]
           many == Len(await.chains) > 1
<1>1. Fits(k, i, await)
  BY ServiceFacts
<1>2. many => ~await.guards /\ k \notin {"cotiPrice", "tokenIcon"} /\ Len(await.chains) > 1
  BY <1>1 DEF Fits
<1>7. many \in BOOLEAN
  BY Comparing, Zenon
<1> HIDE DEF many
<1>3. why = "database" => CanEnd(k, i, why, many)
  BY <1>2 DEF CanEnd
<1>4. why = "key" /\ await.guards => CanEnd(k, i, why, many)
  BY <1>2 DEF CanEnd
<1>5. ASSUME NEW c \in DOMAIN await.chains, NEW l \in DOMAIN await.chains[c],
             why = await.chains[c][l].none
      PROVE  CanEnd(k, i, why, many)
  <2>1. /\ why \in {"unknown", "absent", "missing"}
        /\ await.guards => why = "unknown"
        /\ many => why = "missing"
        /\ k \in {"search", "walletCount", "cotiPrice"} => why = "missing"
    <3>1. await.chains[c][l].none \in {"", "unknown", "absent", "missing"}
      BY ServiceFacts
    <3>2. /\ await.guards => await.chains[c][l].none \in {"", "unknown"}
          /\ many \/ k \in {"search", "walletCount", "cotiPrice"} => await.chains[c][l].none \in {"", "missing"}
      BY <1>1 DEF Fits, many
    <3> HIDE DEF await
    <3> QED
      BY <1>5, <3>1, <3>2
  <2> QED
    BY <1>2, <2>1 DEF CanEnd
<1>6. CanEnd(k, i, why, many)
  <2>1. CASE \E c \in DOMAIN await.chains : \E l \in DOMAIN await.chains[c] :
               why = await.chains[c][l].none
    BY <1>5, <2>1
  <2> QED
    BY <1>3, <1>4, <2>1 DEF CanFail
<1>8. Told(k, i, why, ErrorReply(k, i, why, many))
  BY <1>7, <1>6, EveryReply
<1> QED
  BY <1>8 DEF many

(* A failure among some is the first. *)
LEMMA FirstOfSome ==
  ASSUME NEW S \in SUBSET Nat, S # {}
  PROVE  Min(S) \in S
<1>1. PICK m \in S : \A n \in S : ~(<<n, m>> \in OpToRel(<, Nat))
  BY NatLessThanWellFounded, WFMin
<1>2. ASSUME NEW n \in S PROVE m =< n
  <2>1. n \in Nat /\ m \in Nat
    OBVIOUS
  <2>2. ~(n < m)
    BY <1>1, <2>1 DEF OpToRel
  <2> QED
    BY <2>1, <2>2
<1> QED
  BY <1>2 DEF Min

-----------------------------------------------------------------------------
(* The invariant.                                                          *)

Arrived ==
  /\ kind \in [Request -> Kind \cup {""}]
  /\ wrong \in [Request -> {"", "header", "key", "file", "body", "input"}]
  /\ written \in [Request -> BOOLEAN]

Typed ==
  /\ Arrived
  /\ at \in [Request -> Nat]
  /\ DOMAIN chain = Request /\ DOMAIN reply = Request /\ DOMAIN cause = Request

ChainType == [lease : Nat, left : Int, failure : Failures]

(* Chain c of r, which is suspended on await i. *)
ChainOK(r, i, c) ==
  /\ chain[r][c].lease \in 0..Len(Service[kind[r]][i].chains[c])
  /\ CanFail(kind[r], i, chain[r][c].failure)

(* A request is suspended on an await of its service, or it has no chains. *)
RequestOK(r) ==
  IF at[r] = 0
  THEN chain[r] = <<>>
  ELSE /\ kind[r] \in Kind
       /\ at[r] \in 1..Len(Service[kind[r]])
       /\ chain[r] \in [DOMAIN Suspended(r).chains -> ChainType]
       /\ \A c \in DOMAIN chain[r] : ChainOK(r, at[r], c)

(* Chain c of r holds or awaits a connection of p. *)
Served(r, c, p) ==
  /\ at[r] # 0
  /\ c \in DOMAIN chain[r]
  /\ chain[r][c].lease # 0
  /\ Lease(r, c).pool = p

Users(p) == {x \in Chains : Served(x[1], x[2], p)}

(* Those of the other requests. *)
Others(r, p) == {x \in Users(p) : x[1] # r}

PoolsOK == pools \in [Pool -> PoolType] /\ \A p \in Pool : Serves(pools[p], Users(p))

(* Only a request that reads back what it wrote has written, until it is   *)
(* answered.                                                               *)
WrittenOK(r) ==
  written[r] =>
    /\ kind[r] \in {"updateNode", "createToken"}
    /\ at[r] \in {0, 3}
    /\ at[r] = 0 =>
         \/ reply[r].http = "201"
         \/ cause[r][1] = 3 /\ cause[r][2] \in {"input", "unknown", "database"}

Unblamed(r) == cause[r][2] = ""

(* A request is blamed when it is answered, not before. *)
BlamedOK(r) ==
  /\ at[r] # 0 \/ kind[r] = "" => Unblamed(r)
  /\ cause[r][2] # "" => Told(kind[r], cause[r][1], cause[r][2], reply[r])

IndInv ==
  /\ Typed
  /\ \A r \in Request : RequestOK(r) /\ WrittenOK(r) /\ BlamedOK(r)
  /\ PoolsOK

-----------------------------------------------------------------------------
(* The steps of one request.                                               *)

(* What the other requests know of a step of r. *)
Apart(r) ==
  \A q \in Request \ {r} :
    /\ kind'[q] = kind[q] /\ at'[q] = at[q] /\ chain'[q] = chain[q] /\ written'[q] = written[q]
    /\ reply'[q] = reply[q] /\ cause'[q] = cause[q]

(* So the invariant holds of the others as before. *)
LEMMA OthersStay ==
  ASSUME NEW r \in Request, Apart(r), NEW q \in Request \ {r}
  PROVE  /\ RequestOK(q) => RequestOK(q)'
         /\ WrittenOK(q) => WrittenOK(q)'
         /\ BlamedOK(q) => BlamedOK(q)'
         /\ \A c, p : Served(q, c, p)' <=> Served(q, c, p)
<1>1. /\ kind'[q] = kind[q] /\ at'[q] = at[q] /\ chain'[q] = chain[q] /\ written'[q] = written[q]
      /\ reply'[q] = reply[q] /\ cause'[q] = cause[q]
  BY DEF Apart
<1>2. RequestOK(q) => RequestOK(q)'
  BY <1>1 DEF RequestOK, ChainOK, Suspended
<1>3. WrittenOK(q) => WrittenOK(q)'
  BY <1>1 DEF WrittenOK
<1>4. BlamedOK(q) => BlamedOK(q)'
  BY <1>1 DEF BlamedOK, Unblamed
<1>5. \A c, p : Served(q, c, p)' <=> Served(q, c, p)
  BY <1>1 DEF Served, Lease, Suspended
<1> QED
  BY <1>2, <1>3, <1>4, <1>5

(* The chains of the other requests, and of this one after its step. *)
LEMMA UsersThen ==
  ASSUME NEW r \in Request, Apart(r), NEW p, NEW mine \in SUBSET Nat,
         \A c \in Nat : Served(r, c, p)' <=> c \in mine
  PROVE  Users(p)' = Others(r, p) \cup {<<r, c>> : c \in mine}
<1>1. ASSUME NEW x \in Chains
      PROVE  Served(x[1], x[2], p)' <=> (Served(x[1], x[2], p) /\ x[1] # r) \/ x \in {<<r, c>> : c \in mine}
  <2>1. x[1] \in Request /\ x[2] \in Nat /\ x = <<x[1], x[2]>>
    BY DEF Chains
  <2>2. CASE x[1] = r
    <3>1. Served(x[1], x[2], p)' <=> x[2] \in mine
      BY <2>1, <2>2
    <3>2. x \in {<<r, c>> : c \in mine} <=> x[2] \in mine
      BY <2>1, <2>2
    <3> QED
      BY <2>2, <3>1, <3>2
  <2>3. CASE x[1] # r
    <3>1. Served(x[1], x[2], p)' <=> Served(x[1], x[2], p)
      BY <2>1, <2>3, OthersStay
    <3>2. x \notin {<<r, c>> : c \in mine}
      BY <2>1, <2>3
    <3> QED
      BY <2>3, <3>1, <3>2
  <2> QED
    BY <2>2, <2>3
<1>2. {<<r, c>> : c \in mine} \subseteq Chains
  BY DEF Chains
<1> QED
  BY <1>1, <1>2 DEF Users, Others

(* The states of a chain that begins, and of one that ended. *)
LEMMA BegunRecord ==
  ASSUME NEW leases, leases[1].queries \in Int
  PROVE  Begun(leases) \in ChainType /\ Begun(leases).lease = 1 /\ Begun(leases).failure = ""
BY DEF Begun, ChainType, Failures

LEMMA EndedRecord ==
  ASSUME NEW why \in Failures
  PROVE  Ended(why) \in ChainType /\ Ended(why).lease = 0 /\ Ended(why).failure = why
BY DEF Ended, ChainType

(* r is answered, with the pools in state ps. *)
LEMMA Answered ==
  ASSUME Typed, NEW r \in Request, NEW answer, NEW i, NEW why, Answer(r, answer, i, why),
         Apart(r), NEW ps \in [Pool -> PoolType], pools' = ps,
         \A p \in Pool : Serves(ps[p], Others(r, p))
  PROVE  /\ RequestOK(r)' /\ PoolsOK'
         /\ at' \in [Request -> Nat]
         /\ DOMAIN chain' = Request /\ DOMAIN reply' = Request /\ DOMAIN cause' = Request
         /\ at'[r] = 0 /\ reply'[r] = answer /\ cause'[r][1] = i /\ cause'[r][2] = why
<1>1. /\ at' \in [Request -> Nat] /\ DOMAIN chain' = Request /\ DOMAIN reply' = Request
      /\ DOMAIN cause' = Request
      /\ at'[r] = 0 /\ chain'[r] = <<>> /\ reply'[r] = answer /\ cause'[r][1] = i /\ cause'[r][2] = why
  BY DEF Answer, Typed
<1>2. RequestOK(r)'
  BY <1>1 DEF RequestOK
<1>3. ASSUME NEW p \in Pool PROVE Serves(ps[p], Users(p)')
  <2>1. \A c \in Nat : ~Served(r, c, p)'
    BY <1>1 DEF Served
  <2>2. Users(p)' = Others(r, p) \cup {<<r, c>> : c \in {}}
    BY <2>1, UsersThen
  <2>3. Users(p)' = Others(r, p)
    BY <2>2
  <2> QED
    BY <2>3
<1>4. PoolsOK'
  BY <1>3 DEF PoolsOK, Serves
<1> QED
  BY <1>1, <1>2, <1>4

(* r has just begun await i of its service. *)
LEMMA FreshAwait ==
  ASSUME NEW r \in Request, NEW k \in Kind, NEW i \in 1..Len(Service[k]), i # 0,
         kind'[r] = k, at'[r] = i,
         chain'[r] = [c \in DOMAIN Service[k][i].chains |-> Begun(Service[k][i].chains[c])]
  PROVE  /\ RequestOK(r)'
         /\ \A c \in Nat : \A p \in Pool : Served(r, c, p)' <=> c \in Asking(Service[k][i], p)
<1> DEFINE chains == Service[k][i].chains
<1>1. Suspended(r)' = Service[k][i]
  BY DEF Suspended
<1>2. ASSUME NEW c \in DOMAIN chains
      PROVE  chain'[r][c] \in ChainType /\ ChainOK(r, i, c)' /\ chain'[r][c].lease = 1
  <2>1. 1 \in 0..Len(chains[c]) /\ chains[c][1].queries \in Int
    BY ChainFacts
  <2>2. chain'[r][c] = Begun(chains[c])
    OBVIOUS
  <2>3. chain'[r][c] \in ChainType /\ chain'[r][c].failure = "" /\ chain'[r][c].lease = 1
    <3> DEFINE leases == chains[c]
    <3>1. leases[1].queries \in Int /\ chain'[r][c] = Begun(leases)
      BY <2>1, <2>2
    <3> HIDE DEF leases
    <3>2. Begun(leases) \in ChainType /\ Begun(leases).failure = "" /\ Begun(leases).lease = 1
      BY <3>1, BegunRecord
    <3> QED
      BY <3>1, <3>2
  <2>4. CanFail(k, i, chain'[r][c].failure)
    BY <2>3 DEF CanFail
  <2> QED
    BY <2>1, <2>3, <2>4 DEF ChainOK
<1>3. chain'[r] \in [DOMAIN chains -> ChainType]
  BY <1>2
<1>4. RequestOK(r)'
  BY <1>1, <1>2, <1>3 DEF RequestOK
<1>5. ASSUME NEW c \in Nat, NEW p \in Pool PROVE Served(r, c, p)' <=> c \in Asking(Service[k][i], p)
  <2>1. CASE c \in DOMAIN chains
    <3>1. Lease(r, c)' = chains[c][1]
      BY <1>1, <1>2, <2>1 DEF Lease
    <3>2. at'[r] # 0 /\ c \in DOMAIN chain'[r] /\ chain'[r][c].lease = 1
      BY <1>2, <1>3, <2>1
    <3>3. c \in Asking(Service[k][i], p) <=> chains[c][1].pool = p
      BY <2>1 DEF Asking
    <3> HIDE DEF chains
    <3> QED
      BY <3>1, <3>2, <3>3 DEF Served
  <2>2. CASE c \notin DOMAIN chains
    BY <1>3, <2>2 DEF Served, Asking
  <2> QED
    BY <2>1, <2>2
<1> QED
  BY <1>4, <1>5

(* What came of await i: it is under way, it was past the last, or it was  *)
(* refused.                                                                *)
Went(r, k, w, i) ==
  /\ RequestOK(r)' /\ PoolsOK'
  /\ at' \in [Request -> Nat]
  /\ DOMAIN chain' = Request /\ DOMAIN reply' = Request /\ DOMAIN cause' = Request
  /\ \/ at'[r] = i /\ i \in 1..Len(Service[k]) /\ cause' = cause
     \/ at'[r] = 0 /\ i > Len(Service[k]) /\ reply'[r] = Success(k) /\ cause'[r][1] = i /\ cause'[r][2] = ""
     \/ /\ at'[r] = 0 /\ i \in 1..Len(Service[k]) /\ Stops(k, w, i)
        /\ reply'[r] = Refusal(k, i, w) /\ cause'[r][1] = i /\ cause'[r][2] = w

(* r goes on with await i of its service, with the pools in state ps. *)
LEMMA GoesOn ==
  ASSUME Typed, NEW r \in Request, NEW k \in Kind, kind'[r] = k, NEW w, NEW i \in Nat \ {0},
         Apart(r), NEW ps \in [Pool -> PoolType],
         \A p \in Pool : Serves(ps[p], Others(r, p)),
         GoOn(r, k, w, i, ps)
  PROVE  Went(r, k, w, i)
<1> SUFFICES /\ RequestOK(r)' /\ PoolsOK'
             /\ at' \in [Request -> Nat]
             /\ DOMAIN chain' = Request /\ DOMAIN reply' = Request /\ DOMAIN cause' = Request
             /\ \/ at'[r] = i /\ i \in 1..Len(Service[k]) /\ cause' = cause
                \/ at'[r] = 0 /\ i > Len(Service[k]) /\ reply'[r] = Success(k) /\ cause'[r][1] = i /\ cause'[r][2] = ""
                \/ /\ at'[r] = 0 /\ i \in 1..Len(Service[k]) /\ Stops(k, w, i)
                   /\ reply'[r] = Refusal(k, i, w) /\ cause'[r][1] = i /\ cause'[r][2] = w
  BY DEF Went
<1>0. Len(Service[k]) \in Nat
  BY ServiceFacts
<1>1. CASE i > Len(Service[k])
  <2>1. Answer(r, Success(k), i, "") /\ pools' = ps
    BY <1>1 DEF GoOn
  <2> DEFINE answer == Success(k)
             why == ""
  <2> HIDE DEF answer, why
  <2>2. Answer(r, answer, i, why)
    BY <2>1 DEF answer, why
  <2>3. /\ RequestOK(r)' /\ PoolsOK'
        /\ at' \in [Request -> Nat]
        /\ DOMAIN chain' = Request /\ DOMAIN reply' = Request /\ DOMAIN cause' = Request
        /\ at'[r] = 0 /\ reply'[r] = answer /\ cause'[r][1] = i /\ cause'[r][2] = why
    BY <2>1, <2>2, Answered
  <2> QED
    BY <1>1, <2>3 DEF answer, why
<1>2. CASE ~(i > Len(Service[k])) /\ Stops(k, w, i)
  <2> DEFINE answer == Refusal(k, i, w)
  <2>1. Answer(r, answer, i, w) /\ pools' = ps
    BY <1>2 DEF GoOn, Refusal
  <2> HIDE DEF answer
  <2>2. i \in 1..Len(Service[k])
    BY <1>0, <1>2
  <2>3. /\ RequestOK(r)' /\ PoolsOK'
        /\ at' \in [Request -> Nat]
        /\ DOMAIN chain' = Request /\ DOMAIN reply' = Request /\ DOMAIN cause' = Request
        /\ at'[r] = 0 /\ reply'[r] = answer /\ cause'[r][1] = i /\ cause'[r][2] = w
    BY <2>1, Answered
  <2> QED
    BY <1>2, <2>2, <2>3 DEF answer
<1>3. CASE ~(i > Len(Service[k])) /\ ~Stops(k, w, i)
  <2> DEFINE await == Service[k][i]
             chains == await.chains
  <2>0. i \in 1..Len(Service[k])
    BY <1>0, <1>3
  <2>1. PICK n \in Nat : DOMAIN chains = 1..n
    BY <2>0, AwaitFacts
  <2>2. /\ at' = [at EXCEPT ![r] = i]
        /\ chain' = [chain EXCEPT ![r] = [c \in DOMAIN chains |-> Begun(chains[c])]]
        /\ pools' = Started(ps, r, await)
        /\ UNCHANGED <<reply, cause>>
    BY <1>3 DEF GoOn
  <2>3. \A c \in DOMAIN chains :
          Len(chains[c]) \in Nat \ {0} /\ DOMAIN chains[c] = 1..Len(chains[c])
          /\ \A l \in DOMAIN chains[c] : chains[c][l].queries \in {1, 2}
    BY <2>0, ChainFacts
  <2>4. /\ at' \in [Request -> Nat] /\ at'[r] = i
        /\ DOMAIN chain' = Request /\ DOMAIN reply' = Request /\ DOMAIN cause' = Request
        /\ chain'[r] = [c \in DOMAIN chains |-> Begun(chains[c])]
    BY <2>2 DEF Typed
  <2>6. RequestOK(r)' /\ \A c \in Nat : \A p \in Pool : Served(r, c, p)' <=> c \in Asking(await, p)
    BY <2>0, <2>4, FreshAwait DEF await
  <2>7. ASSUME NEW p \in Pool
        PROVE  Started(ps, r, await)[p] \in PoolType /\ Serves(Started(ps, r, await)[p], Users(p)')
    <3> DEFINE others == Others(r, p)
    <3>1. \A c \in Nat : Served(r, c, p)' <=> c \in Asking(await, p)
      BY <2>6
    <3>2. Asking(await, p) \in SUBSET Nat
      BY <2>1 DEF Asking
    <3>3. Users(p)' = others \cup {<<r, c>> : c \in Asking(await, p)}
      BY <3>1, <3>2, UsersThen
    <3>4. Serves(ps[p], others) /\ \A c \in Nat : <<r, c>> \notin others
      BY DEF Others
    <3> HIDE DEF others
    <3>5. /\ Started(ps, r, await)[p] \in PoolType
          /\ Serves(Started(ps, r, await)[p], others \cup {<<r, c>> : c \in Asking(await, p)})
      BY <2>1, <3>4, Starts
    <3> QED
      BY <3>3, <3>5
  <2>8. PoolsOK'
    <3>1. Started(ps, r, await) \in [Pool -> PoolType]
      <4>1. Started(ps, r, await) = [p \in Pool |-> Started(ps, r, await)[p]]
        BY DEF Started
      <4> QED
        BY <2>7, <4>1
    <3> QED
      BY <2>2, <2>7, <3>1 DEF PoolsOK
  <2> QED
    BY <2>0, <2>2, <2>4, <2>6, <2>8
<1> QED
  BY <1>1, <1>2, <1>3

(* What is known of a request that sends a query. *)
LEMMA Sending ==
  ASSUME Typed, NEW r \in Request, RequestOK(r), NEW c \in DOMAIN chain[r], Sends(r, c)
  PROVE  /\ kind[r] \in Kind /\ at[r] \in 1..Len(Service[kind[r]]) /\ at[r] # 0
         /\ \E n \in Nat : /\ DOMAIN chain[r] = 1..n /\ chain[r] \in [1..n -> ChainType]
                           /\ Len(Service[kind[r]][at[r]].chains) = n
         /\ c \in Nat
         /\ chain[r][c].lease \in 1..Len(Suspended(r).chains[c])
         /\ DOMAIN Suspended(r).chains[c] = 1..Len(Suspended(r).chains[c])
         /\ Len(Suspended(r).chains[c]) \in Nat
<1>1. at[r] # 0
  BY DEF Sends
<1>2. /\ kind[r] \in Kind /\ at[r] \in 1..Len(Service[kind[r]])
      /\ chain[r] \in [DOMAIN Suspended(r).chains -> ChainType]
      /\ \A d \in DOMAIN chain[r] : ChainOK(r, at[r], d)
  BY <1>1 DEF RequestOK
<1>3. PICK n \in Nat : /\ Len(Service[kind[r]][at[r]].chains) = n
                       /\ DOMAIN Service[kind[r]][at[r]].chains = 1..n
  BY <1>2, AwaitFacts
<1>4. Suspended(r) = Service[kind[r]][at[r]]
  BY DEF Suspended
<1>5. /\ Len(Suspended(r).chains[c]) \in Nat
      /\ DOMAIN Suspended(r).chains[c] = 1..Len(Suspended(r).chains[c])
  BY <1>2, <1>4, ChainFacts
<1>6. chain[r][c].lease # 0 /\ chain[r][c].lease \in 0..Len(Suspended(r).chains[c])
  BY <1>2, <1>4 DEF Sends, ChainOK
<1>7. chain[r][c].lease \in 1..Len(Suspended(r).chains[c])
  BY <1>5, <1>6
<1>8. /\ chain[r] \in [1..n -> ChainType] /\ DOMAIN chain[r] = 1..n
  BY <1>2, <1>3, <1>4
<1> QED
  BY <1>1, <1>2, <1>3, <1>5, <1>7, <1>8

(* Its connection is given back. *)
LEMMA GivesBack ==
  ASSUME PoolsOK, NEW r \in Request, NEW c \in Nat, c \in DOMAIN chain[r], Sends(r, c)
  PROVE  LET ps == Released(pools, Lease(r, c).pool, <<r, c>>) IN
         ps \in [Pool -> PoolType] /\ \A p \in Pool : Serves(ps[p], Users(p) \ {<<r, c>>})
<1> DEFINE p0 == Lease(r, c).pool
           x == <<r, c>>
           ps == Released(pools, p0, x)
<1>1. pools \in [Pool -> PoolType] /\ \A p \in Pool : Serves(pools[p], Users(p))
  BY DEF PoolsOK
<1>2. \A p : x \in Users(p) <=> p = p0
  <2>1. \A p : Served(r, c, p) <=> p = p0
    BY DEF Sends, Served
  <2>2. x \in Chains /\ x[1] = r /\ x[2] = c
    BY DEF Chains
  <2> QED
    BY <2>1, <2>2 DEF Users
<1>3. p0 \in Pool => x \in pools[p0].busy
  BY DEF Sends
<1> HIDE DEF p0, x
<1>4. CASE p0 \notin Pool
  <2>1. ps = pools
    BY <1>4 DEF Released
  <2>2. \A p \in Pool : Users(p) \ {x} = Users(p)
    BY <1>2, <1>4
  <2> QED
    BY <1>1, <2>1, <2>2 DEF p0, x
<1>5. CASE p0 \in Pool
  <2>1. /\ ps \in [Pool -> PoolType]
        /\ Serves(ps[p0], Users(p0) \ {x})
        /\ \A q \in Pool \ {p0} : ps[q] = pools[q]
    BY <1>1, <1>3, <1>5, Releases
  <2>2. ASSUME NEW p \in Pool PROVE Serves(ps[p], Users(p) \ {x})
    <3>1. CASE p = p0
      BY <2>1, <3>1
    <3>2. CASE p # p0
      <4>1. Users(p) \ {x} = Users(p) /\ ps[p] = pools[p]
        BY <1>2, <2>1, <3>2
      <4> QED
        BY <1>1, <4>1
    <3> QED
      BY <3>1, <3>2
  <2> QED
    BY <2>1, <2>2 DEF p0, x
<1> QED
  BY <1>4, <1>5

(* Functions on an initial segment are sequences. *)
LEMMA AsSequence ==
  ASSUME NEW n \in Nat, NEW S, NEW f \in [1..n -> S]
  PROVE  f \in Seq(S) /\ Len(f) = n
OBVIOUS

(* The invariant after a step, if it holds of the request that made it. *)
LEMMA Together ==
  ASSUME IndInv, NEW r \in Request, Apart(r), Typed', RequestOK(r)', WrittenOK(r)', BlamedOK(r)', PoolsOK'
  PROVE  IndInv'
<1>1. ASSUME NEW q \in Request PROVE (RequestOK(q) /\ WrittenOK(q) /\ BlamedOK(q))'
  <2>1. CASE q = r
    BY <2>1
  <2>2. CASE q # r
    <3>1. q \in Request \ {r}
      BY <2>2
    <3>2. RequestOK(q) /\ WrittenOK(q) /\ BlamedOK(q)
      BY DEF IndInv
    <3> QED
      BY <3>1, <3>2, OthersStay
  <2> QED
    BY <2>1, <2>2
<1> QED
  BY <1>1 DEF IndInv

(* What the await before last of an administrator's request did, and the   *)
(* last can find.                                                          *)
LEMMA ReadsBack ==
  ASSUME NEW k \in Kind, NEW i \in 1..Len(Service[k])
  PROVE  /\ Service[k][i].writes => k \in {"updateNode", "createToken"} /\ i = 2
         /\ k \in {"updateNode", "createToken"} => Len(Service[k]) = 3
         /\ k \in {"updateNode", "createToken"} /\ i = 3 =>
              /\ \A why : CanFail(k, i, why) => why \in {"", "unknown", "database"}
              /\ \A w : Stops(k, w, i) => w = "input"
<1>1. Fits(k, i, Service[k][i])
  BY ServiceFacts
<1>2. Service[k][i].writes => k \in {"updateNode", "createToken"} /\ i = 2
  BY <1>1 DEF Fits
<1>3. k \in {"updateNode", "createToken"} => Len(Service[k]) = 3
  BY ServiceFacts
<1>4. ASSUME k \in {"updateNode", "createToken"}, i = 3
      PROVE  /\ \A why : CanFail(k, i, why) => why \in {"", "unknown", "database"}
             /\ \A w : Stops(k, w, i) => w = "input"
  <2>1. Service[k][i].guards => i = 1
    BY <1>1 DEF Fits
  <2>2. ~Service[k][i].guards
    BY <1>4, <2>1
  <2>3. \A c \in DOMAIN Service[k][i].chains : \A l \in DOMAIN Service[k][i].chains[c] :
          Service[k][i].chains[c][l].none \in {"", "unknown"}
    BY <1>1, <1>4 DEF Fits
  <2>4. \A why : CanFail(k, i, why) => why \in {"", "unknown", "database"}
    BY <2>2, <2>3 DEF CanFail
  <2>5. i # (IF Admin(k) THEN 2 ELSE 1)
    BY <1>4
  <2>6. \A w : Stops(k, w, i) => w = "input"
    BY <2>2, <2>5 DEF Stops
  <2> QED
    BY <2>4, <2>6
<1> QED
  BY <1>2, <1>3, <1>4

(* The status of a success. *)
LEMMA Succeeds ==
  \A k : Success(k).http = IF k \in {"updateNode", "createToken", "tokenIcon"} THEN "201" ELSE "200"
BY DEF Success

(* Going on is a step of one request. *)
LEMMA GoOnApart ==
  ASSUME Typed, NEW r \in Request, NEW k, NEW w, NEW j, NEW ps, GoOn(r, k, w, j, ps),
         \A q \in Request \ {r} : kind'[q] = kind[q] /\ written'[q] = written[q]
  PROVE  Apart(r)
<1>1. CASE j > Len(Service[k])
  BY <1>1 DEF GoOn, Answer, Apart, Typed
<1>2. CASE ~(j > Len(Service[k])) /\ Stops(k, w, j)
  BY <1>2 DEF GoOn, Answer, Apart, Typed
<1>3. CASE ~(j > Len(Service[k])) /\ ~Stops(k, w, j)
  <2>1. \E v : at' = [at EXCEPT ![r] = j] /\ chain' = [chain EXCEPT ![r] = v]
               /\ UNCHANGED <<reply, cause>>
    BY <1>3 DEF GoOn
  <2> QED
    BY <2>1 DEF Apart, Typed
<1> QED
  BY <1>1, <1>2, <1>3

(* A request that goes on: with the next await, with a refusal or with     *)
(* success.                                                                *)
LEMMA GoOnKeeps ==
  ASSUME IndInv, NEW r \in Request, NEW k \in Kind, NEW w, NEW j \in Nat \ {0},
         kind'[r] = k, \A q \in Request \ {r} : kind'[q] = kind[q] /\ written'[q] = written[q],
         Arrived',
         written'[r] => k \in {"updateNode", "createToken"} /\ j \in {3, 4},
         Unblamed(r),
         NEW ps \in [Pool -> PoolType], \A p \in Pool : Serves(ps[p], Others(r, p)),
         GoOn(r, k, w, j, ps)
  PROVE  IndInv'
<1>1. Typed
  BY DEF IndInv
<1>2. Apart(r)
  BY <1>1, GoOnApart
<1>3. /\ RequestOK(r)' /\ PoolsOK'
      /\ at' \in [Request -> Nat]
      /\ DOMAIN chain' = Request /\ DOMAIN reply' = Request /\ DOMAIN cause' = Request
      /\ \/ at'[r] = j /\ j \in 1..Len(Service[k]) /\ cause' = cause
         \/ at'[r] = 0 /\ j > Len(Service[k]) /\ reply'[r] = Success(k) /\ cause'[r][1] = j /\ cause'[r][2] = ""
         \/ /\ at'[r] = 0 /\ j \in 1..Len(Service[k]) /\ Stops(k, w, j)
            /\ reply'[r] = Refusal(k, j, w) /\ cause'[r][1] = j /\ cause'[r][2] = w
  <2>1. Went(r, k, w, j)
    BY <1>1, <1>2, GoesOn
  <2> QED
    BY <2>1 DEF Went
<1>4. Typed'
  BY <1>3 DEF Typed
<1>5. k # "" /\ Len(Service[k]) \in Nat
  <2>1. k \in Routes
    BY RequestsAssumption
  <2> QED
    BY <2>1, ServiceFacts DEF Routes
<1>6. CASE at'[r] = j /\ j \in 1..Len(Service[k]) /\ cause' = cause
  <2>1. WrittenOK(r)'
    <3>1. ASSUME written'[r] PROVE j = 3
      <4>1. Len(Service[k]) = 3 /\ j \in {3, 4}
        BY <3>1, ServiceFacts
      <4> QED
        BY <1>6, <4>1
    <3> QED
      BY <1>6, <3>1 DEF WrittenOK
  <2>2. BlamedOK(r)'
    BY <1>6 DEF BlamedOK, Unblamed
  <2> QED
    BY <1>2, <1>3, <1>4, <2>1, <2>2, Together
<1>7. CASE at'[r] = 0 /\ j > Len(Service[k]) /\ reply'[r] = Success(k) /\ cause'[r][1] = j /\ cause'[r][2] = ""
  <2>1. WrittenOK(r)'
    <3>1. ASSUME written'[r] PROVE reply'[r].http = "201" /\ kind'[r] \in {"updateNode", "createToken"}
      <4>1. k \in {"updateNode", "createToken", "tokenIcon"}
        BY <3>1
      <4>2. Success(k).http = "201"
        BY <4>1, Succeeds
      <4> QED
        BY <1>7, <3>1, <4>2
    <3> QED
      BY <1>7, <3>1 DEF WrittenOK
  <2>2. BlamedOK(r)'
    BY <1>5, <1>7 DEF BlamedOK
  <2> QED
    BY <1>2, <1>3, <1>4, <2>1, <2>2, Together
<1>8. CASE /\ at'[r] = 0 /\ j \in 1..Len(Service[k]) /\ Stops(k, w, j)
           /\ reply'[r] = Refusal(k, j, w) /\ cause'[r][1] = j /\ cause'[r][2] = w
  <2>1. WrittenOK(r)'
    <3>1. ASSUME written'[r] PROVE j = 3 /\ w = "input"
      <4>1. Len(Service[k]) = 3 /\ k \in {"updateNode", "createToken"} /\ j \in {3, 4}
        BY <3>1, ServiceFacts
      <4>2. j = 3
        BY <1>8, <4>1
      <4> QED
        BY <1>8, <4>1, <4>2, ReadsBack
    <3> QED
      BY <1>8, <3>1 DEF WrittenOK
  <2>2. Told(k, j, w, reply'[r])
    BY <1>8, StopEnds
  <2>3. BlamedOK(r)'
    BY <1>5, <1>8, <2>2 DEF BlamedOK, Told
  <2> QED
    BY <1>2, <1>3, <1>4, <2>1, <2>3, Together
<1> QED
  BY <1>3, <1>6, <1>7, <1>8

(* The await of r ends: it goes on, or it is answered. *)
LEMMA EndOfAwait ==
  ASSUME IndInv, NEW r \in Request, at[r] # 0, UNCHANGED <<kind, wrong>>,
         NEW n \in Nat, Len(Suspended(r).chains) = n, NEW chains \in [1..n -> ChainType],
         \A d \in 1..n : CanFail(kind[r], at[r], chains[d].failure),
         NEW ps \in [Pool -> PoolType], \A p \in Pool : Serves(ps[p], Others(r, p)),
         AwaitEnds(r, chains, ps)
  PROVE  IndInv'
<1> DEFINE k == kind[r]
           i == at[r]
           failed == {d \in DOMAIN chains : chains[d].failure # ""}
<1>1. /\ Typed /\ RequestOK(r) /\ WrittenOK(r) /\ BlamedOK(r)
  BY DEF IndInv
<1>2. k \in Kind /\ i \in 1..Len(Service[k]) /\ i \in Nat \ {0} /\ Len(Service[k]) \in Nat
  BY <1>1, ServiceFacts DEF RequestOK, Typed, Arrived
<1>3. /\ written' = [written EXCEPT ![r] = @ \/ (Suspended(r).writes /\ failed = {})]
      /\ GoOnOrThrow(r, chains, failed, ps)
  BY DEF AwaitEnds
<1>4. Suspended(r) = Service[k][i]
  BY DEF Suspended
<1>5. /\ written' \in [Request -> BOOLEAN] /\ \A q \in Request \ {r} : written'[q] = written[q]
      /\ written'[r] => written[r] \/ (Service[k][i].writes /\ failed = {})
  <2> DEFINE v == written[r] \/ (Suspended(r).writes /\ failed = {})
  <2>1. v \in BOOLEAN /\ written' = [written EXCEPT ![r] = v] /\ written \in [Request -> BOOLEAN]
    BY <1>1, <1>3 DEF Typed, Arrived
  <2>2. v => written[r] \/ (Service[k][i].writes /\ failed = {})
    BY <1>4
  <2> HIDE DEF v
  <2> QED
    BY <2>1, <2>2
<1> HIDE DEF k, i
<1>6. kind'[r] = k /\ at[r] = i /\ \A q \in Request : kind'[q] = kind[q]
  BY DEF k, i
<1>7. CASE failed = {}
  <2>1. GoOn(r, k, wrong[r], i + 1, ps)
    BY <1>3, <1>7 DEF GoOnOrThrow, k, i
  <2>2. written'[r] => k \in {"updateNode", "createToken"} /\ i + 1 \in {3, 4}
    <3>1. CASE written[r]
      <4>1. k \in {"updateNode", "createToken"} /\ at[r] \in {0, 3}
        BY <1>1, <3>1 DEF WrittenOK, k
      <4>2. i = 3
        BY <1>6, <4>1
      <4>3. i + 1 \in {3, 4}
        BY <4>2
      <4> QED
        BY <4>1, <4>3, Zenon
    <3>2. CASE Service[k][i].writes
      <4>1. k \in {"updateNode", "createToken"} /\ i = 2
        BY <1>2, <3>2, ReadsBack
      <4>2. i + 1 \in {3, 4}
        BY <4>1
      <4> QED
        BY <4>1, <4>2, Zenon
    <3> QED
      BY <1>5, <3>1, <3>2
  <2>3. Unblamed(r)
    BY <1>1 DEF BlamedOK
  <2>4. Arrived'
    BY <1>1, <1>5 DEF Typed, Arrived
  <2>5. i + 1 \in Nat \ {0}
    BY <1>2
  <2> QED
    BY <1>2, <1>5, <1>6, <2>1, <2>2, <2>3, <2>4, <2>5, GoOnKeeps
<1>8. CASE failed # {}
  <2> DEFINE m == Min(failed)
             why == chains[m].failure
  <2>1. m \in failed
    <3>1. failed \in SUBSET Nat
      <4>1. DOMAIN chains = 1..n
        OBVIOUS
      <4>2. failed \subseteq 1..n
        BY <4>1
      <4>3. 1..n \subseteq Nat
        OBVIOUS
      <4> HIDE DEF failed
      <4> QED
        BY <4>2, <4>3
    <3> HIDE DEF failed
    <3> QED
      BY <1>8, <3>1, FirstOfSome
  <2>2. m \in 1..n /\ why # "" /\ CanFail(k, i, why)
    BY <2>1 DEF k, i
  <2>3. Len(chains) = n /\ Len(Service[k][i].chains) = n
    BY <1>4, AsSequence
  <2>4. Answer(r, ErrorReply(k, i, why, Len(chains) > 1), i, why) /\ pools' = ps
    BY <1>3, <1>8 DEF GoOnOrThrow, k, i
  <2> HIDE DEF failed, m, why
  <2>5. Apart(r)
    BY <1>1, <1>5, <1>6, <2>4 DEF Answer, Apart, Typed
  <2> DEFINE answer == ErrorReply(k, i, why, Len(chains) > 1)
  <2>6. /\ RequestOK(r)' /\ PoolsOK'
        /\ at' \in [Request -> Nat]
        /\ DOMAIN chain' = Request /\ DOMAIN reply' = Request /\ DOMAIN cause' = Request
        /\ at'[r] = 0 /\ reply'[r] = answer /\ cause'[r][1] = i /\ cause'[r][2] = why
    <3> HIDE DEF answer
    <3> QED
      BY <1>1, <2>4, <2>5, Answered DEF answer
  <2>7. Typed'
    BY <1>1, <1>5, <2>6 DEF Typed, Arrived
  <2>8. WrittenOK(r)'
    <3>1. ASSUME written'[r] PROVE k \in {"updateNode", "createToken"} /\ i = 3 /\ why \in {"unknown", "database"}
      <4>1. k \in {"updateNode", "createToken"} /\ i = 3
        BY <1>1, <1>2, <1>5, <1>8, <3>1 DEF WrittenOK, k, i
      <4> QED
        BY <1>2, <2>2, <4>1, ReadsBack
    <3> QED
      BY <1>6, <2>6, <3>1 DEF WrittenOK
  <2>9. Told(k, i, why, answer)
    BY <1>2, <2>2, <2>3, FailureEnds
  <2>10. BlamedOK(r)'
    <3>1. k # ""
      <4>1. k \in Routes
        BY <1>2, RequestsAssumption
      <4> QED
        BY <4>1 DEF Routes
    <3> HIDE DEF answer
    <3> QED
      BY <1>6, <2>6, <2>9, <3>1 DEF BlamedOK, Told
  <2> QED
    BY <2>5, <2>6, <2>7, <2>8, <2>10, Together
<1> QED
  BY <1>7, <1>8

(* Chain c of r, and nothing else of the requests, gets into a state. *)
Within(r, c, state) ==
  /\ chain' = [chain EXCEPT ![r] = [chain[r] EXCEPT ![c] = state]]
  /\ UNCHANGED <<kind, wrong, at, written, reply, cause>>

(* The pool that a chain c of r in such a state needs. *)
Needs(r, c, state, p) == state.lease # 0 /\ Suspended(r).chains[c][state.lease].pool = p

(* Such a step changes that chain alone. *)
LEMMA WithinChains ==
  ASSUME Typed, NEW r \in Request, RequestOK(r), NEW c \in DOMAIN chain[r], at[r] # 0,
         NEW state, Within(r, c, state)
  PROVE  /\ Apart(r)
         /\ DOMAIN chain' = Request /\ DOMAIN chain'[r] = DOMAIN chain[r]
         /\ chain'[r][c] = state
         /\ \A d \in DOMAIN chain[r] \ {c} : chain'[r][d] = chain[r][d]
         /\ Suspended(r)' = Suspended(r) /\ at' = at /\ kind' = kind
<1> DEFINE chains == [chain[r] EXCEPT ![c] = state]
<1>1. DOMAIN chains = DOMAIN chain[r]
  OBVIOUS
<1>2. chains[c] = state /\ \A d \in DOMAIN chain[r] \ {c} : chains[d] = chain[r][d]
  OBVIOUS
<1>3. chain' = [chain EXCEPT ![r] = chains] /\ UNCHANGED <<kind, wrong, at, written, reply, cause>>
  BY DEF Within
<1> HIDE DEF chains
<1>4. DOMAIN chain' = Request /\ chain'[r] = chains /\ \A q \in Request \ {r} : chain'[q] = chain[q]
  BY <1>3 DEF Typed
<1>5. Apart(r)
  BY <1>3, <1>4 DEF Apart
<1>6. Suspended(r)' = Suspended(r)
  BY <1>3 DEF Suspended
<1> QED
  BY <1>1, <1>2, <1>3, <1>4, <1>5, <1>6

(* It changes what that chain needs of the pools alone. *)
LEMMA WithinUsers ==
  ASSUME Typed, NEW r \in Request, RequestOK(r), NEW c \in DOMAIN chain[r], at[r] # 0, c \in Nat,
         NEW state, Within(r, c, state), NEW p
  PROVE  Users(p)' = (Users(p) \ {<<r, c>>}) \cup {x \in {<<r, c>>} : Needs(r, c, state, p)}
<1> DEFINE needs == Needs(r, c, state, p)
           x == <<r, c>>
<1>1. ASSUME NEW y \in Chains, y # x PROVE Served(y[1], y[2], p)' <=> Served(y[1], y[2], p)
  <2>1. y[1] \in Request /\ y[2] \in Nat /\ y = <<y[1], y[2]>>
    BY DEF Chains
  <2>2. CASE y[1] # r
    BY <2>1, <2>2, WithinChains, OthersStay
  <2>3. CASE y[1] = r
    <3>1. y[2] # c
      BY <1>1, <2>1, <2>3
    <3>2. y[2] \in DOMAIN chain'[r] <=> y[2] \in DOMAIN chain[r]
      BY WithinChains
    <3>3. y[2] \in DOMAIN chain[r] => chain'[r][y[2]] = chain[r][y[2]]
      BY <3>1, WithinChains
    <3>4. Suspended(r)' = Suspended(r) /\ at' = at
      BY WithinChains
    <3> QED
      BY <2>3, <3>2, <3>3, <3>4 DEF Served, Lease
  <2> QED
    BY <2>2, <2>3
<1>2. Served(r, c, p)' <=> needs
  <2>1. /\ chain'[r][c] = state /\ Suspended(r)' = Suspended(r) /\ at'[r] # 0
        /\ c \in DOMAIN chain'[r]
    BY WithinChains
  <2> QED
    BY <2>1 DEF Served, Lease, Needs
<1>3. x \in Chains /\ x[1] = r /\ x[2] = c
  BY DEF Chains
<1> HIDE DEF needs, x
<1>4. \A y \in Chains : y \in Users(p)' <=> (IF y = x THEN needs ELSE y \in Users(p))
  BY <1>1, <1>2, <1>3 DEF Users
<1>5. Users(p)' \subseteq Chains /\ Users(p) \subseteq Chains
  BY DEF Users
<1>6. Users(p)' = (Users(p) \ {x}) \cup {y \in {x} : needs}
  BY <1>3, <1>4, <1>5
<1> QED
  BY <1>6 DEF needs, x

(* Such a step keeps the invariant, if the pools follow it. *)
LEMMA WithinKeeps ==
  ASSUME IndInv, NEW r \in Request, NEW c \in DOMAIN chain[r], at[r] # 0,
         NEW state \in ChainType, state.lease \in 0..Len(Suspended(r).chains[c]),
         CanFail(kind[r], at[r], state.failure), Within(r, c, state), PoolsOK'
  PROVE  IndInv'
<1>1. Typed /\ RequestOK(r) /\ WrittenOK(r) /\ BlamedOK(r)
  BY DEF IndInv
<1>2. /\ Apart(r)
      /\ DOMAIN chain' = Request /\ DOMAIN chain'[r] = DOMAIN chain[r]
      /\ chain'[r][c] = state
      /\ \A d \in DOMAIN chain[r] \ {c} : chain'[r][d] = chain[r][d]
      /\ Suspended(r)' = Suspended(r)
  BY <1>1, WithinChains
<1>3. UNCHANGED <<kind, wrong, at, written, reply, cause>>
  BY DEF Within
<1>4. Typed'
  BY <1>1, <1>2, <1>3 DEF Typed, Arrived
<1>5. /\ kind[r] \in Kind
      /\ at[r] \in 1..Len(Service[kind[r]])
      /\ chain[r] \in [DOMAIN Suspended(r).chains -> ChainType]
      /\ \A d \in DOMAIN chain[r] : ChainOK(r, at[r], d)
  BY <1>1 DEF RequestOK
<1>6. ASSUME NEW d \in DOMAIN chain[r] PROVE chain'[r][d] \in ChainType /\ ChainOK(r, at[r], d)'
  <2>1. CASE d = c
    BY <1>2, <1>3, <2>1 DEF ChainOK, Suspended
  <2>2. CASE d # c
    BY <1>2, <1>3, <1>5, <2>2 DEF ChainOK
  <2> QED
    BY <2>1, <2>2
<1>7. chain'[r] \in [DOMAIN Suspended(r).chains -> ChainType]
  <2>1. DOMAIN chain'[r] = DOMAIN Suspended(r).chains
    BY <1>2, <1>5
  <2>2. \E S : chain'[r] \in [DOMAIN chain[r] -> S]
    <3>1. chain' = [chain EXCEPT ![r] = [chain[r] EXCEPT ![c] = state]]
      BY DEF Within
    <3>2. chain'[r] = [chain[r] EXCEPT ![c] = state]
      BY <1>1, <3>1 DEF Typed
    <3> QED
      BY <1>5, <3>2
  <2> QED
    BY <1>5, <1>6, <2>1, <2>2
<1>8. RequestOK(r)'
  BY <1>2, <1>3, <1>5, <1>6, <1>7 DEF RequestOK
<1>9. WrittenOK(r)' /\ BlamedOK(r)'
  BY <1>1, <1>3 DEF WrittenOK, BlamedOK, Unblamed
<1> QED
  BY <1>2, <1>4, <1>8, <1>9, Together

(* A chain that has ended needs no connection. *)
LEMMA EndedUsers ==
  ASSUME Typed, NEW r \in Request, RequestOK(r), NEW c \in DOMAIN chain[r], at[r] # 0, c \in Nat,
         NEW state, state.lease = 0, Within(r, c, state), NEW p
  PROVE  Users(p)' = Users(p) \ {<<r, c>>}
<1>1. ~Needs(r, c, state, p)
  BY DEF Needs
<1>2. Users(p)' = (Users(p) \ {<<r, c>>}) \cup {x \in {<<r, c>>} : Needs(r, c, state, p)}
  BY WithinUsers
<1> QED
  BY <1>1, <1>2

(* Of an await all of whose chains but c have ended, only c needs one. *)
LEMMA LastUser ==
  ASSUME NEW r \in Request, NEW c, \A d \in DOMAIN chain[r] \ {c} : chain[r][d].lease = 0, NEW p
  PROVE  Users(p) \ {<<r, c>>} = Others(r, p)
<1>1. ASSUME NEW x \in Users(p), x # <<r, c>> PROVE x[1] # r
  <2>1. x = <<x[1], x[2]>> /\ Served(x[1], x[2], p)
    BY DEF Users, Chains
  <2>2. SUFFICES ASSUME x[1] = r PROVE FALSE
    OBVIOUS
  <2>3. x[2] # c
    BY <1>1, <2>1, <2>2
  <2>4. x[2] \in DOMAIN chain[r] /\ chain[r][x[2]].lease # 0
    BY <2>1, <2>2 DEF Served
  <2> QED
    BY <2>3, <2>4
<1>2. ASSUME NEW x \in Users(p), x[1] # r PROVE x # <<r, c>>
  BY <1>2
<1> QED
  BY <1>1, <1>2 DEF Others

(* Chain c of r ends: the others go on, or the await ends. *)
LEMMA ChainEndKeeps ==
  ASSUME IndInv, NEW r \in Request, NEW c \in DOMAIN chain[r], Sends(r, c),
         NEW failure \in Failures, CanFail(kind[r], at[r], failure), ChainEnds(r, c, failure)
  PROVE  IndInv'
<1> DEFINE ended == Ended(failure)
           chains == [chain[r] EXCEPT ![c] = ended]
           ps == Released(pools, Lease(r, c).pool, <<r, c>>)
<1>1. Typed /\ RequestOK(r) /\ PoolsOK
  BY DEF IndInv
<1>2. /\ at[r] # 0 /\ c \in Nat
      /\ chain[r][c].lease \in 1..Len(Suspended(r).chains[c])
      /\ Len(Suspended(r).chains[c]) \in Nat
  BY <1>1, Sending
<1>3. PICK n \in Nat : /\ DOMAIN chain[r] = 1..n /\ chain[r] \in [1..n -> ChainType]
                       /\ Len(Service[kind[r]][at[r]].chains) = n
  BY <1>1, Sending
<1>4. Len(Suspended(r).chains) = n
  BY <1>3 DEF Suspended
<1>5. ps \in [Pool -> PoolType] /\ \A p \in Pool : Serves(ps[p], Users(p) \ {<<r, c>>})
  BY <1>1, <1>2, GivesBack
<1>6. ended \in ChainType /\ ended.lease = 0 /\ ended.failure = failure
  BY EndedRecord
<1>7. /\ UNCHANGED <<kind, wrong>>
      /\ IF Settled(chains) THEN AwaitEnds(r, chains, ps)
         ELSE /\ chain' = [chain EXCEPT ![r] = chains]
              /\ pools' = ps
              /\ UNCHANGED <<at, written, reply, cause>>
  BY DEF ChainEnds
<1> HIDE DEF ended, ps
<1>8. /\ chains \in [1..n -> ChainType] /\ chains[c] = ended
      /\ \A d \in 1..n \ {c} : chains[d] = chain[r][d]
  BY <1>3, <1>6
<1>9. CASE Settled(chains)
  <2>1. AwaitEnds(r, chains, ps)
    BY <1>7, <1>9
  <2>2. \A d \in DOMAIN chain[r] \ {c} : chain[r][d].lease = 0
    BY <1>3, <1>8, <1>9 DEF Settled
  <2>3. \A d \in 1..n : CanFail(kind[r], at[r], chains[d].failure)
    <3>1. ASSUME NEW d \in 1..n PROVE CanFail(kind[r], at[r], chains[d].failure)
      <4>1. CASE d = c
        BY <1>6, <1>8, <4>1
      <4>2. CASE d # c
        <5>1. ChainOK(r, at[r], d)
          BY <1>1, <1>2, <1>3 DEF RequestOK
        <5> QED
          BY <1>8, <4>2, <5>1 DEF ChainOK
      <4> QED
        BY <4>1, <4>2
    <3> QED
      BY <3>1
  <2>4. \A p \in Pool : Serves(ps[p], Others(r, p))
    <3>1. \A p \in Pool : Users(p) \ {<<r, c>>} = Others(r, p)
      BY <2>2, LastUser
    <3> QED
      BY <1>5, <3>1
  <2> HIDE DEF chains
  <2> QED
    BY <1>2, <1>4, <1>5, <1>7, <1>8, <2>1, <2>3, <2>4, EndOfAwait
<1>10. CASE ~Settled(chains)
  <2>1. Within(r, c, ended) /\ pools' = ps
    BY <1>7, <1>10 DEF Within
  <2>2. \A p \in Pool : Users(p)' = Users(p) \ {<<r, c>>}
    BY <1>1, <1>2, <1>6, <2>1, EndedUsers
  <2>3. PoolsOK'
    <3>1. \A p \in Pool : Serves(ps[p], Users(p)')
      BY <1>5, <2>2
    <3> QED
      BY <1>5, <2>1, <3>1 DEF PoolsOK, Serves
  <2>4. 0 \in 0..Len(Suspended(r).chains[c])
    BY <1>2
  <2> HIDE DEF chains
  <2> QED
    BY <1>2, <1>6, <2>1, <2>3, <2>4, WithinKeeps
<1> QED
  BY <1>9, <1>10

(* One query of a database transaction less. *)
LEMMA NextQueryKeeps ==
  ASSUME IndInv, NEW r \in Request, NEW c \in DOMAIN chain[r], NextQuery(r, c)
  PROVE  IndInv'
<1> DEFINE old == chain[r][c]
           state == [old EXCEPT !.left = old.left - 1]
<1>1. Typed /\ RequestOK(r) /\ PoolsOK /\ Sends(r, c)
  BY DEF IndInv, NextQuery
<1>2. /\ at[r] # 0 /\ c \in Nat /\ old.lease \in 1..Len(Suspended(r).chains[c])
      /\ Len(Suspended(r).chains[c]) \in Nat
  BY <1>1, Sending
<1>3. old \in ChainType
  BY <1>1, Sending
<1>4. state \in ChainType /\ state.lease = old.lease /\ state.failure = old.failure
  BY <1>3 DEF ChainType
<1>5. CanFail(kind[r], at[r], old.failure)
  BY <1>1, <1>2 DEF RequestOK, ChainOK
<1>6. Within(r, c, state) /\ pools' = pools
  BY DEF NextQuery, Within
<1> HIDE DEF state
<1>7. \A p \in Pool : Users(p)' = Users(p)
  <2>1. SUFFICES ASSUME NEW p \in Pool PROVE Users(p)' = Users(p)
    OBVIOUS
  <2>2. Needs(r, c, state, p) <=> <<r, c>> \in Users(p)
    <3>1. <<r, c>> \in Chains /\ <<r, c>>[1] = r /\ <<r, c>>[2] = c
      BY <1>2 DEF Chains
    <3>2. <<r, c>> \in Users(p) <=> Served(r, c, p)
      BY <3>1 DEF Users
    <3> QED
      BY <1>2, <1>4, <3>2 DEF Needs, Served, Lease
  <2>3. Users(p)' = (Users(p) \ {<<r, c>>}) \cup {x \in {<<r, c>>} : Needs(r, c, state, p)}
    BY <1>1, <1>2, <1>6, WithinUsers
  <2> QED
    BY <2>2, <2>3
<1>8. PoolsOK'
  <2>1. pools \in [Pool -> PoolType] /\ \A p \in Pool : Serves(pools[p], Users(p)')
    BY <1>1, <1>7 DEF PoolsOK
  <2> QED
    BY <1>6, <2>1 DEF PoolsOK, Serves
<1>9. state.lease \in 0..Len(Suspended(r).chains[c])
  BY <1>2, <1>4
<1> QED
  BY <1>2, <1>4, <1>5, <1>6, <1>8, <1>9, WithinKeeps

(* It gives its connection back and asks for the next. *)
LEMMA NextLeaseKeeps ==
  ASSUME IndInv, NEW r \in Request, NEW c \in DOMAIN chain[r], NextLease(r, c)
  PROVE  IndInv'
<1> DEFINE old == chain[r][c]
           leases == Suspended(r).chains[c]
           next == leases[old.lease + 1]
           state == [old EXCEPT !.lease = old.lease + 1, !.left = next.queries]
           ps == Released(pools, Lease(r, c).pool, <<r, c>>)
           x == <<r, c>>
           q == next.pool
<1>1. Typed /\ RequestOK(r) /\ PoolsOK /\ Sends(r, c) /\ ~LastLease(r, c)
  BY DEF IndInv, NextLease
<1>2. /\ at[r] # 0 /\ c \in Nat /\ old.lease \in 1..Len(leases) /\ Len(leases) \in Nat
      /\ kind[r] \in Kind /\ at[r] \in 1..Len(Service[kind[r]])
      /\ DOMAIN leases = 1..Len(leases)
  BY <1>1, Sending
<1>3. old \in ChainType
  BY <1>1, Sending
<1>4. old.lease + 1 \in 1..Len(leases) /\ old.lease + 1 \in Nat /\ old.lease + 1 # 0
  BY <1>1, <1>2 DEF LastLease
<1>5. next.queries \in Int
  <2>1. c \in DOMAIN Service[kind[r]][at[r]].chains
    BY <1>1, <1>2 DEF RequestOK, Suspended
  <2>2. \A l \in DOMAIN Service[kind[r]][at[r]].chains[c] :
          Service[kind[r]][at[r]].chains[c][l].queries \in {1, 2}
    BY <1>2, <2>1, ChainFacts
  <2>3. leases = Service[kind[r]][at[r]].chains[c]
    BY DEF Suspended
  <2>4. old.lease + 1 \in DOMAIN leases
    BY <1>2, <1>4
  <2>5. \A l \in DOMAIN leases : leases[l].queries \in {1, 2}
    BY <2>2, <2>3
  <2> HIDE DEF leases, old
  <2> QED
    BY <2>4, <2>5
<1>6. CanFail(kind[r], at[r], old.failure)
  BY <1>1, <1>2 DEF RequestOK, ChainOK
<1>7. Within(r, c, state) /\ pools' = Acquired(ps, q, x)
  <2>1. /\ chain' = [chain EXCEPT ![r][c].lease = @ + 1, ![r][c].left = next.queries]
        /\ pools' = Acquired(ps, q, x)
        /\ UNCHANGED <<kind, wrong, at, written, reply, cause>>
    BY DEF NextLease
  <2> HIDE DEF next, ps
  <2>2. chain' = [chain EXCEPT ![r] = [chain[r] EXCEPT ![c] = state]]
    <3>1. DOMAIN chain = Request /\ c \in DOMAIN chain[r]
      BY <1>1 DEF Typed
    <3> QED
      BY <2>1, <3>1
  <2> QED
    BY <2>1, <2>2 DEF Within
<1>8. ps \in [Pool -> PoolType] /\ \A p \in Pool : Serves(ps[p], Users(p) \ {x})
  BY <1>1, <1>2, GivesBack
<1>9. x \in Chains
  BY <1>2 DEF Chains
<1>10. state \in ChainType /\ state.lease = old.lease + 1 /\ state.failure = old.failure
  <2> HIDE DEF next, leases
  <2> QED
    BY <1>3, <1>4, <1>5 DEF ChainType
<1>11. \A p : Needs(r, c, state, p) <=> p = q
  <2> HIDE DEF state, old
  <2> QED
    BY <1>4, <1>10 DEF Needs
<1> HIDE DEF state, ps, next, q
<1>12. \A p \in Pool : Users(p)' = (Users(p) \ {x}) \cup {y \in {x} : p = q}
  <2>1. SUFFICES ASSUME NEW p \in Pool PROVE Users(p)' = (Users(p) \ {x}) \cup {y \in {x} : p = q}
    OBVIOUS
  <2>2. Users(p)' = (Users(p) \ {x}) \cup {y \in {x} : Needs(r, c, state, p)}
    BY <1>1, <1>2, <1>7, WithinUsers
  <2> QED
    BY <1>11, <2>2
<1> HIDE DEF x
<1>13. PoolsOK'
  <2>1. Acquired(ps, q, x) \in [Pool -> PoolType]
        /\ \A p \in Pool : Serves(Acquired(ps, q, x)[p], Users(p)')
    <3>1. CASE q \notin Pool
      <4>1. Acquired(ps, q, x) = ps
        BY <3>1 DEF Acquired
      <4>2. \A p \in Pool : Users(p)' = Users(p) \ {x}
        BY <1>12, <3>1
      <4> QED
        BY <1>8, <4>1, <4>2
    <3>2. CASE q \in Pool
      <4> DEFINE users == Users(q) \ {x}
      <4>1. Serves(ps[q], users) /\ x \notin users
        BY <1>8, <3>2
      <4>2. /\ Acquired(ps, q, x) \in [Pool -> PoolType]
            /\ Serves(Acquired(ps, q, x)[q], users \cup {x})
            /\ \A p \in Pool \ {q} : Acquired(ps, q, x)[p] = ps[p]
        <5> HIDE DEF users
        <5> QED
          BY <1>8, <1>9, <3>2, <4>1, Acquires
      <4>3. ASSUME NEW p \in Pool PROVE Serves(Acquired(ps, q, x)[p], Users(p)')
        <5>1. CASE p = q
          <6>1. Users(p)' = users \cup {x}
            BY <1>12, <5>1
          <6> QED
            BY <4>2, <5>1, <6>1
        <5>2. CASE p # q
          <6>1. Users(p)' = Users(p) \ {x}
            BY <1>12, <5>2
          <6> QED
            BY <1>8, <4>2, <5>2, <6>1
        <5> QED
          BY <5>1, <5>2
      <4> QED
        BY <4>2, <4>3
    <3> QED
      BY <3>1, <3>2
  <2> QED
    BY <1>7, <2>1 DEF PoolsOK, Serves
<1>14. state.lease \in 0..Len(leases)
  BY <1>2, <1>4, <1>10
<1> HIDE DEF leases
<1> QED
  BY <1>2, <1>6, <1>7, <1>10, <1>13, <1>14, WithinKeeps DEF leases

(* Facts about constants that the solver is not to look for among the      *)
(* others.                                                                 *)
LEMMA One == 1 \in Nat \ {0}
OBVIOUS

LEMMA NoCause == <<0, "">>[2] = ""
OBVIOUS

(* Every route has a name. *)
LEMMA RouteNames == "" \notin Kind
BY RequestsAssumption DEF Routes

(* The last query of a chain is answered. *)
LEMMA SucceedKeeps ==
  ASSUME IndInv, NEW r \in Request, NEW c \in DOMAIN chain[r], Succeed(r, c)
  PROVE  IndInv'
<1> DEFINE why == IF Suspended(r).guards /\ wrong[r] = "key" THEN "key" ELSE ""
<1>1. Sends(r, c) /\ ChainEnds(r, c, why)
  BY DEF Succeed
<1>2. why \in Failures
  BY DEF Failures
<1>3. CanFail(kind[r], at[r], why)
  BY DEF CanFail, Suspended
<1> HIDE DEF why
<1> QED
  BY <1>1, <1>2, <1>3, ChainEndKeeps

(* A query finds nothing. *)
LEMMA FindNoneKeeps ==
  ASSUME IndInv, NEW r \in Request, NEW c \in DOMAIN chain[r], FindNone(r, c)
  PROVE  IndInv'
<1> DEFINE why == Lease(r, c).none
           k == kind[r]
           i == at[r]
           l == chain[r][c].lease
<1>1. Sends(r, c) /\ ChainEnds(r, c, why)
  BY DEF FindNone
<1>2. Typed /\ RequestOK(r)
  BY DEF IndInv
<1>3. /\ k \in Kind /\ i \in 1..Len(Service[k]) /\ i # 0
      /\ l \in 1..Len(Suspended(r).chains[c])
      /\ DOMAIN Suspended(r).chains[c] = 1..Len(Suspended(r).chains[c])
  BY <1>1, <1>2, Sending
<1>4. c \in DOMAIN Suspended(r).chains
  BY <1>2, <1>3 DEF RequestOK
<1>5. Suspended(r) = Service[k][i]
  BY DEF Suspended
<1>6. /\ c \in DOMAIN Service[k][i].chains /\ l \in DOMAIN Service[k][i].chains[c]
      /\ why = Service[k][i].chains[c][l].none
  BY <1>3, <1>4, <1>5 DEF Lease
<1> HIDE DEF why, k, i, l
<1>7. why \in {"", "unknown", "absent", "missing"}
  BY <1>3, <1>6, ServiceFacts
<1>8. why \in Failures
  BY <1>7 DEF Failures
<1>9. CanFail(k, i, why)
  BY <1>6 DEF CanFail
<1> QED
  BY <1>1, <1>8, <1>9, ChainEndKeeps DEF k, i

(* A query fails. *)
LEMMA FailKeeps ==
  ASSUME IndInv, NEW r \in Request, NEW c \in DOMAIN chain[r], Fail(r, c)
  PROVE  IndInv'
<1>1. Sends(r, c) /\ ChainEnds(r, c, "database")
  BY DEF Fail
<1>2. "database" \in Failures /\ CanFail(kind[r], at[r], "database")
  BY DEF Failures, CanFail
<1> QED
  BY <1>1, <1>2, ChainEndKeeps

(* A request that has not arrived has no chains. *)
LEMMA NotArrived ==
  ASSUME IndInv, NEW r \in Request, kind[r] = ""
  PROVE  at[r] = 0 /\ written[r] = FALSE /\ Unblamed(r) /\ \A p : Others(r, p) = Users(p)
<1>1. Typed /\ RequestOK(r) /\ WrittenOK(r) /\ BlamedOK(r)
  BY DEF IndInv
<1>2. at[r] = 0
  BY <1>1, RouteNames DEF RequestOK
<1>3. written[r] \in BOOLEAN /\ ~written[r]
  BY <1>1 DEF WrittenOK, Typed, Arrived
<1>4. Unblamed(r)
  BY <1>1 DEF BlamedOK
<1>5. \A c, p : ~Served(r, c, p)
  BY <1>2 DEF Served
<1> QED
  BY <1>2, <1>3, <1>4, <1>5 DEF Others, Users

(* A request arrives. *)
LEMMA ArriveKeeps ==
  ASSUME IndInv, NEW r \in Request, Arrive(r)
  PROVE  IndInv'
<1>1. kind[r] = ""
  BY DEF Arrive
<1>2. PICK k \in Kind, w \in {"", "header", "key", "file", "body", "input"} :
        /\ kind' = [kind EXCEPT ![r] = k]
        /\ wrong' = [wrong EXCEPT ![r] = w]
        /\ GoOn(r, k, w, 1, pools)
        /\ UNCHANGED written
  BY DEF Arrive
<1>3. at[r] = 0 /\ written[r] = FALSE /\ Unblamed(r) /\ \A p : Others(r, p) = Users(p)
  BY <1>1, NotArrived
<1>4. Typed /\ Arrived /\ PoolsOK
  BY DEF IndInv, Typed
<1>5. Arrived' /\ kind'[r] = k /\ \A q \in Request \ {r} : kind'[q] = kind[q] /\ written'[q] = written[q]
  BY <1>2, <1>4 DEF Arrived
<1>6. ~written'[r]
  BY <1>2, <1>3
<1>7. pools \in [Pool -> PoolType] /\ \A p \in Pool : Serves(pools[p], Others(r, p))
  BY <1>3, <1>4 DEF PoolsOK
<1> QED
  BY <1>2, <1>3, <1>5, <1>6, <1>7, One, GoOnKeeps

(* The first state, and steps that change nothing. *)
LEMMA Initially == Init => IndInv
<1> SUFFICES ASSUME Init PROVE IndInv
  OBVIOUS
<1>1. Typed
  BY DEF Init, Typed, Arrived
<1>2. ASSUME NEW r \in Request PROVE RequestOK(r) /\ WrittenOK(r) /\ BlamedOK(r)
  <2>1. at[r] = 0 /\ chain[r] = <<>> /\ written[r] = FALSE /\ cause[r] = <<0, "">>
    BY DEF Init
  <2>2. cause[r][2] = ""
    BY <2>1, NoCause, Zenon
  <2> QED
    BY <2>1, <2>2 DEF RequestOK, WrittenOK, BlamedOK, Unblamed
<1>3. PoolsOK
  <2> DEFINE free == [busy |-> {}, queue |-> <<>>]
  <2>1. \A p \in Pool : Users(p) = {}
    <3>1. \A x \in Chains : x[1] \in Request
      BY DEF Chains
    <3> QED
      BY <3>1 DEF Users, Served, Init
  <2>2. <<>> \in Seq(Chains) /\ Range(<<>>) = {} /\ Len(<<>>) = 0
    BY DEF Range
  <2>3. free \in PoolType /\ free.busy = {} /\ free.queue = <<>>
    BY <2>2 DEF PoolType
  <2>4. IsFiniteSet({}) /\ Cardinality({}) <= Limit
    BY FS_EmptySet, RequestsAssumption
  <2> HIDE DEF free
  <2>5. Serves(free, {})
    BY <2>2, <2>3, <2>4 DEF Serves
  <2>6. pools = [p \in Pool |-> free]
    BY DEF Init, free
  <2> QED
    BY <2>1, <2>3, <2>5, <2>6 DEF PoolsOK
<1> QED
  BY <1>1, <1>2, <1>3 DEF IndInv

LEMMA Stuttering == IndInv /\ UNCHANGED vars => IndInv'
<1> SUFFICES ASSUME IndInv, UNCHANGED vars PROVE IndInv'
  OBVIOUS
<1>1. /\ kind' = kind /\ wrong' = wrong /\ at' = at /\ chain' = chain /\ pools' = pools
      /\ written' = written /\ reply' = reply /\ cause' = cause
  BY DEF vars
<1>2. Typed'
  BY <1>1 DEF IndInv, Typed, Arrived
<1>3. ASSUME NEW r \in Request PROVE (RequestOK(r) /\ WrittenOK(r) /\ BlamedOK(r))'
  BY <1>1 DEF IndInv, RequestOK, WrittenOK, BlamedOK, Unblamed, ChainOK, Suspended
<1>4. ASSUME NEW p \in Pool PROVE Users(p)' = Users(p)
  BY <1>1 DEF Users, Served, Lease, Suspended
<1>5. PoolsOK'
  BY <1>1, <1>4 DEF IndInv, PoolsOK
<1> QED
  BY <1>2, <1>3, <1>5 DEF IndInv

(* The invariant holds of every reachable state: each of the five steps of *)
(* a request, and its arrival, keeps it.                                   *)
THEOREM Invariance == Spec => []IndInv
<1>1. ASSUME IndInv, Next PROVE IndInv'
  <2>1. PICK r \in Request : Arrive(r) \/ Progress(r)
    BY <1>1 DEF Next
  <2>2. CASE Arrive(r)
    BY <1>1, <2>2, ArriveKeeps
  <2>3. CASE Progress(r)
    <3>1. PICK c \in DOMAIN chain[r] :
            NextQuery(r, c) \/ NextLease(r, c) \/ Succeed(r, c) \/ FindNone(r, c) \/ Fail(r, c)
      BY <2>3 DEF Progress
    <3>2. CASE NextQuery(r, c)
      BY <1>1, <3>2, NextQueryKeeps
    <3>3. CASE NextLease(r, c)
      BY <1>1, <3>3, NextLeaseKeeps
    <3>4. CASE Succeed(r, c)
      BY <1>1, <3>4, SucceedKeeps
    <3>5. CASE FindNone(r, c)
      BY <1>1, <3>5, FindNoneKeeps
    <3>6. CASE Fail(r, c)
      BY <1>1, <3>6, FailKeeps
    <3> QED
      BY <3>1, <3>2, <3>3, <3>4, <3>5, <3>6
  <2> QED
    BY <2>1, <2>2, <2>3
<1>2. IndInv /\ [Next]_vars => IndInv'
  BY <1>1, Stuttering
<1> QED
  BY Initially, <1>2, PTL DEF Spec

(* No chain is lost and none waits without need, of however many requests  *)
(* and connections: an unfinished chain whose lease is of a pool holds one *)
(* of its connections or stands in its queue once, never both, and nobody  *)
(* waits while a connection is free (the pools of mysql2).                 *)
THEOREM NobodyForgotten == Spec => []PoolsOK
BY Invariance, PTL DEF IndInv

(* An answered request neither holds a connection of a pool nor waits for  *)
(* one, whatever became of its parallel queries (search.service.ts,        *)
(* allSettled): a pool serves only chains whose lease is of that pool.     *)
THEOREM NothingLeftBehind == Spec => []AnsweredHoldsNothing
<1>1. IndInv => AnsweredHoldsNothing
  <2> SUFFICES ASSUME IndInv, NEW p \in Pool, NEW x \in pools[p].busy \cup Range(pools[p].queue)
               PROVE  at[x[1]] # 0 /\ chain[x[1]][x[2]].lease # 0 /\ Lease(x[1], x[2]).pool = p
    BY DEF AnsweredHoldsNothing
  <2>1. x \in Users(p)
    BY DEF IndInv, PoolsOK, Serves
  <2> QED
    BY <2>1 DEF Users, Served
<1> QED
  BY <1>1, Invariance, PTL

(* An error reply leaves the tables as they were, but for the read-back    *)
(* after the write of updateNode and createToken (admin services): those   *)
(* two alone write, in their second await, and are suspended on their      *)
(* third from then on.                                                     *)
THEOREM ErrorsChangeNothing == Spec => []ErrorMeansUnwritten
<1>1. IndInv => ErrorMeansUnwritten
  BY DEF IndInv, WrittenOK, ErrorMeansUnwritten
<1> QED
  BY <1>1, Invariance, PTL

(* The status and the message of an error reply tell the client of its own *)
(* fault and of no other, but for the replies BlameIsTold lists (the catch *)
(* of each service, exceptions.filter.ts).                                 *)
THEOREM BlameTold == Spec => []BlameIsTold
<1>1. IndInv => BlameIsTold
  <2> SUFFICES ASSUME IndInv, NEW r \in Request, cause[r][2] # ""
               PROVE  LET why == cause[r][2] IN
                        /\ reply[r].http # "500" => why \in ClientsFault \/ (why = "database" /\ reply[r].http = "403")
                        /\ why \in ClientsFault /\ reply[r].http = "500" =>
                             \/ kind[r] = "tokenInfoBySymbol"
                             \/ why \in {"file", "absent"}
                             \/ kind[r] = "nodeIcon" /\ why = "input" /\ reply[r].status = "400"
                        /\ why \in ClientsFault /\ reply[r].message = "generic" => why = "file"
                        /\ reply[r].message = "" => Len(Service[kind[r]][cause[r][1]].chains) > 1
    BY DEF BlameIsTold
  <2>1. Told(kind[r], cause[r][1], cause[r][2], reply[r])
    BY DEF IndInv, BlamedOK
  <2> QED
    BY <2>1 DEF Told
<1> QED
  BY <1>1, Invariance, PTL
=============================================================================
