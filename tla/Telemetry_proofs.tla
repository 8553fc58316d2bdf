---------------------------- MODULE Telemetry_proofs ----------------------------
(***************************************************************************)
(* Proofs about Telemetry, for any services, projects, rings and faults.   *)
(***************************************************************************)
EXTENDS Telemetry, SumLemmas, SequenceTheorems

\* The capacities and bounds are natural numbers, and no ring is empty.
LEMMA BoundTypes ==
    /\ LongTicks \in Nat /\ LongTicks >= 1 /\ LongRing \in Nat /\ LongRing >= 1
    /\ Ring \in Nat /\ Ring >= 2 * LongTicks
    /\ MaxTicks \in Nat /\ MaxRequests \in Nat
  BY TelemetryAssumption

-----------------------------------------------------------------------------
(***************************************************************************)
(* Rings                                                                   *)
(***************************************************************************)
\* A ring r of at most cap elements: q, with e behind it and without its
\* oldest element if it was full.
Moved(r, q, e, cap) ==
    /\ Len(r) \in 1..cap /\ r # <<>>
    /\ r[Len(r)] = e /\ Last(r) = e
    /\ \E d \in 0..1 : /\ d = 1 <=> Len(q) = cap
                       /\ Len(r) = Len(q) + 1 - d
                       /\ \A i \in 1..(Len(r) - 1) : r[i] = q[i + d]

\* Newest makes one of two.
LEMMA NewestAppend ==
    ASSUME NEW S, NEW q \in Seq(S), NEW e \in S, NEW cap \in Nat \ {0}, Len(q) <= cap
    PROVE  /\ Newest(Append(q, e), cap) \in Seq(S)
           /\ Moved(Newest(Append(q, e), cap), q, e, cap)
<1> DEFINE r == Newest(Append(q, e), cap)
<1> DEFINE all == Append(q, e)
           len == Len(q) + 1
<1>1. /\ all \in Seq(S) /\ Len(all) = len /\ Len(q) \in Nat
      /\ all[len] = e /\ \A i \in 1..Len(q) : all[i] = q[i]
  BY AppendProperties, LenProperties
<1>2. \A i \in 1..len : all[i] \in S
  BY <1>1, ElementOfSeq
<1>3. r = IF len > cap THEN SubSeq(all, len - cap + 1, len) ELSE SubSeq(all, 1, len)
  <2>1. r = SubSeq(all, IF len > cap THEN len - cap + 1 ELSE 1, len)
    BY <1>1 DEF Newest
  <2> HIDE DEF all, len, r
  <2> QED
    BY <2>1
<1> HIDE DEF all, r
<1>4. ASSUME len > cap
      PROVE  r \in Seq(S) /\ Moved(r, q, e, cap)
  <2>1. cap = Len(q) /\ len - cap + 1 = 2 /\ len - 1 = cap
    BY <1>1, <1>4
  <2>2. r = SubSeq(all, 2, len)
    BY <1>3, <1>4, <2>1
  <2>3. /\ r \in Seq(S) /\ Len(r) = len - 1
        /\ \A i \in 1..(len - 1) : r[i] = all[2 + i - 1]
    <3>1. \A i \in 2..len : all[i] \in S
      BY <1>2
    <3>2. 2 \in Int /\ len \in Int /\ 2 <= len
      BY <1>1, <2>1
    <3> HIDE DEF len
    <3> QED
      BY <2>2, <3>1, <3>2, SubSeqProperties
  <2>4. Len(r) = cap /\ r[cap] = e /\ \A i \in 1..(cap - 1) : r[i] = q[i + 1]
    BY <1>1, <2>1, <2>3
  <2>5. r # <<>>
    BY <2>4, EmptySeq
  <2>6. \A i \in 1..(Len(r) - 1) : r[i] = q[i + 1]
    BY <2>4
  <2>7. Len(r) \in 1..cap /\ Len(r) = Len(q) + 1 - 1 /\ Last(r) = e /\ r[Len(r)] = e
    BY <2>1, <2>4 DEF Last
  <2>8. \E d \in 0..1 : /\ d = 1 <=> Len(q) = cap
                        /\ Len(r) = Len(q) + 1 - d
                        /\ \A i \in 1..(Len(r) - 1) : r[i] = q[i + d]
    <3> WITNESS 1 \in 0..1
    <3> QED
      BY <2>1, <2>6, <2>7
  <2> QED
    BY <2>3, <2>5, <2>7, <2>8, Zenon DEF Moved
<1>5. ASSUME ~(len > cap)
      PROVE  r \in Seq(S) /\ Moved(r, q, e, cap)
  <2>1. r = all
    BY <1>1, <1>3, <1>5, SubSeqFull
  <2>2. \A i \in 1..(Len(r) - 1) : r[i] = q[i + 0]
    BY <1>1, <2>1
  <2>3. Len(r) = Len(q) + 1 - 0 /\ r[Len(r)] = e /\ Len(r) \in 1..cap /\ Len(q) # cap
    BY <1>1, <1>5, <2>1
  <2>4. r # <<>> /\ Last(r) = e
    BY <2>3, EmptySeq DEF Last
  <2>5. \E d \in 0..1 : /\ d = 1 <=> Len(q) = cap
                        /\ Len(r) = Len(q) + 1 - d
                        /\ \A i \in 1..(Len(r) - 1) : r[i] = q[i + d]
    <3> WITNESS 0 \in 0..1
    <3> QED
      BY <2>2, <2>3
  <2> QED
    BY <1>1, <2>1, <2>3, <2>4, <2>5, Zenon DEF Moved
<1>6. r \in Seq(S) /\ Moved(r, q, e, cap)
  BY <1>4, <1>5
<1> QED
  BY <1>6 DEF r

\* The points of a ring are numbered by ticks, oldest first and one per tick
\* at most.
Growing(points, now) ==
    \A i \in DOMAIN points :
        /\ points[i].t <= now - (Len(points) - i)
        /\ \A j \in DOMAIN points : i < j => points[i].t < points[j].t

\* They stay so when a tick appends its point.
LEMMA GrowingAppend ==
    ASSUME NEW q \in Seq(Point), NEW e \in Point, NEW cap \in Nat \ {0}, Len(q) <= cap,
           NEW now \in Nat, e.t = now + 1, Growing(q, now),
           NEW r \in Seq(Point), Moved(r, q, e, cap)
    PROVE  Growing(r, now + 1)
<1>1. PICK n \in Nat : n = Len(r) /\ DOMAIN r = 1..n
  BY LenProperties
<1>2. PICK m \in Nat : m = Len(q) /\ DOMAIN q = 1..m
  BY LenProperties
<1>3. PICK d \in 0..1 : n = m + 1 - d /\ \A i \in 1..(n - 1) : r[i] = q[i + d]
  BY <1>1, <1>2 DEF Moved
<1>4. PICK tq \in [1..m -> Int] : \A i \in 1..m : tq[i] = q[i].t
  <2>1. \A i \in 1..m : q[i] \in Point
    BY <1>2, ElementOfSeq
  <2>2. \A i \in 1..m : q[i].t \in Int
    BY <2>1 DEF Point
  <2>3. [i \in 1..m |-> q[i].t] \in [1..m -> Int]
    BY <2>2
  <2> QED
    BY <2>3
<1>5. PICK tr \in [1..n -> Int] : \A i \in 1..n : tr[i] = r[i].t
  <2>1. \A i \in 1..n : r[i] \in Point
    BY <1>1, ElementOfSeq
  <2>2. \A i \in 1..n : r[i].t \in Int
    BY <2>1 DEF Point
  <2>3. [i \in 1..n |-> r[i].t] \in [1..n -> Int]
    BY <2>2
  <2> QED
    BY <2>3
<1>6. \A i \in 1..m : tq[i] <= now - (m - i) /\ \A j \in 1..m : i < j => tq[i] < tq[j]
  BY <1>2, <1>4 DEF Growing
<1>7. tr[n] = now + 1
  <2>1. r[n] = e /\ n \in 1..n
    BY <1>1 DEF Moved
  <2> QED
    BY <1>5, <2>1
<1>8. \A i \in 1..(n - 1) : i + d \in 1..m /\ tr[i] = tq[i + d]
  <2> SUFFICES ASSUME NEW i \in 1..(n - 1)
               PROVE  i + d \in 1..m /\ tr[i] = tq[i + d]
    OBVIOUS
  <2>1. i + d \in 1..m /\ i \in 1..n
    BY <1>3
  <2>2. tr[i] = r[i].t /\ r[i] = q[i + d] /\ tq[i + d] = q[i + d].t
    BY <1>3, <1>4, <1>5, <2>1
  <2> QED
    BY <2>1, <2>2
<1>9. /\ \A i \in 1..n : tr[i] <= (now + 1) - (n - i)
      /\ \A i \in 1..n : \A j \in 1..n : i < j => tr[i] < tr[j]
  <2>1. \A i \in 1..(n - 1) : tr[i] <= (now + 1) - (n - i) /\ tr[i] < now + 1
    <3> SUFFICES ASSUME NEW i \in 1..(n - 1)
                 PROVE  tr[i] <= (now + 1) - (n - i) /\ tr[i] < now + 1
      OBVIOUS
    <3>1. i + d \in 1..m /\ tr[i] = tq[i + d] /\ tq[i + d] <= now - (m - (i + d))
      BY <1>6, <1>8
    <3> QED
      BY <1>3, <3>1
  <2>2. \A i \in 1..(n - 1) : \A j \in 1..(n - 1) : i < j => tr[i] < tr[j]
    <3> SUFFICES ASSUME NEW i \in 1..(n - 1), NEW j \in 1..(n - 1), i < j
                 PROVE  tr[i] < tr[j]
      OBVIOUS
    <3>1. i + d < j + d
      OBVIOUS
    <3>2. tq[i + d] < tq[j + d]
      BY <1>6, <1>8, <3>1
    <3> QED
      BY <1>8, <3>2
  <2>3. \A i \in 1..n : i = n \/ i \in 1..(n - 1)
    OBVIOUS
  <2>4. \A i \in 1..n : tr[i] <= (now + 1) - (n - i)
    <3>1. tr[n] <= (now + 1) - (n - n)
      BY <1>7
    <3> QED
      BY <2>1, <2>3, <3>1
  <2>5. ASSUME NEW i \in 1..n, NEW j \in 1..n, i < j
        PROVE  tr[i] < tr[j]
    <3>1. i \in 1..(n - 1)
      BY <2>5
    <3> QED
      BY <1>7, <2>1, <2>2, <2>3, <2>5, <3>1
  <2> QED
    BY <2>4, <2>5
<1>10. /\ \A i \in 1..n : r[i].t <= (now + 1) - (n - i)
       /\ \A i \in 1..n : \A j \in 1..n : i < j => r[i].t < r[j].t
  BY <1>5, <1>9
<1>11. \A i \in DOMAIN r : r[i].t <= (now + 1) - (Len(r) - i)
  BY <1>1, <1>10, Zenon
<1>12. \A i \in DOMAIN r : \A j \in DOMAIN r : i < j => r[i].t < r[j].t
  BY <1>1, <1>10, Zenon
<1> QED
  BY <1>11, <1>12, Zenon DEF Growing

\* And while time passes without one.
LEMMA GrowingLater ==
    ASSUME NEW q \in Seq(Point), NEW now \in Nat, Growing(q, now)
    PROVE  Growing(q, now + 1)
<1>1. Len(q) \in Nat /\ DOMAIN q = 1..Len(q)
  BY LenProperties
<1>2. \A i \in DOMAIN q : q[i].t \in Int
  <2>1. \A i \in DOMAIN q : q[i] \in Point
    BY <1>1, ElementOfSeq
  <2> QED
    BY <2>1 DEF Point
<1> QED
  BY <1>1, <1>2 DEF Growing

-----------------------------------------------------------------------------
(***************************************************************************)
(* Totals                                                                  *)
(***************************************************************************)
\* Finitely many positions hold finitely many points.
LEMMA FinitePoints ==
    ASSUME NEW q, NEW a \in Int, NEW b \in Int
    PROVE  IsFiniteSet({q[i] : i \in a..b})
<1> DEFINE T == {q[i] : i \in a..b}
           f == [i \in a..b |-> q[i]]
<1>1. IsFiniteSet(a..b)
  BY FS_Interval
<1>2. f \in Surjection(a..b, T)
  BY DEF Surjection
<1> QED
  BY <1>1, <1>2, FS_Surjection

\* No points, no requests.
LEMMA TotalEmpty == Total({}) = 0
<1> DEFINE f == [pt \in {} |-> pt.n]
<1>1. DOMAIN f = {}
  OBVIOUS
<1> HIDE DEF f
<1>2. SumFunction(f) = 0
  BY <1>1, SumEmpty DEF SumFunction
<1> QED
  BY <1>2 DEF Total, f

\* A point more, its requests more.
LEMMA TotalAdd ==
    ASSUME NEW P \in SUBSET Point, IsFiniteSet(P), NEW pt \in Point
    PROVE  /\ Total(P) \in Nat
           /\ pt \notin P => Total(P \cup {pt}) = Total(P) + pt.n
<1> DEFINE U == P \cup {pt}
           f == [x \in P |-> x.n]
           g == [x \in U |-> x.n]
<1>1. \A x \in U : x.n \in Nat
  BY DEF Point
<1>2. /\ \A x \in P : f[x] \in Nat /\ f[x] = g[x] /\ f[x] \in Int
      /\ \A x \in U : g[x] \in Int
      /\ g[pt] = pt.n /\ g[pt] \in Int
  BY <1>1
<1>3. Total(P) = SumFunctionOnSet(f, P) /\ Total(U) = SumFunctionOnSet(g, U)
  BY DEF Total, SumFunction
<1> HIDE DEF f, g
<1>4. SumFunctionOnSet(f, P) \in Nat
  BY <1>2, SumNat
<1>5. SumFunctionOnSet(f, P) = SumFunctionOnSet(g, P)
  BY <1>2, SumEqual
<1>6. ASSUME pt \notin P
      PROVE  SumFunctionOnSet(g, U) = SumFunctionOnSet(g, P) + g[pt]
  <2>1. \A x \in P : g[x] \in Int
    BY <1>2
  <2> QED
    BY <1>2, <1>6, <2>1, SumAdd
<1>7. pt \notin P => Total(U) = Total(P) + pt.n
  BY <1>2, <1>3, <1>5, <1>6
<1> QED
  BY <1>3, <1>4, <1>7

-----------------------------------------------------------------------------
(***************************************************************************)
(* Increases                                                               *)
(***************************************************************************)
\* What a scrape shows, and what a project keeps of it: counts of some of the
\* services S.
IsBook(f, S) == DOMAIN f \in SUBSET S /\ f \in [DOMAIN f -> Counts]

\* The services of a project are services.
LEMMA ProjectServices == \A p \in Slugs : ServicesOf[p] \in SUBSET Services
  BY TelemetryAssumption

\* The summands of Increase.
Rises(C, raw, last) == [c \in C |-> PositivePart(raw[c] - last[c])]

\* An increase is a number of requests.
LEMMA IncreaseSum ==
    ASSUME NEW C \in SUBSET Classes, NEW raw \in Counts, NEW last \in Counts
    PROVE  /\ IsFiniteSet(C)
           /\ \A c \in C : Rises(C, raw, last)[c] \in Nat
           /\ Increase(C, raw, last) = SumFunctionOnSet(Rises(C, raw, last), C)
           /\ Increase(C, raw, last) \in Nat
<1>1. IsFiniteSet(C)
  BY FS_Subset, TelemetryAssumption
<1>2. \A c \in C : raw[c] \in Nat /\ last[c] \in Nat
  BY DEF Counts
<1>3. \A c \in C : Rises(C, raw, last)[c] \in Nat
  BY <1>2 DEF Rises, PositivePart
<1>4. Increase(C, raw, last) = SumFunctionOnSet(Rises(C, raw, last), C)
  BY DEF Increase, Rises, SumFunction
<1>5. SumFunctionOnSet(Rises(C, raw, last), C) \in Nat
  <2>1. PICK f : f = Rises(C, raw, last)
    OBVIOUS
  <2> QED
    BY <1>1, <1>3, <2>1, SumNat
<1> QED
  BY <1>1, <1>3, <1>4, <1>5

\* Nothing rises from itself.
LEMMA IncreaseNone ==
    ASSUME NEW C \in SUBSET Classes, NEW raw \in Counts
    PROVE  Increase(C, raw, raw) = 0
<1>1. PICK f : f = Rises(C, raw, raw)
  OBVIOUS
<1>2. \A c \in C : f[c] = 0 /\ f[c] \in Nat
  BY <1>1 DEF Rises, PositivePart, Counts
<1>3. IsFiniteSet(C) /\ Increase(C, raw, raw) = SumFunctionOnSet(f, C)
  BY <1>1, IncreaseSum
<1> QED
  BY <1>2, <1>3, SumNat

\* The counts after a request of class c.
Bumped(raw, c) == [raw EXCEPT ![c] = @ + 1]

\* A request of a class adds one to the increase over the classes it is among.
LEMMA IncreaseRequest ==
    ASSUME NEW C \in SUBSET Classes, NEW raw \in Counts, NEW last \in Counts,
           NEW c \in Classes, \A d \in Classes : last[d] <= raw[d]
    PROVE  /\ Bumped(raw, c) \in Counts /\ \A d \in Classes : last[d] <= Bumped(raw, c)[d]
           /\ Increase(C, raw, last) \in Nat
           /\ c \in C => Increase(C, Bumped(raw, c), last) = Increase(C, raw, last) + 1
           /\ c \notin C => Increase(C, Bumped(raw, c), last) = Increase(C, raw, last)
<1>0. PICK new : new = Bumped(raw, c)
  OBVIOUS
<1>1. \A d \in Classes : raw[d] \in Nat /\ last[d] \in Nat
  BY DEF Counts
<1>2. /\ new \in Counts
      /\ \A d \in Classes : new[d] = IF d = c THEN raw[d] + 1 ELSE raw[d]
  BY <1>0 DEF Counts, Bumped
<1>3. \A d \in Classes : last[d] <= new[d]
  BY <1>1, <1>2
<1>4. PICK f : f = Rises(C, raw, last)
  OBVIOUS
<1>5. PICK g : g = Rises(C, new, last)
  OBVIOUS
<1>6. \A d \in C : /\ f[d] \in Int /\ g[d] \in Int
                   /\ g[d] = IF d = c THEN f[d] + 1 ELSE f[d]
  <2> SUFFICES ASSUME NEW d \in C
               PROVE  /\ f[d] \in Int /\ g[d] \in Int
                      /\ g[d] = IF d = c THEN f[d] + 1 ELSE f[d]
    OBVIOUS
  <2>1. f[d] = PositivePart(raw[d] - last[d]) /\ g[d] = PositivePart(new[d] - last[d])
    BY <1>4, <1>5 DEF Rises
  <2> QED
    BY <1>1, <1>2, <2>1 DEF PositivePart
<1>7. /\ IsFiniteSet(C)
      /\ Increase(C, raw, last) = SumFunctionOnSet(f, C) /\ Increase(C, raw, last) \in Nat
      /\ Increase(C, new, last) = SumFunctionOnSet(g, C)
  BY <1>2, <1>4, <1>5, IncreaseSum
<1>8. CASE c \notin C
  <2>1. \A d \in C : g[d] \in Int /\ g[d] = f[d]
    BY <1>6, <1>8
  <2>2. SumFunctionOnSet(g, C) = SumFunctionOnSet(f, C)
    BY <1>7, <2>1, SumEqual
  <2> QED
    BY <1>0, <1>2, <1>3, <1>7, <1>8, <2>2
<1>9. CASE c \in C
  <2>1. \A d \in C : f[d] \in Int /\ g[d] \in Int
    BY <1>6
  <2>2. SumFunctionOnSet(f, C) = f[c] + SumFunctionOnSet(f, C \ {c})
    BY <1>7, <1>9, <2>1, SumRemove
  <2>3. SumFunctionOnSet(g, C) = g[c] + SumFunctionOnSet(g, C \ {c})
    BY <1>7, <1>9, <2>1, SumRemove
  <2>4. IsFiniteSet(C \ {c}) /\ \A d \in C \ {c} : g[d] \in Int /\ g[d] = f[d]
    BY <1>6, <1>7, FS_Subset
  <2>5. SumFunctionOnSet(g, C \ {c}) = SumFunctionOnSet(f, C \ {c})
    BY <2>4, SumEqual
  <2>6. SumFunctionOnSet(g, C \ {c}) \in Int
    BY <2>4, SumType
  <2>7. SumFunctionOnSet(g, C) = SumFunctionOnSet(f, C) + 1
    BY <1>6, <1>9, <2>2, <2>3, <2>5, <2>6
  <2> QED
    BY <1>0, <1>2, <1>3, <1>7, <1>9, <2>7
<1> QED
  BY <1>8, <1>9

\* The summands of a project's point.
Parted(prev, seen) ==
    [s \in DOMAIN seen |-> IF s \in DOMAIN prev THEN Increase(Shown, seen[s], prev[s]) ELSE 0]

\* A point of a project is a sum over the services it sees.
LEMMA DeltaSum ==
    ASSUME NEW prev, IsBook(prev, Services), NEW seen, IsBook(seen, Services)
    PROVE  /\ IsFiniteSet(DOMAIN seen)
           /\ \A s \in DOMAIN seen : Parted(prev, seen)[s] \in Nat
           /\ Delta(prev, seen) = SumFunctionOnSet(Parted(prev, seen), DOMAIN seen)
           /\ Delta(prev, seen) \in Nat
<1>1. IsFiniteSet(DOMAIN seen)
  BY FS_Subset, TelemetryAssumption DEF IsBook
<1>2. Shown \in SUBSET Classes
  BY TelemetryAssumption
<1>3. ASSUME NEW s \in DOMAIN seen
      PROVE  Parted(prev, seen)[s] \in Nat
  <2>1. seen[s] \in Counts
    BY DEF IsBook
  <2>2. CASE s \in DOMAIN prev
    <3>1. prev[s] \in Counts
      BY <2>2 DEF IsBook
    <3> QED
      BY <1>2, <2>1, <2>2, <3>1, IncreaseSum DEF Parted
  <2>3. CASE s \notin DOMAIN prev
    BY <2>3 DEF Parted
  <2> QED
    BY <2>2, <2>3
<1>4. PICK f : f = Parted(prev, seen)
  OBVIOUS
<1>5. Delta(prev, seen) = SumFunctionOnSet(f, DOMAIN seen)
  <2>1. DOMAIN f = DOMAIN seen
    BY <1>4 DEF Parted
  <2>2. Delta(prev, seen) = SumFunction(f)
    BY <1>4 DEF Delta, Parted
  <2> QED
    BY <2>1, <2>2 DEF SumFunction
<1>6. SumFunctionOnSet(f, DOMAIN seen) \in Nat
  BY <1>1, <1>3, <1>4, SumNat
<1> QED
  BY <1>1, <1>3, <1>4, <1>5, <1>6

-----------------------------------------------------------------------------
(***************************************************************************)
(* Types                                                                   *)
(***************************************************************************)
Books   == UNION {[S -> Counts] : S \in SUBSET Services}
Buffers == [last : Counts, points : Seq(Point)]
Accums  == [count : 0..(LongTicks - 1), n : Nat]
Rings   == [prev : Books, points : Seq(Point), accum : Accums, long : Seq(Point)]
Notes   == [n : Nat, sound : BOOLEAN]

\* A book is one of the books.
LEMMA BookTypes == \A f : IsBook(f, Services) <=> f \in Books
<1> SUFFICES ASSUME NEW f
             PROVE  IsBook(f, Services) <=> f \in Books
  OBVIOUS
<1>1. ASSUME IsBook(f, Services)
      PROVE  f \in Books
  BY <1>1 DEF IsBook, Books
<1>2. ASSUME f \in Books
      PROVE  IsBook(f, Services)
  <2>1. PICK S \in SUBSET Services : f \in [S -> Counts]
    BY <1>2 DEF Books
  <2>2. DOMAIN f = S
    BY <2>1
  <2> QED
    BY <2>1, <2>2 DEF IsBook
<1> QED
  BY <1>1, <1>2

\* What a store holds of a service, and of a project of the services S.
BufferOK(buf, now) ==
    buf \in Buffers /\ Len(buf.points) <= Ring /\ Growing(buf.points, now)
SeriesOK(buf, now, S) ==
    /\ buf \in Rings /\ DOMAIN buf.prev \subseteq S
    /\ Len(buf.points) <= Ring /\ Growing(buf.points, now)
    /\ Len(buf.long) <= LongRing /\ Growing(buf.long, now)

\* The types in full: no point is of a later tick.
TypeInv ==
    /\ clock \in 0..MaxTicks
    /\ requests \in 0..MaxRequests
    /\ counter \in [Services -> Counts]
    /\ unsampled \in [Services -> Notes] /\ unrecorded \in [Slugs -> Notes]
    /\ faults \in [FaultKinds -> Nat]
    /\ series \in [Services -> Buffers] /\ pseries \in [Slugs -> Rings]
    /\ \A s \in Services : BufferOK(series[s], clock)
    /\ \A p \in Slugs : SeriesOK(pseries[p], clock, ServicesOf[p])

\* Empty stores are well-formed.
LEMMA Empty ==
    ASSUME NEW now \in Nat, NEW S \in SUBSET Services
    PROVE  /\ NoBuffer \in Buffers /\ BufferOK(NoBuffer, now)
           /\ NoSeries \in Rings /\ SeriesOK(NoSeries, now, S)
<1>1. {Ring, LongRing, LongTicks - 1} \subseteq Nat
  BY TelemetryAssumption
<1>2. <<>> \in Seq(Point) /\ Len(<<>>) = 0 /\ Growing(<<>>, now)
  BY EmptySeq DEF Growing
<1>3. Zero \in Counts
  BY DEF Zero, Counts
<1>4. NoBuffer \in Buffers /\ BufferOK(NoBuffer, now)
  BY <1>1, <1>2, <1>3 DEF NoBuffer, Buffers, BufferOK
<1>5. NoSeries \in Rings
  <2>1. NoAccum \in Accums
    BY <1>1 DEF NoAccum, Accums
  <2>2. IsBook(<<>>, Services)
    BY DEF IsBook
  <2>3. <<>> \in Books
    BY <2>2, BookTypes
  <2> QED
    BY <1>2, <2>1, <2>3 DEF Rings, NoSeries
<1>6. NoSeries.prev = <<>> /\ NoSeries.points = <<>> /\ NoSeries.long = <<>> /\ DOMAIN <<>> = {}
  BY DEF NoSeries
<1> QED
  BY <1>1, <1>2, <1>4, <1>5, <1>6 DEF SeriesOK

\* The sample of a service: its first is only remembered, the others give a
\* point with the requests since the one before.
Fresh(raw, last, t) == [t |-> t, n |-> Increase(Classes, raw, last)]

\* A service's ring after a sample: as it was if it is the first one.
LEMMA SampledStep ==
    ASSUME NEW raw \in Counts, NEW buf, NEW now \in 0..(MaxTicks - 1), BufferOK(buf, now)
    PROVE  /\ BufferOK(Sampled(buf, raw, now + 1), now + 1)
           /\ Sampled(buf, raw, now + 1).last = raw
           /\ buf.last = Zero => Sampled(buf, raw, now + 1).points = buf.points
           /\ buf.last # Zero =>
                 /\ Fresh(raw, buf.last, now + 1) \in Point
                 /\ Moved(Sampled(buf, raw, now + 1).points, buf.points,
                          Fresh(raw, buf.last, now + 1), Ring)
<1> DEFINE new == Sampled(buf, raw, now + 1)
<1>1. /\ Ring \in Nat \ {0} /\ MaxTicks \in Nat
      /\ now \in Nat /\ now + 1 \in 1..MaxTicks
  BY TelemetryAssumption
<1>2. /\ buf.last \in Counts /\ buf.points \in Seq(Point)
      /\ Len(buf.points) <= Ring /\ Growing(buf.points, now)
  BY DEF BufferOK, Buffers
<1>3. new.last = raw
  BY DEF Sampled
<1>4. ASSUME buf.last = Zero
      PROVE  /\ new.points = buf.points
             /\ BufferOK(new, now + 1)
  <2>1. new = [last |-> raw, points |-> buf.points]
    BY <1>4 DEF Sampled
  <2>2. Growing(buf.points, now + 1)
    BY <1>1, <1>2, GrowingLater
  <2> HIDE DEF new
  <2> QED
    BY <1>2, <2>1, <2>2 DEF BufferOK, Buffers
<1>5. ASSUME buf.last # Zero
      PROVE  /\ Fresh(raw, buf.last, now + 1) \in Point
             /\ Moved(new.points, buf.points, Fresh(raw, buf.last, now + 1), Ring)
             /\ BufferOK(new, now + 1)
  <2>1. PICK e : e = Fresh(raw, buf.last, now + 1)
    OBVIOUS
  <2>2. e \in Point /\ e.t = now + 1
    <3>1. Increase(Classes, raw, buf.last) \in Nat
      BY <1>2, IncreaseSum
    <3> QED
      BY <1>1, <2>1, <3>1 DEF Fresh, Point
  <2>3. PICK q : q = Newest(Append(buf.points, e), Ring)
    OBVIOUS
  <2>4. new = [last |-> raw, points |-> q]
    BY <1>5, <2>1, <2>3 DEF Sampled, Fresh
  <2>5. q \in Seq(Point) /\ Moved(q, buf.points, e, Ring)
    BY <1>1, <1>2, <2>2, <2>3, NewestAppend
  <2>6. Growing(q, now + 1) /\ Len(q) <= Ring
    <3>1. Growing(q, now + 1)
      BY <1>1, <1>2, <2>2, <2>5, GrowingAppend
    <3>2. Len(q) \in 1..Ring
      BY <2>5 DEF Moved
    <3> QED
      BY <1>1, <3>1, <3>2
  <2> HIDE DEF new
  <2> QED
    BY <2>1, <2>2, <2>4, <2>5, <2>6 DEF BufferOK, Buffers
<1> QED
  BY <1>3, <1>4, <1>5

\* A project's rings new after a tick that showed n requests: they go into the
\* bucket in progress, and from there into a long point when it is full.
Folded(new, buf, t, n) ==
    /\ Moved(new.points, buf.points, [t |-> t, n |-> n], Ring)
    /\ buf.accum.count + 1 < LongTicks =>
          /\ new.accum.count = buf.accum.count + 1 /\ new.accum.n = buf.accum.n + n
          /\ new.long = buf.long
    /\ buf.accum.count + 1 >= LongTicks =>
          /\ buf.accum.count + 1 = LongTicks
          /\ new.accum.count = 0 /\ new.accum.n = 0
          /\ Moved(new.long, buf.long, [t |-> t, n |-> buf.accum.n + n], LongRing)

\* A project's rings new after a tick at t that saw the services seen.
Recording(new, buf, seen, t, S, n) ==
    SeriesOK(new, t, S) /\ n \in Nat /\ new.prev = seen /\ Folded(new, buf, t, n)

\* What recording makes of the services a project sees.
LEMMA RecordedStep ==
    ASSUME NEW S \in SUBSET Services, NEW buf, NEW now \in 0..(MaxTicks - 1),
           SeriesOK(buf, now, S), NEW seen, IsBook(seen, S)
    PROVE  Recording(Recorded(buf, seen, now + 1), buf, seen, now + 1, S, Delta(buf.prev, seen))
<1>n. PICK n : n = Delta(buf.prev, seen)
  OBVIOUS
<1>new. PICK new : new = Recorded(buf, seen, now + 1)
  OBVIOUS
<1>1. /\ Ring \in Nat \ {0} /\ LongRing \in Nat \ {0} /\ LongTicks \in Nat \ {0}
      /\ MaxTicks \in Nat
      /\ now \in Nat /\ now + 1 \in 1..MaxTicks
  BY TelemetryAssumption
<1>2. /\ buf.prev \in Books /\ buf.points \in Seq(Point) /\ buf.long \in Seq(Point)
      /\ buf.accum.count \in 0..(LongTicks - 1) /\ buf.accum.n \in Nat
      /\ Len(buf.points) <= Ring /\ Growing(buf.points, now)
      /\ Len(buf.long) <= LongRing /\ Growing(buf.long, now)
  BY DEF SeriesOK, Rings, Accums
<1>3. IsBook(seen, Services) /\ seen \in Books /\ DOMAIN seen \subseteq S
  BY BookTypes DEF IsBook
<1>4. n \in Nat
  BY <1>n, <1>2, <1>3, BookTypes, DeltaSum
<1>5. PICK e : e = [t |-> now + 1, n |-> n]
  OBVIOUS
<1>6. e \in Point /\ e.t = now + 1
  BY <1>1, <1>4, <1>5 DEF Point
<1>7. PICK q : q = Newest(Append(buf.points, e), Ring)
  OBVIOUS
<1>8. q \in Seq(Point) /\ Moved(q, buf.points, e, Ring)
  BY <1>1, <1>2, <1>6, <1>7, NewestAppend
<1>9. Growing(q, now + 1)
  BY <1>1, <1>2, <1>6, <1>8, GrowingAppend
<1>10. Len(q) <= Ring
  <2>1. Len(q) \in 1..Ring
    BY <1>8 DEF Moved
  <2> QED
    BY <1>1, <2>1
<1>11. PICK count : count = buf.accum.count + 1
  OBVIOUS
<1>12. PICK sum : sum = buf.accum.n + n
  OBVIOUS
<1>13. LongTicks \in Nat /\ count \in 1..LongTicks /\ sum \in Nat
  <2>1. LongTicks \in Nat
    BY BoundTypes
  <2>2. PICK old \in 0..(LongTicks - 1) : old = buf.accum.count
    BY <1>2
  <2>3. count = old + 1
    BY <1>11, <2>2
  <2> QED
    BY <1>2, <1>4, <1>12, <2>1, <2>2, <2>3
<1>14. Added(buf.accum, n) = [count |-> count, n |-> sum]
  BY <1>11, <1>12 DEF Added
<1>15. ASSUME count < LongTicks
       PROVE  /\ SeriesOK(new, now + 1, S)
              /\ new.prev = seen /\ new.points = q
              /\ new.accum.count = count /\ new.accum.n = sum
              /\ new.long = buf.long
  <2>1. new = [prev |-> seen, points |-> q, accum |-> [count |-> count, n |-> sum], long |-> buf.long]
    <3>1. ~(count >= LongTicks)
      BY <1>13, <1>15
    <3>2. PICK accum : accum = [count |-> count, n |-> sum]
      OBVIOUS
    <3>3. Delta(buf.prev, seen) = n /\ Added(buf.accum, n) = accum
      BY <1>n, <1>14, <3>2
    <3>4. ~(accum.count >= LongTicks)
      BY <3>1, <3>2
    <3>5. Recorded(buf, seen, now + 1) =
            [prev |-> seen, points |-> Newest(Append(buf.points, e), Ring),
             accum |-> accum, long |-> buf.long]
      BY <1>5, <3>3, <3>4 DEF Recorded
    <3> QED
      BY <1>new, <1>7, <3>2, <3>5
  <2>2. [count |-> count, n |-> sum] \in Accums
    <3>1. count \in 0..(LongTicks - 1)
      BY <1>13, <1>15
    <3> QED
      BY <1>13, <3>1 DEF Accums
  <2>3. new \in Rings
    BY <1>2, <1>3, <1>8, <2>1, <2>2 DEF Rings
  <2>4. new.prev = seen /\ new.points = q /\ new.accum.count = count /\ new.accum.n = sum
        /\ new.long = buf.long
    BY <2>1
  <2>5. Growing(buf.long, now + 1)
    BY <1>1, <1>2, GrowingLater
  <2> QED
    BY <1>2, <1>3, <1>9, <1>10, <2>3, <2>4, <2>5 DEF SeriesOK
<1>16. ASSUME ~(count < LongTicks)
       PROVE  /\ SeriesOK(new, now + 1, S)
              /\ new.prev = seen /\ new.points = q /\ count = LongTicks
              /\ new.accum.count = 0 /\ new.accum.n = 0
              /\ Moved(new.long, buf.long, [t |-> now + 1, n |-> sum], LongRing)
  <2>1. PICK f : f = [t |-> now + 1, n |-> sum]
    OBVIOUS
  <2>2. f \in Point /\ f.t = now + 1
    BY <1>1, <1>13, <2>1 DEF Point
  <2>3. PICK l : l = Newest(Append(buf.long, f), LongRing)
    OBVIOUS
  <2>4. l \in Seq(Point) /\ Moved(l, buf.long, f, LongRing)
    BY <1>1, <1>2, <2>2, <2>3, NewestAppend
  <2>5. Len(l) <= LongRing
    <3>1. Len(l) \in 1..LongRing
      BY <2>4 DEF Moved
    <3> QED
      BY <1>1, <3>1
  <2>6. new = [prev |-> seen, points |-> q, accum |-> NoAccum, long |-> l]
    <3>1. count >= LongTicks
      BY <1>13, <1>16
    <3> QED
      BY <1>n, <1>new, <1>5, <1>7, <1>14, <2>1, <2>3, <3>1 DEF Recorded
  <2>7. NoAccum \in Accums /\ NoAccum.count = 0 /\ NoAccum.n = 0
    BY <1>1 DEF NoAccum, Accums
  <2>8. new \in Rings
    BY <1>3, <1>8, <2>4, <2>6, <2>7 DEF Rings
  <2>9. new.prev = seen /\ new.points = q /\ new.accum.count = 0 /\ new.accum.n = 0 /\ new.long = l
    BY <2>6, <2>7
  <2>10. Growing(l, now + 1)
    BY <1>1, <1>2, <2>2, <2>4, GrowingAppend
  <2>11. count = LongTicks
    BY <1>13, <1>16
  <2> QED
    BY <1>3, <1>9, <1>10, <2>1, <2>4, <2>5, <2>8, <2>9, <2>10, <2>11 DEF SeriesOK
<1>17. SeriesOK(new, now + 1, S) /\ new.prev = seen /\ new.points = q
  BY <1>15, <1>16
<1>18. Moved(new.points, buf.points, [t |-> now + 1, n |-> n], Ring)
  BY <1>5, <1>8, <1>17
<1>19. count < LongTicks <=> ~(count >= LongTicks)
  BY <1>13
<1>20. Folded(new, buf, now + 1, n)
  BY <1>11, <1>12, <1>15, <1>16, <1>18, <1>19 DEF Folded
<1>21. Recording(new, buf, seen, now + 1, S, n)
  BY <1>4, <1>17, <1>20 DEF Recording
<1> QED
  BY <1>n, <1>new, <1>21

\* A scrape, complete or cut, shows counts of some services.
LEMMA ScrapeShows ==
    ASSUME TypeInv
    PROVE  /\ IsBook(Complete, Services)
           /\ \A snap \in Cut : IsBook(snap, Services)
<1>1. counter \in [Services -> Counts]
  BY DEF TypeInv
<1>2. DOMAIN Complete = {s \in Services : counter[s] # Zero}
      /\ \A s \in DOMAIN Complete : Complete[s] = counter[s]
  BY DEF Complete, Restrict
<1>3. Complete \in [DOMAIN Complete -> Counts] /\ DOMAIN Complete \in SUBSET Services
  <2>1. Complete = [s \in {s \in Services : counter[s] # Zero} |-> counter[s]]
    BY DEF Complete, Restrict
  <2> QED
    BY <1>1, <1>2, <2>1
<1>4. ASSUME NEW snap \in Cut
      PROVE  IsBook(snap, Services)
  <2>1. PICK view \in SUBSET DOMAIN Complete :
           /\ snap \in [view -> UNION {Parts(counter[s]) : s \in view}]
           /\ \A s \in view : snap[s] \in Parts(counter[s])
    BY <1>4 DEF Cut
  <2>2. \A s \in view : snap[s] \in Counts
    BY <2>1 DEF Parts, Counts
  <2>3. DOMAIN snap = view /\ snap = [s \in view |-> snap[s]]
    BY <2>1
  <2>4. snap \in [view -> Counts]
    BY <2>2, <2>3
  <2> QED
    BY <1>3, <2>3, <2>4 DEF IsBook
<1> QED
  BY <1>3, <1>4 DEF IsBook

\* A fault is counted.
LEMMA FaultTyped ==
    ASSUME faults \in [FaultKinds -> Nat], NEW K, Faults(K)
    PROVE  faults' \in [FaultKinds -> Nat]
BY DEF Faults

\* Every sample is a tick with some snapshot.
LEMMA SampleIsTick ==
    ASSUME TypeInv, Sample
    PROVE  \E snap : \E listed \in BOOLEAN :
              /\ IsBook(snap, Services) /\ Tick(snap, listed)
              /\ faults' \in [FaultKinds -> Nat]
<1>1. PICK K \in SUBSET {"scrape", "list"} :
         /\ Faults(K)
         /\ \E snap \in IF "scrape" \in K THEN Cut ELSE {Complete} : Tick(snap, "list" \notin K)
  BY DEF Sample
<1>2. PICK snap \in IF "scrape" \in K THEN Cut ELSE {Complete} : Tick(snap, "list" \notin K)
  BY <1>1
<1>3. IsBook(snap, Services)
  BY <1>2, ScrapeShows
<1>4. faults' \in [FaultKinds -> Nat]
  BY <1>1, FaultTyped DEF TypeInv
<1>5. PICK listed \in BOOLEAN : listed <=> "list" \notin K
  OBVIOUS
<1>6. Tick(snap, listed)
  <2>1. CASE listed
    <3>1. listed = TRUE /\ ("list" \notin K) = TRUE
      BY <1>5, <2>1
    <3> QED
      BY <1>2, <3>1
  <2>2. CASE ~listed
    <3>1. listed = FALSE /\ ("list" \notin K) = FALSE
      BY <1>5, <2>2
    <3> QED
      BY <1>2, <3>1
  <2> QED
    BY <2>1, <2>2
<1> QED
  BY <1>3, <1>4, <1>6

\* What a listed project records.
LEMMA ProjectTick ==
    ASSUME NEW snap, IsBook(snap, Services), NEW p \in Slugs, Tick(snap, TRUE)
    PROVE  \E seen : /\ IsBook(seen, ServicesOf[p])
                     /\ seen = Restrict(snap, DOMAIN snap \cap ServicesOf[p])
                     /\ pseries'[p] = Recorded(pseries[p], seen, clock + 1)
<1>1. PICK seen : seen = Restrict(snap, DOMAIN snap \cap ServicesOf[p])
  OBVIOUS
<1>2. DOMAIN seen = DOMAIN snap \cap ServicesOf[p] /\ \A s \in DOMAIN seen : seen[s] = snap[s]
  BY <1>1 DEF Restrict
<1>3. seen = [s \in DOMAIN seen |-> seen[s]]
  BY <1>1 DEF Restrict
<1>4. \A s \in DOMAIN seen : seen[s] \in Counts
  BY <1>2 DEF IsBook
<1>5. IsBook(seen, ServicesOf[p])
  BY <1>2, <1>3, <1>4 DEF IsBook
<1>6. clock' = clock + 1
  BY DEF Tick
<1>7. pseries'[p] = Recorded(pseries[p], seen, clock')
  BY <1>1 DEF Tick
<1> QED
  BY <1>1, <1>5, <1>6, <1>7

\* A tick keeps the types.
LEMMA TypeTick ==
    ASSUME TypeInv, NEW snap, IsBook(snap, Services), NEW listed \in BOOLEAN, Tick(snap, listed),
           faults' \in [FaultKinds -> Nat]
    PROVE  TypeInv'
<1>1. clock \in 0..(MaxTicks - 1) /\ clock' = clock + 1 /\ clock' \in 0..MaxTicks
      /\ clock' \in Nat /\ clock \in Nat
  BY TelemetryAssumption DEF TypeInv, Tick
<1>2. ASSUME NEW s \in Services
      PROVE  series'[s] \in Buffers /\ BufferOK(series'[s], clock')
  <2>1. BufferOK(series[s], clock)
    BY DEF TypeInv
  <2>2. CASE s \in DOMAIN snap
    <3>1. series'[s] = Sampled(series[s], snap[s], clock + 1)
      BY <1>1, <2>2 DEF Tick
    <3>2. snap[s] \in Counts
      BY <2>2 DEF IsBook
    <3>3. BufferOK(Sampled(series[s], snap[s], clock + 1), clock + 1)
      BY <1>1, <2>1, <3>2, SampledStep
    <3> QED
      BY <1>1, <3>1, <3>3 DEF BufferOK
  <2>3. CASE s \notin DOMAIN snap
    <3>1. series'[s] = series[s]
      BY <2>3 DEF Tick
    <3>2. Growing(series[s].points, clock + 1)
      BY <1>1, <2>1, GrowingLater DEF BufferOK, Buffers
    <3> QED
      BY <1>1, <2>1, <3>1, <3>2 DEF BufferOK
  <2> QED
    BY <2>2, <2>3
<1>3. ASSUME NEW p \in Slugs
      PROVE  pseries'[p] \in Rings /\ SeriesOK(pseries'[p], clock', ServicesOf[p])
  <2>1. SeriesOK(pseries[p], clock, ServicesOf[p])
    BY DEF TypeInv
  <2>2. CASE listed
    <3>1. Tick(snap, TRUE)
      BY <2>2
    <3>2. PICK seen : /\ IsBook(seen, ServicesOf[p])
                      /\ pseries'[p] = Recorded(pseries[p], seen, clock + 1)
      BY <3>1, ProjectTick
    <3>3. PICK S \in SUBSET Services : S = ServicesOf[p]
      BY ProjectServices
    <3>4. SeriesOK(Recorded(pseries[p], seen, clock + 1), clock + 1, S)
      BY <1>1, <2>1, <3>2, <3>3, RecordedStep DEF Recording
    <3> QED
      BY <1>1, <3>2, <3>3, <3>4 DEF SeriesOK
  <2>3. CASE ~listed
    <3>1. pseries'[p] = pseries[p]
      BY <2>3 DEF Tick
    <3>2. Growing(pseries[p].points, clock + 1) /\ Growing(pseries[p].long, clock + 1)
      BY <1>1, <2>1, GrowingLater DEF SeriesOK, Rings
    <3> QED
      BY <1>1, <2>1, <3>1, <3>2 DEF SeriesOK
  <2> QED
    BY <2>2, <2>3
<1>4. series' \in [Services -> Buffers] /\ pseries' \in [Slugs -> Rings]
  <2>1. /\ series' = [s \in Services |-> series'[s]]
        /\ pseries' = [p \in Slugs |-> pseries'[p]]
    BY DEF Tick
  <2> QED
    BY <1>2, <1>3, <2>1
<1>5. unsampled' \in [Services -> Notes]
  <2>1. unsampled' = [s \in Services |-> IF s \in DOMAIN snap
                                         THEN [n |-> 0, sound |-> snap[s] = counter[s]]
                                         ELSE unsampled[s]]
    BY DEF Tick
  <2>2. \A s \in Services : [n |-> 0, sound |-> snap[s] = counter[s]] \in Notes
    BY DEF Notes
  <2> QED
    BY <2>1, <2>2 DEF TypeInv
<1>6. unrecorded' \in [Slugs -> Notes]
  <2>1. unrecorded' = [p \in Slugs |-> IF listed THEN [n |-> 0, sound |-> snap = Complete]
                                       ELSE unrecorded[p]]
    BY DEF Tick
  <2>2. [n |-> 0, sound |-> snap = Complete] \in Notes
    BY DEF Notes
  <2> QED
    BY <2>1, <2>2 DEF TypeInv
<1>7. UNCHANGED <<counter, requests>>
  BY DEF Tick
<1> QED
  BY <1>1, <1>2, <1>3, <1>4, <1>5, <1>6, <1>7 DEF TypeInv

\* Every step is a tick, a request, a step of Traefik, a restart, or none.
LEMMA TypeNext == TypeInv /\ [Next]_vars => TypeInv'
<1> SUFFICES ASSUME TypeInv, [Next]_vars
             PROVE  TypeInv'
  OBVIOUS
<1>1. /\ requests \in 0..MaxRequests /\ counter \in [Services -> Counts]
      /\ MaxRequests \in Nat /\ clock \in Nat
      /\ unsampled \in [Services -> Notes] /\ unrecorded \in [Slugs -> Notes]
      /\ faults \in [FaultKinds -> Nat]
  BY TelemetryAssumption DEF TypeInv
<1>2. ASSUME UNCHANGED <<clock, series, pseries>>, requests' \in 0..MaxRequests,
             counter' \in [Services -> Counts], unsampled' \in [Services -> Notes],
             unrecorded' \in [Slugs -> Notes], faults' \in [FaultKinds -> Nat]
      PROVE  TypeInv'
  BY <1>2 DEF TypeInv
<1>3. ASSUME NEW s \in Services, NEW c \in Classes, Request(s, c)
      PROVE  TypeInv'
  <2>1. requests' \in 0..MaxRequests
    BY <1>1, <1>3 DEF Request
  <2>2. counter' \in [Services -> Counts]
    <3>1. [counter[s] EXCEPT ![c] = @ + 1] \in Counts
      BY <1>1 DEF Counts
    <3>2. counter' = [counter EXCEPT ![s] = [counter[s] EXCEPT ![c] = @ + 1]]
      BY <1>1, <1>3 DEF Request, Counts
    <3> QED
      BY <1>1, <3>1, <3>2
  <2>3. unsampled' \in [Services -> Notes]
    BY <1>1, <1>3 DEF Request, Notes
  <2>4. unrecorded' \in [Slugs -> Notes]
    <3>1. \A p \in Slugs : [unrecorded[p] EXCEPT !.n = @ + 1] \in Notes
      BY <1>1 DEF Notes
    <3> QED
      BY <1>1, <1>3, <3>1 DEF Request
  <2> QED
    BY <1>1, <1>2, <1>3, <2>1, <2>2, <2>3, <2>4 DEF Request
<1>4. ASSUME NEW counts \in Elsewhere, Replace(counts)
      PROVE  TypeInv'
  <2>1. counter' \in [Services -> Counts]
    BY <1>4, TelemetryAssumption DEF Replace
  <2>2. unsampled' \in [Services -> Notes]
    <3>1. \A s \in Services : [unsampled[s] EXCEPT !.sound = FALSE] \in Notes
      BY <1>1 DEF Notes
    <3> QED
      BY <1>4, <3>1 DEF Replace
  <2>3. unrecorded' \in [Slugs -> Notes]
    <3>1. \A p \in Slugs : [unrecorded[p] EXCEPT !.sound = FALSE] \in Notes
      BY <1>1 DEF Notes
    <3> QED
      BY <1>4, <3>1 DEF Replace
  <2>4. faults' \in [FaultKinds -> Nat]
    BY <1>1, <1>4, FaultTyped DEF Replace
  <2> QED
    BY <1>1, <1>2, <1>4, <2>1, <2>2, <2>3, <2>4 DEF Replace
<1>5. CASE Sample
  BY <1>5, SampleIsTick, TypeTick
<1>6. CASE Crash
  <2>1. faults' \in [FaultKinds -> Nat]
    BY <1>1, <1>6, FaultTyped DEF Crash
  <2>2. /\ NoBuffer \in Buffers /\ BufferOK(NoBuffer, clock)
        /\ NoSeries \in Rings /\ \A p \in Slugs : SeriesOK(NoSeries, clock, ServicesOf[p])
    BY <1>1, ProjectServices, Empty
  <2>3. UNCHANGED <<clock, counter, requests, unsampled>>
    BY <1>6 DEF Crash
  <2>4. series' = [s \in Services |-> NoBuffer] /\ pseries' = [p \in Slugs |-> NoSeries]
    BY <1>6 DEF Crash
  <2>5. series' \in [Services -> Buffers] /\ pseries' \in [Slugs -> Rings]
    BY <2>2, <2>4
  <2>6. \A s \in Services : BufferOK(series'[s], clock)
    BY <2>2, <2>4
  <2>7. \A p \in Slugs : SeriesOK(pseries'[p], clock, ServicesOf[p])
    BY <2>2, <2>4
  <2>8. unrecorded' \in [Slugs -> Notes]
    BY <1>6 DEF Crash, Nothing, Notes
  <2> QED
    BY <2>1, <2>3, <2>5, <2>6, <2>7, <2>8 DEF TypeInv
<1>7. CASE UNCHANGED vars
  BY <1>7 DEF vars, TypeInv
<1> QED
  BY <1>3, <1>4, <1>5, <1>6, <1>7 DEF Next

\* Nothing is counted at first.
LEMMA TypeInit == Init => TypeInv
<1> SUFFICES ASSUME Init
             PROVE  TypeInv
  OBVIOUS
<1>1. MaxTicks \in Nat /\ MaxRequests \in Nat
  BY TelemetryAssumption
<1>2. clock = 0 /\ requests = 0 /\ counter \in [Services -> Counts]
  BY DEF Init, Counts, Zero
<1>3. /\ NoBuffer \in Buffers /\ BufferOK(NoBuffer, clock)
      /\ NoSeries \in Rings /\ \A p \in Slugs : SeriesOK(NoSeries, clock, ServicesOf[p])
  BY <1>2, ProjectServices, Empty
<1>4. series \in [Services -> Buffers] /\ pseries \in [Slugs -> Rings]
  BY <1>3 DEF Init
<1>5. \A s \in Services : BufferOK(series[s], clock)
  BY <1>3 DEF Init
<1>6. \A p \in Slugs : SeriesOK(pseries[p], clock, ServicesOf[p])
  BY <1>3 DEF Init
<1>7. unsampled \in [Services -> Notes] /\ unrecorded \in [Slugs -> Notes]
  BY DEF Init, Nothing, Notes
<1>8. faults \in [FaultKinds -> Nat]
  BY DEF Init
<1> QED
  BY <1>1, <1>2, <1>4, <1>5, <1>6, <1>7, <1>8 DEF TypeInv

\* The rings never outgrow their caps, their points are in the order of their
\* times, at most one per tick, and a bucket in progress is never full,
\* whatever scrapes are cut and whichever replica answers.
THEOREM TypeCorrect == Spec => []TypeOK
<1>1. TypeInv => TypeOK
  <2> SUFFICES ASSUME TypeInv
               PROVE  TypeOK
    OBVIOUS
  <2>1. ASSUME NEW s \in Services
        PROVE  series[s].last \in Counts /\ series[s].points \in Charts(Ring)
    <3>1. BufferOK(series[s], clock)
      BY DEF TypeInv
    <3> QED
      BY <3>1 DEF BufferOK, Buffers, Charts, Growing
  <2>2. ASSUME NEW p \in Slugs
        PROVE  /\ pseries[p].prev \in [DOMAIN pseries[p].prev -> Counts]
               /\ DOMAIN pseries[p].prev \subseteq ServicesOf[p]
               /\ pseries[p].points \in Charts(Ring)
               /\ pseries[p].long \in Charts(LongRing)
               /\ pseries[p].accum \in [count : 0..(LongTicks - 1), n : Nat]
    <3>1. SeriesOK(pseries[p], clock, ServicesOf[p])
      BY DEF TypeInv
    <3>2. pseries[p].prev \in [DOMAIN pseries[p].prev -> Counts]
      BY <3>1, BookTypes DEF SeriesOK, Rings, IsBook
    <3> QED
      BY <3>1, <3>2 DEF SeriesOK, Rings, Accums, Charts, Growing
  <2> QED
    BY <2>1, <2>2 DEF TypeInv, TypeOK, Notes
<1> QED
  BY TypeInit, TypeNext, <1>1, PTL DEF Spec

-----------------------------------------------------------------------------
(***************************************************************************)
(* Points of a service are requests                                        *)
(***************************************************************************)
\* Since a sound sample the counters rose by exactly what was served.
Risen(s) ==
    /\ \A c \in Classes : series[s].last[c] <= counter[s][c]
    /\ Increase(Classes, counter[s], series[s].last) = unsampled[s].n

SampleInv ==
    \A s \in Services : series[s].last # Zero /\ unsampled[s].sound => Risen(s)

\* The values SampleInv is about.
LEMMA SampleTypes ==
    ASSUME TypeInv, NEW s \in Services
    PROVE  /\ counter[s] \in Counts /\ series[s].last \in Counts /\ unsampled[s] \in Notes
           /\ BufferOK(series[s], clock)
BY DEF TypeInv, Buffers

\* A tick samples what is in view and leaves the others alone.
LEMMA SampleTick ==
    ASSUME TypeInv, SampleInv, NEW snap, IsBook(snap, Services), NEW listed \in BOOLEAN,
           Tick(snap, listed)
    PROVE  SampleInv'
<1> SUFFICES ASSUME NEW s \in Services, series'[s].last # Zero, unsampled'[s].sound
             PROVE  Risen(s)'
  BY DEF SampleInv, Risen
<1>1. counter' = counter
  BY DEF Tick
<1>2. CASE s \in DOMAIN snap
  <2>1. unsampled'[s] = [n |-> 0, sound |-> snap[s] = counter[s]]
    BY <1>2 DEF Tick
  <2>2. series'[s].last = snap[s] /\ snap[s] = counter[s]
    BY <1>2, <2>1 DEF Tick, Sampled
  <2>3. Increase(Classes, counter[s], counter[s]) = 0
    BY SampleTypes, IncreaseNone
  <2>4. \A c \in Classes : counter[s][c] <= counter[s][c]
    BY SampleTypes DEF Counts
  <2> QED
    BY <1>1, <2>1, <2>2, <2>3, <2>4 DEF Risen
<1>3. CASE s \notin DOMAIN snap
  <2>1. series'[s] = series[s] /\ unsampled'[s] = unsampled[s]
    BY <1>3 DEF Tick
  <2> QED
    BY <1>1, <2>1 DEF SampleInv, Risen
<1> QED
  BY <1>2, <1>3

\* Every step keeps the counters and the samples in step.
LEMMA SampleNext == TypeInv /\ SampleInv /\ [Next]_vars => SampleInv'
<1> SUFFICES ASSUME TypeInv, SampleInv, [Next]_vars
             PROVE  SampleInv'
  OBVIOUS
<1>1. ASSUME NEW s \in Services, NEW c \in Classes, Request(s, c)
      PROVE  SampleInv'
  <2> SUFFICES ASSUME NEW r \in Services, series'[r].last # Zero, unsampled'[r].sound
               PROVE  Risen(r)'
    BY DEF SampleInv, Risen
  <2>1. series' = series /\ counter \in [Services -> Counts] /\ unsampled \in [Services -> Notes]
    BY <1>1 DEF Request, TypeInv
  <2>2. CASE r = s
    <3>1. /\ counter'[s] = [counter[s] EXCEPT ![c] = @ + 1]
          /\ unsampled'[s] = [unsampled[s] EXCEPT !.n = @ + 1]
      BY <1>1, <2>1 DEF Request
    <3>2. unsampled'[s].n = unsampled[s].n + 1 /\ unsampled'[s].sound = unsampled[s].sound
      BY <2>1, <3>1 DEF Notes
    <3>3. Risen(s)
      BY <2>1, <2>2, <3>2 DEF SampleInv
    <3>4. counter[s] \in Counts /\ series[s].last \in Counts
      BY SampleTypes
    <3>5. \A d \in Classes : series[s].last[d] <= counter[s][d]
      BY <3>3 DEF Risen
    <3>6. /\ \A d \in Classes : series[s].last[d] <= counter'[s][d]
          /\ Increase(Classes, counter'[s], series[s].last)
               = Increase(Classes, counter[s], series[s].last) + 1
      <4>1. counter'[s] = Bumped(counter[s], c)
        BY <3>1 DEF Bumped
      <4>2. PICK C \in SUBSET Classes : C = Classes
        OBVIOUS
      <4>3. /\ \A d \in Classes : series[s].last[d] <= Bumped(counter[s], c)[d]
            /\ Increase(C, Bumped(counter[s], c), series[s].last)
                 = Increase(C, counter[s], series[s].last) + 1
        BY <3>4, <3>5, <4>2, IncreaseRequest
      <4> QED
        BY <4>1, <4>2, <4>3
    <3> QED
      BY <2>1, <2>2, <3>2, <3>3, <3>6 DEF Risen
  <2>3. CASE r # s
    <3>1. counter'[r] = counter[r] /\ unsampled'[r] = unsampled[r]
      BY <1>1, <2>1, <2>3 DEF Request
    <3> QED
      BY <2>1, <3>1 DEF SampleInv, Risen
  <2> QED
    BY <2>2, <2>3
<1>2. ASSUME NEW counts \in Elsewhere, Replace(counts)
      PROVE  SampleInv'
  <2>1. \A s \in Services : ~unsampled'[s].sound
    BY <1>2 DEF Replace, TypeInv, Notes
  <2> QED
    BY <2>1 DEF SampleInv
<1>3. CASE Sample
  BY <1>3, SampleIsTick, SampleTick
<1>4. CASE Crash
  BY <1>4 DEF Crash, SampleInv, NoBuffer
<1>5. CASE UNCHANGED vars
  BY <1>5 DEF vars, SampleInv, Risen
<1> QED
  BY <1>1, <1>2, <1>3, <1>4, <1>5 DEF Next

\* The point a tick adds to a service.
LEMMA PointTick ==
    ASSUME TypeInv, SampleInv, NEW snap, IsBook(snap, Services), NEW listed \in BOOLEAN,
           Tick(snap, listed), NEW s \in Services, series'[s].points # series[s].points,
           unsampled[s].sound, unsampled'[s].sound
    PROVE  Last(series'[s].points).n = unsampled[s].n
<1>1. clock \in 0..(MaxTicks - 1) /\ clock' = clock + 1
  BY TelemetryAssumption DEF TypeInv, Tick
<1>2. s \in DOMAIN snap /\ series'[s] = Sampled(series[s], snap[s], clock + 1)
  BY <1>1 DEF Tick
<1>3. unsampled'[s] = [n |-> 0, sound |-> snap[s] = counter[s]]
  BY <1>2 DEF Tick
<1>4. snap[s] = counter[s] /\ counter[s] \in Counts
  <2>1. [n |-> 0, sound |-> snap[s] = counter[s]].sound = (snap[s] = counter[s])
    BY Zenon
  <2>2. snap[s] = counter[s]
    BY <1>3, <2>1, Zenon
  <2> QED
    BY <2>2, SampleTypes
<1>5. series[s].last # Zero
  BY <1>2 DEF Sampled
<1>6. Moved(series'[s].points, series[s].points, Fresh(counter[s], series[s].last, clock + 1), Ring)
  BY <1>1, <1>2, <1>4, <1>5, SampleTypes, SampledStep
<1>7. Last(series'[s].points).n = Increase(Classes, counter[s], series[s].last)
  BY <1>6 DEF Moved, Fresh
<1> QED
  BY <1>5, <1>7 DEF SampleInv, Risen

\* A new point of a service shows exactly the requests that the scraped replica
\* served since the service's previous sample, if both samples read all its
\* lines and Traefik was the same.
THEOREM PointsCorrect == Spec => PointsAreRequests
<1>1. Init => SampleInv
  BY DEF Init, SampleInv, NoBuffer
<1>2. TypeInv /\ SampleInv /\ [Next]_vars =>
        [\A s \in Services :
           /\ series'[s].points # series[s].points /\ series'[s].points # <<>>
           /\ unsampled[s].sound /\ unsampled'[s].sound
           => Last(series'[s].points).n = unsampled[s].n]_vars
  <2> SUFFICES ASSUME TypeInv, SampleInv, Next, NEW s \in Services,
                      series'[s].points # series[s].points, series'[s].points # <<>>,
                      unsampled[s].sound, unsampled'[s].sound
               PROVE  Last(series'[s].points).n = unsampled[s].n
    BY DEF vars
  <2>1. CASE Sample
    BY <2>1, SampleIsTick, PointTick
  <2>2. ~Crash
    BY DEF Crash, NoBuffer
  <2>3. \A r \in Services, c \in Classes : ~Request(r, c)
    BY DEF Request
  <2>4. \A counts \in Elsewhere : ~Replace(counts)
    BY DEF Replace
  <2> QED
    BY <2>1, <2>2, <2>3, <2>4 DEF Next
<1> QED
  BY TypeInit, TypeNext, SampleNext, <1>1, <1>2, PTL DEF Spec, PointsAreRequests

-----------------------------------------------------------------------------
(***************************************************************************)
(* Points of a project are requests                                        *)
(***************************************************************************)
\* The counters all are past those of prev, by n requests of the shown classes.
Ahead(prev, all, n) ==
    /\ \A s \in DOMAIN prev : prev[s] # Zero /\ \A c \in Classes : prev[s][c] <= all[s][c]
    /\ SumFunctionOnSet(Parted(prev, all), DOMAIN prev) = n

\* Since a sound point the counters rose by exactly what was served.
ProjectInv ==
    \A p \in Slugs : unrecorded[p].sound => Ahead(pseries[p].prev, counter, unrecorded[p].n)

\* The values ProjectInv is about.
LEMMA ProjectTypes ==
    ASSUME TypeInv, NEW p \in Slugs
    PROVE  /\ SeriesOK(pseries[p], clock, ServicesOf[p]) /\ unrecorded[p] \in Notes
           /\ IsBook(pseries[p].prev, Services) /\ DOMAIN pseries[p].prev \subseteq ServicesOf[p]
           /\ IsBook(counter, Services) /\ DOMAIN counter = Services
<1>1. SeriesOK(pseries[p], clock, ServicesOf[p]) /\ unrecorded[p] \in Notes
      /\ counter \in [Services -> Counts]
  BY DEF TypeInv
<1>2. pseries[p].prev \in Books
  BY <1>1 DEF SeriesOK, Rings
<1>3. IsBook(counter, Services) /\ DOMAIN counter = Services
  BY <1>1 DEF IsBook
<1> QED
  BY <1>1, <1>2, <1>3, BookTypes DEF SeriesOK

\* A request adds one where it is counted.
LEMMA AheadRequest ==
    ASSUME NEW prev, IsBook(prev, Services), NEW all \in [Services -> Counts], NEW n,
           Ahead(prev, all, n), NEW s \in Services, NEW c \in Classes
    PROVE  /\ s \in DOMAIN prev /\ c \in Shown =>
                 Ahead(prev, [all EXCEPT ![s] = Bumped(all[s], c)], n + 1)
           /\ ~(s \in DOMAIN prev /\ c \in Shown) =>
                 Ahead(prev, [all EXCEPT ![s] = Bumped(all[s], c)], n)
<1>1. PICK new : new = [all EXCEPT ![s] = Bumped(all[s], c)]
  OBVIOUS
<1>2. \A r \in Services : r # s => new[r] = all[r]
  BY <1>1
<1>3. new[s] = Bumped(all[s], c) /\ DOMAIN new = Services /\ DOMAIN all = Services
  BY <1>1
<1>4. PICK S : S = DOMAIN prev
  OBVIOUS
<1>5. S \in SUBSET Services /\ IsFiniteSet(S) /\ \A r \in S : prev[r] \in Counts
  BY <1>4, FS_Subset, TelemetryAssumption DEF IsBook
<1>6. PICK Sh \in SUBSET Classes : Sh = Shown
  BY TelemetryAssumption
<1>7. PICK f : f = Parted(prev, all)
  OBVIOUS
<1>8. PICK g : g = Parted(prev, new)
  OBVIOUS
<1>9. \A r \in S : f[r] = Increase(Sh, all[r], prev[r]) /\ g[r] = Increase(Sh, new[r], prev[r])
  BY <1>3, <1>4, <1>5, <1>6, <1>7, <1>8 DEF Parted
<1>10. \A r \in S : f[r] \in Int
  <2> SUFFICES ASSUME NEW r \in S
               PROVE  Increase(Sh, all[r], prev[r]) \in Int
    BY <1>9
  <2>1. PICK raw \in Counts : raw = all[r]
    BY <1>5
  <2>2. PICK last \in Counts : last = prev[r]
    BY <1>5
  <2>3. Increase(Sh, raw, last) \in Nat
    BY <1>6, IncreaseSum
  <2> QED
    BY <2>1, <2>2, <2>3
<1>11. \A r \in S : r # s => g[r] = f[r]
  BY <1>2, <1>5, <1>9
<1>12. SumFunctionOnSet(f, S) = n
  BY <1>4, <1>7 DEF Ahead
<1>13. \A r \in S : prev[r] # Zero /\ \A d \in Classes : prev[r][d] <= all[r][d]
  BY <1>4 DEF Ahead
<1>14. CASE s \in S
  <2>1. all[s] \in Counts /\ prev[s] \in Counts /\ \A d \in Classes : prev[s][d] <= all[s][d]
    BY <1>5, <1>13, <1>14
  <2>2. \A d \in Classes : prev[s][d] <= Bumped(all[s], c)[d]
    BY <2>1, IncreaseRequest
  <2>3. /\ c \in Sh => Increase(Sh, Bumped(all[s], c), prev[s]) = Increase(Sh, all[s], prev[s]) + 1
        /\ c \notin Sh => Increase(Sh, Bumped(all[s], c), prev[s]) = Increase(Sh, all[s], prev[s])
    BY <2>1, IncreaseRequest
  <2>4. /\ c \in Sh => g[s] = f[s] + 1
        /\ c \notin Sh => g[s] = f[s]
    BY <1>3, <1>9, <1>14, <2>3
  <2>5. \A r \in S : g[r] \in Int
    BY <1>10, <1>11, <1>14, <2>4
  <2>6. SumFunctionOnSet(f, S) = f[s] + SumFunctionOnSet(f, S \ {s})
    BY <1>5, <1>10, <1>14, SumRemove
  <2>7. SumFunctionOnSet(g, S) = g[s] + SumFunctionOnSet(g, S \ {s})
    BY <1>5, <1>14, <2>5, SumRemove
  <2>8. IsFiniteSet(S \ {s}) /\ \A r \in S \ {s} : f[r] \in Int /\ f[r] = g[r]
    BY <1>5, <1>10, <1>11, FS_Subset
  <2>9. SumFunctionOnSet(f, S \ {s}) = SumFunctionOnSet(g, S \ {s})
    BY <2>8, SumEqual
  <2>10. SumFunctionOnSet(f, S \ {s}) \in Int
    BY <2>8, SumType
  <2>11. /\ c \in Sh => SumFunctionOnSet(g, S) = n + 1
         /\ c \notin Sh => SumFunctionOnSet(g, S) = n
    BY <1>10, <1>12, <1>14, <2>4, <2>6, <2>7, <2>9, <2>10
  <2>12. \A r \in S : prev[r] # Zero /\ \A d \in Classes : prev[r][d] <= new[r][d]
    <3> SUFFICES ASSUME NEW r \in S
                 PROVE  \A d \in Classes : prev[r][d] <= new[r][d]
      BY <1>13
    <3>1. CASE r = s
      BY <1>3, <2>2, <3>1
    <3>2. CASE r # s
      BY <1>2, <1>5, <1>13, <3>2
    <3> QED
      BY <3>1, <3>2
  <2>13. /\ c \in Shown => Ahead(prev, new, n + 1)
         /\ c \notin Shown => Ahead(prev, new, n)
    BY <1>4, <1>6, <1>8, <2>11, <2>12 DEF Ahead
  <2> QED
    BY <1>1, <1>4, <1>14, <2>13
<1>15. CASE s \notin S
  <2>1. \A r \in S : f[r] \in Int /\ f[r] = g[r]
    BY <1>10, <1>11, <1>15
  <2>2. SumFunctionOnSet(f, S) = SumFunctionOnSet(g, S)
    BY <1>5, <2>1, SumEqual
  <2>3. \A r \in S : prev[r] # Zero /\ \A d \in Classes : prev[r][d] <= new[r][d]
    BY <1>2, <1>5, <1>13, <1>15
  <2>4. Ahead(prev, new, n)
    BY <1>4, <1>8, <1>12, <2>2, <2>3 DEF Ahead
  <2> QED
    BY <1>1, <1>4, <1>15, <2>4
<1> QED
  BY <1>14, <1>15

\* What a complete scrape shows is not ahead of itself.
LEMMA AheadNow ==
    ASSUME NEW all \in [Services -> Counts], NEW seen, DOMAIN seen \in SUBSET Services,
           \A s \in DOMAIN seen : seen[s] = all[s] /\ all[s] # Zero
    PROVE  Ahead(seen, all, 0)
<1>1. PICK S \in SUBSET Services : S = DOMAIN seen
  OBVIOUS
<1>2. IsFiniteSet(S) /\ \A s \in S : seen[s] \in Counts /\ all[s] \in Counts
  BY <1>1, FS_Subset, TelemetryAssumption
<1>3. PICK f : f = Parted(seen, all)
  OBVIOUS
<1>4. PICK Sh \in SUBSET Classes : Sh = Shown
  BY TelemetryAssumption
<1>5. \A s \in S : f[s] = 0 /\ f[s] \in Nat
  <2> SUFFICES ASSUME NEW s \in S
               PROVE  f[s] = 0
    OBVIOUS
  <2>1. f[s] = Increase(Sh, all[s], all[s])
    BY <1>1, <1>3, <1>4 DEF Parted
  <2> QED
    BY <1>2, <1>4, <2>1, IncreaseNone
<1>6. SumFunctionOnSet(f, S) = 0
  BY <1>2, <1>5, SumNat
<1>7. \A s \in S : seen[s] # Zero /\ \A c \in Classes : seen[s][c] <= all[s][c]
  BY <1>1, <1>2 DEF Counts
<1> QED
  BY <1>1, <1>3, <1>6, <1>7 DEF Ahead

\* The point of a complete scrape is what the counters are ahead by.
LEMMA AheadDelta ==
    ASSUME NEW all \in [Services -> Counts], NEW prev, IsBook(prev, Services), NEW n,
           Ahead(prev, all, n), NEW seen, IsBook(seen, Services),
           \A s \in DOMAIN prev : all[s] # Zero => s \in DOMAIN seen,
           \A s \in DOMAIN seen : seen[s] = all[s]
    PROVE  Delta(prev, seen) = n
<1>1. PICK S, T : S = DOMAIN prev /\ T = DOMAIN seen
  OBVIOUS
<1>2. S \in SUBSET Services /\ T \in SUBSET Services
  BY <1>1 DEF IsBook
<1>3. S \in SUBSET T
  <2> SUFFICES ASSUME NEW s \in S
               PROVE  s \in T
    OBVIOUS
  <2>1. prev[s] \in Counts /\ all[s] \in Counts
    BY <1>1, <1>2 DEF IsBook
  <2>2. prev[s] # Zero /\ \A c \in Classes : prev[s][c] <= all[s][c]
    BY <1>1 DEF Ahead
  <2>3. all[s] # Zero
    <3> SUFFICES ASSUME all[s] = Zero
                 PROVE  FALSE
      OBVIOUS
    <3>1. \A c \in Classes : prev[s][c] = 0
      BY <2>1, <2>2 DEF Zero, Counts
    <3>2. prev[s] = Zero
      BY <2>1, <3>1 DEF Zero, Counts
    <3> QED
      BY <2>2, <3>2
  <2> QED
    BY <1>1, <2>3
<1>4. PICK f : f = Parted(prev, seen)
  OBVIOUS
<1>5. PICK g : g = Parted(prev, all)
  OBVIOUS
<1>6. /\ IsFiniteSet(T) /\ \A s \in T : f[s] \in Nat
      /\ Delta(prev, seen) = SumFunctionOnSet(f, T)
  BY <1>1, <1>4, DeltaSum
<1>7. \A s \in T \ S : f[s] = 0
  BY <1>1, <1>4 DEF Parted
<1>8. SumFunctionOnSet(f, S) = SumFunctionOnSet(f, T)
  <2>1. \A s \in T : f[s] \in Int /\ 0 <= f[s]
    BY <1>6
  <2> QED
    BY <1>3, <1>6, <1>7, <2>1, SumSubset
<1>9. \A s \in S : f[s] \in Int /\ f[s] = g[s]
  BY <1>1, <1>2, <1>3, <1>4, <1>5, <1>6 DEF Parted
<1>10. SumFunctionOnSet(f, S) = SumFunctionOnSet(g, S)
  BY <1>3, <1>6, <1>9, FS_Subset, SumEqual
<1>11. SumFunctionOnSet(g, S) = n
  BY <1>1, <1>5 DEF Ahead
<1> QED
  BY <1>6, <1>8, <1>10, <1>11

\* What a project sees of a complete scrape: its services that served a request.
LEMMA SeenComplete ==
    ASSUME TypeInv, NEW p \in Slugs, NEW seen,
           seen = Restrict(Complete, DOMAIN Complete \cap ServicesOf[p])
    PROVE  /\ DOMAIN seen = {s \in Services : counter[s] # Zero} \cap ServicesOf[p]
           /\ \A s \in DOMAIN seen : seen[s] = counter[s]
BY DEF Complete, Restrict

\* A tick that lists the projects starts anew, and one that does not changes
\* nothing.
LEMMA AheadTick ==
    ASSUME TypeInv, ProjectInv, NEW snap, IsBook(snap, Services), NEW listed \in BOOLEAN,
           Tick(snap, listed)
    PROVE  ProjectInv'
<1> SUFFICES ASSUME NEW p \in Slugs, unrecorded'[p].sound
             PROVE  Ahead(pseries'[p].prev, counter, unrecorded'[p].n)
  BY DEF ProjectInv, Tick
<1>1. CASE listed
  <2>1. unrecorded'[p] = [n |-> 0, sound |-> snap = Complete]
    BY <1>1 DEF Tick
  <2>2. [n |-> 0, sound |-> snap = Complete].sound = (snap = Complete)
    BY Zenon
  <2>3. snap = Complete
    BY <2>1, <2>2, Zenon
  <2>4. PICK seen : /\ IsBook(seen, ServicesOf[p])
                    /\ seen = Restrict(snap, DOMAIN snap \cap ServicesOf[p])
                    /\ pseries'[p] = Recorded(pseries[p], seen, clock + 1)
    BY <1>1, ProjectTick
  <2>5. pseries'[p].prev = seen
    BY <2>4 DEF Recorded
  <2>6. /\ DOMAIN seen = {s \in Services : counter[s] # Zero} \cap ServicesOf[p]
        /\ \A s \in DOMAIN seen : seen[s] = counter[s]
    BY <2>3, <2>4, SeenComplete
  <2>7. counter \in [Services -> Counts] /\ DOMAIN seen \in SUBSET Services
    BY <2>6 DEF TypeInv
  <2>8. \A s \in DOMAIN seen : seen[s] = counter[s] /\ counter[s] # Zero
    BY <2>6
  <2>9. Ahead(seen, counter, 0)
    BY <2>7, <2>8, AheadNow
  <2>10. unrecorded'[p].n = 0
    BY <2>1
  <2> QED
    BY <2>5, <2>9, <2>10
<1>2. CASE ~listed
  BY <1>2 DEF ProjectInv, Tick
<1> QED
  BY <1>1, <1>2

\* Every step keeps the counters and the points in step.
LEMMA ProjectNext == TypeInv /\ ProjectInv /\ [Next]_vars => ProjectInv'
<1> SUFFICES ASSUME TypeInv, ProjectInv, [Next]_vars
             PROVE  ProjectInv'
  OBVIOUS
<1>0. unrecorded \in [Slugs -> Notes] /\ counter \in [Services -> Counts]
  BY DEF TypeInv
<1>1. ASSUME NEW s \in Services, NEW c \in Classes, Request(s, c)
      PROVE  ProjectInv'
  <2> SUFFICES ASSUME NEW p \in Slugs, unrecorded'[p].sound
               PROVE  Ahead(pseries[p].prev, counter', unrecorded'[p].n)
    BY <1>1 DEF ProjectInv, Request
  <2>1. counter' = [counter EXCEPT ![s] = Bumped(counter[s], c)]
    BY <1>0, <1>1 DEF Request, Bumped
  <2>2. unrecorded'[p] = IF Counted(p, s, c) THEN [unrecorded[p] EXCEPT !.n = @ + 1]
                         ELSE unrecorded[p]
    BY <1>1 DEF Request
  <2>3. /\ unrecorded[p].sound
        /\ unrecorded'[p].n = IF Counted(p, s, c) THEN unrecorded[p].n + 1 ELSE unrecorded[p].n
    BY <1>0, <2>2 DEF Notes
  <2>4. Ahead(pseries[p].prev, counter, unrecorded[p].n)
    BY <2>3 DEF ProjectInv
  <2>5. PICK prev : prev = pseries[p].prev
    OBVIOUS
  <2>6. IsBook(prev, Services) /\ DOMAIN prev \subseteq ServicesOf[p]
    BY <2>5, ProjectTypes
  <2>7. Counted(p, s, c) <=> s \in DOMAIN prev /\ c \in Shown
    BY <2>5, <2>6 DEF Counted
  <2>8. /\ s \in DOMAIN prev /\ c \in Shown =>
              Ahead(prev, [counter EXCEPT ![s] = Bumped(counter[s], c)], unrecorded[p].n + 1)
        /\ ~(s \in DOMAIN prev /\ c \in Shown) =>
              Ahead(prev, [counter EXCEPT ![s] = Bumped(counter[s], c)], unrecorded[p].n)
    BY <1>0, <2>4, <2>5, <2>6, AheadRequest
  <2> QED
    BY <2>1, <2>3, <2>5, <2>7, <2>8
<1>2. ASSUME NEW counts \in Elsewhere, Replace(counts)
      PROVE  ProjectInv'
  <2>1. \A p \in Slugs : ~unrecorded'[p].sound
    BY <1>0, <1>2 DEF Replace, Notes
  <2> QED
    BY <2>1 DEF ProjectInv
<1>3. CASE Sample
  BY <1>3, SampleIsTick, AheadTick
<1>4. CASE Crash
  <2> SUFFICES ASSUME NEW p \in Slugs
               PROVE  Ahead(pseries'[p].prev, counter', unrecorded'[p].n)
    BY DEF ProjectInv
  <2>1. counter' = counter /\ pseries'[p].prev = <<>> /\ unrecorded'[p].n = 0
    BY <1>4 DEF Crash, NoSeries, Nothing
  <2>2. Ahead(<<>>, counter, 0)
    BY <1>0, AheadNow
  <2> QED
    BY <2>1, <2>2
<1>5. CASE UNCHANGED vars
  BY <1>5 DEF vars, ProjectInv
<1> QED
  BY <1>1, <1>2, <1>3, <1>4, <1>5 DEF Next

\* The point a tick adds to a project.
LEMMA ProjectPoint ==
    ASSUME TypeInv, ProjectInv, NEW snap, IsBook(snap, Services), NEW listed \in BOOLEAN,
           Tick(snap, listed), NEW p \in Slugs, pseries'[p].points # pseries[p].points,
           unrecorded[p].sound, unrecorded'[p].sound
    PROVE  Last(pseries'[p].points).n = unrecorded[p].n
<1>1. listed
  BY DEF Tick
<1>2. unrecorded'[p] = [n |-> 0, sound |-> snap = Complete]
  BY <1>1 DEF Tick
<1>3. [n |-> 0, sound |-> snap = Complete].sound = (snap = Complete)
  BY Zenon
<1>4. snap = Complete
  BY <1>2, <1>3, Zenon
<1>5. PICK seen : /\ IsBook(seen, ServicesOf[p])
                  /\ seen = Restrict(snap, DOMAIN snap \cap ServicesOf[p])
                  /\ pseries'[p] = Recorded(pseries[p], seen, clock + 1)
  BY <1>1, ProjectTick
<1>6. /\ DOMAIN seen = {s \in Services : counter[s] # Zero} \cap ServicesOf[p]
      /\ \A s \in DOMAIN seen : seen[s] = counter[s]
  BY <1>4, <1>5, SeenComplete
<1>7. PICK buf : buf = pseries[p]
  OBVIOUS
<1>8. PICK S \in SUBSET Services : S = ServicesOf[p]
  BY ProjectServices
<1>9. clock \in 0..(MaxTicks - 1)
  BY BoundTypes DEF TypeInv, Tick
<1>10. /\ SeriesOK(buf, clock, S) /\ IsBook(buf.prev, Services) /\ DOMAIN buf.prev \subseteq S
       /\ counter \in [Services -> Counts]
  BY <1>7, <1>8, ProjectTypes DEF TypeInv
<1>11. PICK n : n = Delta(buf.prev, seen)
  OBVIOUS
<1>12. Moved(pseries'[p].points, buf.points, [t |-> clock + 1, n |-> n], Ring)
  <2>1. IsBook(seen, S)
    BY <1>5, <1>8
  <2>2. Recording(Recorded(buf, seen, clock + 1), buf, seen, clock + 1, S, Delta(buf.prev, seen))
    BY <1>9, <1>10, <2>1, RecordedStep
  <2> QED
    BY <1>5, <1>7, <1>11, <2>2 DEF Recording, Folded
<1>13. Last(pseries'[p].points).n = n
  BY <1>12 DEF Moved
<1>14. Ahead(buf.prev, counter, unrecorded[p].n)
  BY <1>7 DEF ProjectInv
<1>15. IsBook(seen, Services)
  BY <1>5, <1>8 DEF IsBook
<1>16. \A s \in DOMAIN buf.prev : counter[s] # Zero => s \in DOMAIN seen
  BY <1>6, <1>8, <1>10
<1>17. Delta(buf.prev, seen) = unrecorded[p].n
  BY <1>6, <1>10, <1>14, <1>15, <1>16, AheadDelta
<1> QED
  BY <1>11, <1>13, <1>17

\* A new point of a project shows exactly the requests of the shown classes
\* since the project's previous point, of the services that had been in view
\* then, if both scrapes were complete and Traefik was the same.
THEOREM ProjectPointsCorrect == Spec => ProjectPointsAreRequests
<1>1. Init => ProjectInv
  <2> SUFFICES ASSUME Init, NEW p \in Slugs
               PROVE  Ahead(pseries[p].prev, counter, unrecorded[p].n)
    BY DEF ProjectInv
  <2>1. pseries[p].prev = <<>> /\ unrecorded[p].n = 0
    BY DEF Init, NoSeries, Nothing
  <2>2. counter \in [Services -> Counts]
    BY DEF Init, Zero, Counts
  <2>3. Ahead(<<>>, counter, 0)
    BY <2>2, AheadNow
  <2> QED
    BY <2>1, <2>3
<1>2. TypeInv /\ ProjectInv /\ [Next]_vars =>
        [\A p \in Slugs :
           /\ pseries'[p].points # pseries[p].points /\ pseries'[p].points # <<>>
           /\ unrecorded[p].sound /\ unrecorded'[p].sound
           => Last(pseries'[p].points).n = unrecorded[p].n]_vars
  <2> SUFFICES ASSUME TypeInv, ProjectInv, Next, NEW p \in Slugs,
                      pseries'[p].points # pseries[p].points, pseries'[p].points # <<>>,
                      unrecorded[p].sound, unrecorded'[p].sound
               PROVE  Last(pseries'[p].points).n = unrecorded[p].n
    BY DEF vars
  <2>1. CASE Sample
    BY <2>1, SampleIsTick, ProjectPoint
  <2>2. ~Crash
    BY DEF Crash, NoSeries
  <2>3. \A s \in Services, c \in Classes : ~Request(s, c)
    BY DEF Request
  <2>4. \A counts \in Elsewhere : ~Replace(counts)
    BY DEF Replace
  <2> QED
    BY <2>1, <2>2, <2>3, <2>4 DEF Next
<1> QED
  BY TypeInit, TypeNext, ProjectNext, <1>1, <1>2, PTL DEF Spec, ProjectPointsAreRequests

-----------------------------------------------------------------------------
(***************************************************************************)
(* Downsampling                                                            *)
(***************************************************************************)
\* The points of q at the positions from a to b.
Slice(q, a, b) == {q[i] : i \in a..b}

\* A slice of a ring holds points, none of a later tick.
LEMMA SlicePoints ==
    ASSUME NEW q \in Seq(Point), NEW now \in Nat, Growing(q, now), NEW a \in Nat \ {0}
    PROVE  /\ IsFiniteSet(Slice(q, a, Len(q))) /\ Slice(q, a, Len(q)) \in SUBSET Point
           /\ \A pt \in Slice(q, a, Len(q)) : pt.t <= now
<1>1. PICK n \in Nat : n = Len(q) /\ DOMAIN q = 1..n
  BY LenProperties
<1>2. IsFiniteSet(Slice(q, a, n))
  <2>1. a \in Int /\ n \in Int
    OBVIOUS
  <2> QED
    BY <2>1, FinitePoints, Zenon DEF Slice
<1>3. \A i \in a..n : i \in 1..n
  OBVIOUS
<1>4. \A i \in 1..n : q[i] \in Point
  BY <1>1, ElementOfSeq
<1>5. \A i \in 1..n : q[i].t <= now
  <2> SUFFICES ASSUME NEW i \in 1..n
               PROVE  q[i].t <= now
    OBVIOUS
  <2>1. q[i].t <= now - (n - i)
    BY <1>1 DEF Growing
  <2>2. q[i].t \in Int
    BY <1>4 DEF Point
  <2> QED
    BY <2>1, <2>2
<1>6. Slice(q, a, n) \in SUBSET Point
  BY <1>3, <1>4 DEF Slice
<1>7. \A pt \in Slice(q, a, n) : pt.t <= now
  BY <1>3, <1>5 DEF Slice
<1> QED
  BY <1>1, <1>2, <1>6, <1>7

\* The slices of r are those of q moved by d; those that reach the end hold e too.
SlicesMove(q, r, e, n, m, d) ==
    /\ \A a \in Nat, b \in Nat : 1 <= a /\ b < m => Slice(r, a, b) = Slice(q, a + d, b + d)
    /\ \A a \in Nat : 1 <= a /\ a <= m => Slice(r, a, m) = Slice(q, a + d, n) \cup {e}

\* When a point is appended, the slices move by d.
LEMMA SliceMoved ==
    ASSUME NEW q, NEW r, NEW e, NEW n \in Nat, NEW m \in Nat, NEW d \in 0..1,
           m = n + 1 - d, r[m] = e, \A i \in 1..(m - 1) : r[i] = q[i + d]
    PROVE  SlicesMove(q, r, e, n, m, d)
<1>1. ASSUME NEW a \in Nat, NEW b \in Nat, 1 <= a, b < m
      PROVE  Slice(r, a, b) = Slice(q, a + d, b + d)
  <2>1. \A i \in a..b : r[i] = q[i + d] /\ i + d \in (a + d)..(b + d)
    <3>1. \A i \in a..b : i \in 1..(m - 1)
      BY <1>1
    <3> QED
      BY <3>1
  <2>2. \A j \in (a + d)..(b + d) : j - d \in a..b /\ (j - d) + d = j
    OBVIOUS
  <2>3. \A j \in (a + d)..(b + d) : \E i \in a..b : r[i] = q[j]
    BY <2>1, <2>2
  <2>4. PICK A, B : A = {r[i] : i \in a..b} /\ B = {q[j] : j \in (a + d)..(b + d)}
    OBVIOUS
  <2>5. \A x \in A : x \in B
    BY <2>1, <2>4
  <2>6. \A x \in B : x \in A
    BY <2>3, <2>4
  <2>7. A = B
    BY <2>5, <2>6
  <2> QED
    BY <2>4, <2>7 DEF Slice
<1>2. ASSUME NEW a \in Nat, 1 <= a, a <= m
      PROVE  Slice(r, a, m) = Slice(q, a + d, n) \cup {e}
  <2>1. PICK b \in Nat : b = m - 1
    BY <1>2
  <2>2. b < m /\ b + d = n
    BY <2>1
  <2>3. Slice(r, a, b) = Slice(q, a + d, n)
    BY <1>1, <1>2, <2>2
  <2>4. \A i : i \in a..m <=> i \in a..b \/ i = m
    BY <1>2, <2>1
  <2>5. Slice(r, a, m) = Slice(r, a, b) \cup {r[m]}
    BY <2>4 DEF Slice
  <2> QED
    BY <2>3, <2>5
<1> QED
  BY <1>1, <1>2 DEF SlicesMove

\* LongPointsAreSums for one project; what it adds up is still in the ring.
LongOK(buf) ==
    LET n     == Len(buf.points)
        start == n - buf.accum.count
    IN  /\ buf.accum.count <= n
        /\ buf.accum.n = Total(Slice(buf.points, start + 1, n))
        /\ buf.long # <<>> =>
              /\ buf.accum.count + LongTicks <= n
              /\ Last(buf.long).n = Total(Slice(buf.points, start - LongTicks + 1, start))
              /\ Last(buf.long).t = buf.points[start].t

\* A point goes into the bucket, and a full bucket into a long point.
LEMMA LongStep ==
    ASSUME NEW S \in SUBSET Services, NEW buf, NEW now \in 0..(MaxTicks - 1),
           SeriesOK(buf, now, S), LongOK(buf), NEW seen, IsBook(seen, S)
    PROVE  LongOK(Recorded(buf, seen, now + 1))
<1>1. PICK new : new = Recorded(buf, seen, now + 1)
  OBVIOUS
<1>2. PICK x : x = Delta(buf.prev, seen)
  OBVIOUS
<1>3. PICK e : e = [t |-> now + 1, n |-> x]
  OBVIOUS
<1>4. /\ SeriesOK(new, now + 1, S)
      /\ x \in Nat
      /\ Moved(new.points, buf.points, e, Ring)
      /\ buf.accum.count + 1 < LongTicks =>
            /\ new.accum.count = buf.accum.count + 1 /\ new.accum.n = buf.accum.n + x
            /\ new.long = buf.long
      /\ buf.accum.count + 1 >= LongTicks =>
            /\ buf.accum.count + 1 = LongTicks
            /\ new.accum.count = 0 /\ new.accum.n = 0
            /\ Moved(new.long, buf.long, [t |-> now + 1, n |-> buf.accum.n + x], LongRing)
  <2>1. SeriesOK(new, now + 1, S) /\ x \in Nat /\ Folded(new, buf, now + 1, x)
    BY <1>1, <1>2, RecordedStep DEF Recording
  <2> QED
    BY <1>3, <2>1 DEF Folded
<1>5. PICK q, r : q = buf.points /\ r = new.points
  OBVIOUS
<1>6. q \in Seq(Point) /\ r \in Seq(Point) /\ Growing(q, now)
  BY <1>4, <1>5 DEF SeriesOK, Rings
<1>7. PICK n \in Nat : n = Len(q)
  BY <1>6, LenProperties
<1>8. PICK m \in Nat : m = Len(r)
  BY <1>6, LenProperties
<1>9. PICK d \in 0..1 : (d = 1 <=> n = Ring) /\ m = n + 1 - d /\ \A i \in 1..(m - 1) : r[i] = q[i + d]
  BY <1>4, <1>5, <1>7, <1>8 DEF Moved
<1>10. r[m] = e /\ m >= 1
  BY <1>4, <1>5, <1>8, <1>9 DEF Moved
<1>11. /\ \A a \in Nat, b \in Nat : 1 <= a /\ b < m => Slice(r, a, b) = Slice(q, a + d, b + d)
       /\ \A a \in Nat : 1 <= a /\ a <= m => Slice(r, a, m) = Slice(q, a + d, n) \cup {e}
  <2>1. m = n + 1 - d /\ r[m] = e /\ \A i \in 1..(m - 1) : r[i] = q[i + d]
    BY <1>9, <1>10
  <2>2. SlicesMove(q, r, e, n, m, d)
    BY <2>1, SliceMoved
  <2> QED
    BY <2>2 DEF SlicesMove
<1>12. PICK c \in Nat : c = buf.accum.count
  BY TelemetryAssumption DEF SeriesOK, Rings, Accums
<1>13. /\ LongTicks \in Nat \ {0} /\ Ring \in Nat /\ Ring >= 2 * LongTicks /\ c < LongTicks
       /\ c <= n /\ MaxTicks \in Nat /\ now \in Nat
  <2>1. c \in 0..(LongTicks - 1)
    BY <1>12 DEF SeriesOK, Rings, Accums
  <2> QED
    BY <1>5, <1>7, <1>12, <2>1, TelemetryAssumption DEF LongOK
<1>14. PICK start \in Nat : start = n - c
  BY <1>13
<1>15. PICK sum : sum = buf.accum.n
  OBVIOUS
<1>16. sum = Total(Slice(q, start + 1, n)) /\ start + 1 \in Nat \ {0}
  BY <1>5, <1>7, <1>12, <1>14, <1>15 DEF LongOK
<1>17. Total(Slice(q, start + 1, n) \cup {e}) = sum + x
  <2>1. e \in Point /\ e.t = now + 1 /\ e.n = x
    BY <1>3, <1>4, TelemetryAssumption DEF Point
  <2>2. PICK P : P = Slice(q, start + 1, n)
    OBVIOUS
  <2>3. IsFiniteSet(P) /\ P \in SUBSET Point /\ \A pt \in P : pt.t <= now
    BY <1>6, <1>7, <1>13, <1>16, <2>2, SlicePoints
  <2>4. e \notin P
    BY <1>13, <2>1, <2>3
  <2> QED
    BY <1>16, <2>1, <2>2, <2>3, <2>4, TotalAdd
<1>18. PICK first \in Nat : first = start - d
  BY <1>9, <1>13, <1>14
<1>19. ASSUME c + 1 < LongTicks
       PROVE  LongOK(new)
  <2>1. new.accum.count = c + 1 /\ new.accum.n = sum + x /\ new.long = buf.long
    BY <1>4, <1>12, <1>15, <1>19
  <2>2. first = m - (c + 1) /\ c + 1 <= m /\ first + 1 <= m /\ (first + 1) + d = start + 1
    BY <1>9, <1>14, <1>18
  <2>3. Slice(r, first + 1, m) = Slice(q, start + 1, n) \cup {e}
    <3>1. first + 1 \in Nat /\ 1 <= first + 1
      OBVIOUS
    <3> QED
      BY <1>11, <2>2, <3>1
  <2>4. sum + x = Total(Slice(r, first + 1, m))
    BY <1>17, <2>3
  <2>5. ASSUME buf.long # <<>>
        PROVE  /\ (c + 1) + LongTicks <= m
               /\ Last(buf.long).n = Total(Slice(r, first - LongTicks + 1, first))
               /\ Last(buf.long).t = r[first].t
    <3>1. /\ c + LongTicks <= n
          /\ Last(buf.long).n = Total(Slice(q, start - LongTicks + 1, start))
          /\ Last(buf.long).t = q[start].t
      BY <1>5, <1>7, <1>12, <1>14, <2>5 DEF LongOK
    <3>2. (c + 1) + LongTicks <= m
      BY <1>9, <1>13, <1>19, <3>1
    <3>3. PICK a \in Nat : a = first - LongTicks + 1
      BY <1>13, <2>2, <3>2
    <3>4. 1 <= a /\ first < m /\ a + d = start - LongTicks + 1 /\ first + d = start
      BY <1>13, <1>18, <2>2, <3>2, <3>3
    <3>5. Slice(r, a, first) = Slice(q, a + d, first + d)
      BY <1>11, <3>4
    <3>6. first \in 1..(m - 1)
      BY <1>13, <2>2, <3>2
    <3>7. r[first] = q[first + d]
      BY <1>9, <3>6
    <3> QED
      BY <3>1, <3>2, <3>3, <3>4, <3>5, <3>7
  <2> QED
    BY <1>5, <1>8, <2>1, <2>2, <2>4, <2>5 DEF LongOK
<1>20. ASSUME ~(c + 1 < LongTicks)
       PROVE  LongOK(new)
  <2>1. c + 1 >= LongTicks
    BY <1>13, <1>20
  <2>2. /\ c + 1 = LongTicks /\ new.accum.count = 0 /\ new.accum.n = 0
        /\ Moved(new.long, buf.long, [t |-> now + 1, n |-> sum + x], LongRing)
    BY <1>4, <1>12, <1>15, <2>1
  <2>3. Last(new.long).n = sum + x /\ Last(new.long).t = now + 1
    BY <2>2 DEF Moved
  <2>4. first + 1 = m - LongTicks + 1 /\ first + 1 <= m /\ (first + 1) + d = start + 1
        /\ LongTicks <= m /\ first + 1 \in Nat /\ 1 <= first + 1
    BY <1>9, <1>13, <1>14, <1>18, <2>2
  <2>5. Slice(r, first + 1, m) = Slice(q, start + 1, n) \cup {e}
    BY <1>11, <2>4
  <2>6. Last(new.long).n = Total(Slice(r, m - LongTicks + 1, m))
    BY <1>17, <2>3, <2>4, <2>5
  <2>7. Last(new.long).t = r[m].t
    BY <1>3, <1>10, <2>3
  <2>8. Total(Slice(r, m + 1, m)) = 0
    <3>1. Slice(r, m + 1, m) = {}
      BY DEF Slice
    <3> QED
      BY <3>1, TotalEmpty
  <2>9. m - 0 = m
    OBVIOUS
  <2> QED
    BY <1>5, <1>8, <2>2, <2>4, <2>6, <2>7, <2>8, <2>9 DEF LongOK
<1> QED
  BY <1>1, <1>19, <1>20

\* ... for all projects.
LongInv == \A p \in Slugs : LongOK(pseries[p])

\* A project without points has nothing to add up.
LEMMA LongEmpty == LongOK(NoSeries)
<1>1. /\ NoSeries.points = <<>> /\ NoSeries.long = <<>>
      /\ NoSeries.accum.count = 0 /\ NoSeries.accum.n = 0 /\ Len(<<>>) = 0
  BY DEF NoSeries, NoAccum
<1>2. Slice(<<>>, 1, 0) = {}
  BY DEF Slice
<1>3. PICK buf : buf = NoSeries
  OBVIOUS
<1>4. /\ Len(buf.points) = 0 /\ buf.accum.count = 0 /\ buf.accum.n = 0 /\ buf.long = <<>>
      /\ Slice(buf.points, 1, 0) = {} /\ 0 - 0 = 0 /\ 0 + 1 = 1
  BY <1>1, <1>2, <1>3
<1>5. buf.accum.n = Total(Slice(buf.points, (Len(buf.points) - buf.accum.count) + 1, Len(buf.points)))
  BY <1>4, TotalEmpty
<1>6. LongOK(buf)
  BY <1>4, <1>5 DEF LongOK
<1> QED
  BY <1>3, <1>6

\* A tick records a point of every project, or of none.
LEMMA LongTick ==
    ASSUME TypeInv, LongInv, NEW snap, IsBook(snap, Services), NEW listed \in BOOLEAN,
           Tick(snap, listed)
    PROVE  LongInv'
<1> SUFFICES ASSUME NEW p \in Slugs
             PROVE  LongOK(pseries'[p])
  BY DEF LongInv
<1>1. LongOK(pseries[p]) /\ SeriesOK(pseries[p], clock, ServicesOf[p])
  BY DEF LongInv, TypeInv
<1>2. clock \in 0..(MaxTicks - 1)
  BY BoundTypes DEF TypeInv, Tick
<1>3. CASE listed
  <2>1. PICK seen : IsBook(seen, ServicesOf[p]) /\ pseries'[p] = Recorded(pseries[p], seen, clock + 1)
    BY <1>3, ProjectTick
  <2> QED
    BY <1>1, <1>2, <2>1, ProjectServices, LongStep
<1>4. CASE ~listed
  BY <1>1, <1>4 DEF Tick
<1> QED
  BY <1>3, <1>4

\* Only a tick and a restart change what is added up.
LEMMA LongNext == TypeInv /\ LongInv /\ [Next]_vars => LongInv'
<1> SUFFICES ASSUME TypeInv, LongInv, [Next]_vars
             PROVE  LongInv'
  OBVIOUS
<1>1. CASE UNCHANGED pseries
  BY <1>1 DEF LongInv
<1>2. CASE Sample
  BY <1>2, SampleIsTick, LongTick
<1>3. CASE Crash
  <2>1. \A p \in Slugs : pseries'[p] = NoSeries
    BY <1>3 DEF Crash
  <2> QED
    BY <2>1, LongEmpty DEF LongInv
<1>4. ASSUME NEW s \in Services, NEW c \in Classes, Request(s, c)
      PROVE  LongInv'
  BY <1>1, <1>4 DEF Request
<1>5. ASSUME NEW counts \in Elsewhere, Replace(counts)
      PROVE  LongInv'
  BY <1>1, <1>5 DEF Replace
<1>6. CASE UNCHANGED vars
  BY <1>1, <1>6 DEF vars
<1> QED
  BY <1>2, <1>3, <1>4, <1>5, <1>6 DEF Next

\* longAccum: the points of a project's long ring are sums of LongTicks points
\* of its short ring, one after the other, and the bucket in progress is the
\* sum of the points since.
THEOREM LongCorrect == Spec => []LongPointsAreSums
<1>1. Init => LongInv
  BY LongEmpty DEF Init, LongInv
<1>2. LongInv => LongPointsAreSums
  BY DEF LongInv, LongOK, LongPointsAreSums, Slice
<1> QED
  BY TypeInit, TypeNext, LongNext, <1>1, <1>2, PTL DEF Spec

=============================================================================
