---------------------------- MODULE StoresProofs ----------------------------
(***************************************************************************)
(* Proofs about the three Stores.  The sections on queries show that each  *)
(* pair of queries answers alike on tables with the same rows, SameTables. *)
(* The inductive invariant IInv says how the rows of every backend follow  *)
(* from CockroachDB's, and that the tables of rates are up to date with    *)
(* the puts.  It implies StoresAgree and RightUpToResolution.              *)
(***************************************************************************)
EXTENDS Stores, SumTheorems, TLAPS

-----------------------------------------------------------------------------
(* Instants and their texts.                                               *)

\* What a time column of SQLite holds, as the number it spells.
Stamps == Nat \cup {NoTime}

\* The unit that an instant lies in.
LEMMA UnitOf ==
    ASSUME NEW t \in Nat
    PROVE  /\ t \div Unit \in Nat
           /\ Unit * (t \div Unit) <= t
           /\ t < Unit * (t \div Unit) + Unit
           /\ t % Unit = t - Unit * (t \div Unit)
BY UnitAssumption

\* Multiples of the unit are in the order of their factors.
LEMMA UnitsInOrder ==
    ASSUME NEW a \in Nat, NEW b \in Nat
    PROVE  /\ Unit * a \in Nat
           /\ a < b => Unit * a + Unit <= Unit * b
           /\ a < b <=> Unit * a < Unit * b
           /\ a = b <=> Unit * a = Unit * b
<1>1. ASSUME NEW x \in Nat, NEW y \in Nat, x < y PROVE Unit * x + Unit <= Unit * y
  <2>1. PICK k \in Nat : y = x + 1 + k
    <3>1. y - x - 1 \in Nat /\ y = x + 1 + (y - x - 1)
      BY <1>1
    <3> QED BY <3>1
  <2>2. Unit * y = Unit * x + Unit + Unit * k
    BY <2>1, UnitAssumption
  <2>3. Unit * k \in Nat /\ Unit * x \in Nat
    BY UnitAssumption
  <2> QED BY <2>2, <2>3, UnitAssumption
<1>2. Unit * a \in Nat /\ Unit * b \in Nat
  BY UnitAssumption
<1> QED BY <1>1, <1>2, UnitAssumption

\* Cutting instants to units keeps their order, and moves them by less than a
\* unit.
LEMMA UnitsOfInstants ==
    ASSUME NEW t \in Nat, NEW u \in Nat
    PROVE  /\ t <= u => t \div Unit <= u \div Unit
           /\ t \div Unit <= u \div Unit => t < u + Unit
           /\ t + Unit <= u => t \div Unit < u \div Unit
<1> DEFINE a == t \div Unit
           b == u \div Unit
<1>1. /\ a \in Nat /\ Unit * a <= t /\ t < Unit * a + Unit
      /\ b \in Nat /\ Unit * b <= u /\ u < Unit * b + Unit
  BY UnitOf
<1> HIDE DEF a, b
<1>2. /\ b < a => Unit * b + Unit <= Unit * a
      /\ a < b => Unit * a + Unit <= Unit * b
      /\ Unit * a \in Nat /\ Unit * b \in Nat
      /\ a = b => Unit * a = Unit * b
  BY <1>1, UnitsInOrder
<1>3. /\ t <= u => a <= b
      /\ a <= b => t < u + Unit
      /\ t + Unit <= u => a < b
  BY <1>1, <1>2, UnitAssumption
<1> QED BY <1>3 DEF a, b

\* parseTime keeps stamps apart and in order.
LEMMA ParseKeepsOrder ==
    ASSUME NEW a \in Stamps, NEW b \in Stamps
    PROVE  /\ Sqlite!parseTime(a) \in Stamps
           /\ a < b <=> Sqlite!parseTime(a) < Sqlite!parseTime(b)
           /\ a = b <=> Sqlite!parseTime(a) = Sqlite!parseTime(b)
           /\ a = -1 <=> Sqlite!parseTime(a) = -1
<1> DEFINE P(x) == Sqlite!parseTime(x)
<1>1. \A x \in Nat : P(x) = Unit * x /\ Unit * x \in Nat
  BY UnitAssumption DEF Sqlite!parseTime, Sqlite!NoTime
<1>2. P(-1) = -1
  BY DEF Sqlite!parseTime, Sqlite!NoTime
<1>3. \A x \in Stamps : x \in Nat \/ x = -1
  BY DEF Stamps, NoTime
<1>4. \A x : x \in Nat \/ x = -1 => x \in Stamps
  BY DEF Stamps, NoTime
<1> HIDE DEF P
<1>5. CASE a \in Nat /\ b \in Nat
  <2>1. P(a) = Unit * a /\ P(b) = Unit * b /\ P(a) \in Nat /\ P(b) \in Nat
    BY <1>1, <1>5
  <2>2. (a < b <=> P(a) < P(b)) /\ (a = b <=> P(a) = P(b))
    BY <1>5, <2>1, UnitsInOrder
  <2> QED BY <1>4, <1>5, <2>1, <2>2 DEF P
<1>6. CASE a = -1
  <2>1. P(b) \in Nat \/ (b = -1 /\ P(b) = -1)
    BY <1>1, <1>2, <1>3
  <2>2. b \in Nat \/ b = -1
    BY <1>3
  <2>3. P(a) = -1
    BY <1>2, <1>6
  <2>4. b = -1 => P(b) = -1
    BY <1>2
  <2>5. /\ a < b <=> P(a) < P(b)
        /\ a = b <=> P(a) = P(b)
    BY <1>6, <2>1, <2>2, <2>3, <2>4
  <2> QED BY <1>4, <1>6, <2>3, <2>5 DEF P
<1>7. CASE a \in Nat /\ b = -1
  <2>1. P(a) \in Nat /\ P(b) = -1
    BY <1>1, <1>2, <1>7
  <2> QED BY <1>4, <1>7, <2>1 DEF P
<1> QED BY <1>3, <1>5, <1>6, <1>7

\* The same, for every comparison that the queries make.
LEMMA ParseInOrder ==
    ASSUME NEW a \in Stamps, NEW b \in Stamps
    PROVE  /\ Sqlite!parseTime(a) \in Stamps
           /\ a < b <=> Sqlite!parseTime(a) < Sqlite!parseTime(b)
           /\ a <= b <=> Sqlite!parseTime(a) <= Sqlite!parseTime(b)
           /\ a = b <=> Sqlite!parseTime(a) = Sqlite!parseTime(b)
           /\ a = -1 <=> Sqlite!parseTime(a) = -1
<1> DEFINE p == Sqlite!parseTime(a)
           q == Sqlite!parseTime(b)
<1>1. p \in Stamps /\ q \in Stamps /\ (a < b <=> p < q) /\ (a = b <=> p = q) /\ (a = -1 <=> p = -1)
  BY ParseKeepsOrder
<1> HIDE DEF p, q
<1>2. a \in Int /\ b \in Int /\ p \in Int /\ q \in Int
  BY <1>1 DEF Stamps, NoTime
<1>3. a <= b <=> p <= q
  BY <1>1, <1>2
<1> QED BY <1>1, <1>3 DEF p, q

\* What comes back from a text is the unit of the instant that was written.
LEMMA FormatThenParse ==
    ASSUME NEW t \in Stamps
    PROVE  /\ Sqlite!sqliteTimeFormat(t) \in Stamps /\ Round(t) \in Stamps
           /\ Sqlite!parseTime(Sqlite!sqliteTimeFormat(t)) = Round(t)
           /\ t = -1 <=> Sqlite!sqliteTimeFormat(t) = -1
           /\ t = -1 <=> Round(t) = -1
           /\ t \in Nat => Sqlite!sqliteTimeFormat(t) = t \div Unit /\ t \div Unit \in Nat
<1>1. CASE t \in Nat
  <2>1. t \div Unit \in Nat /\ Unit * (t \div Unit) = (t \div Unit) * Unit
    BY <1>1, UnitOf, UnitAssumption
  <2>2. Unit * (t \div Unit) \in Nat
    BY <2>1, UnitsInOrder
  <2> QED BY <1>1, <2>1, <2>2
          DEF Stamps, NoTime, Round, Sqlite!parseTime, Sqlite!sqliteTimeFormat, Sqlite!NoTime
<1>2. CASE t \notin Nat
  BY <1>2 DEF Stamps, NoTime, Round, Sqlite!parseTime, Sqlite!sqliteTimeFormat, Sqlite!NoTime
<1> QED BY <1>1, <1>2

-----------------------------------------------------------------------------
(* Pages.                                                                  *)

\* An ordering of a finite set of rows holds each of them once.
LEMMA OrderingFacts ==
    ASSUME NEW S, IsFiniteSet(S), NEW q \in SetToSeqs(S)
    PROVE  /\ Cardinality(S) \in Nat
           /\ q \in Seq(S)
           /\ Len(q) = Cardinality(S)
           /\ \A i, j \in 1 .. Cardinality(S) : q[i] = q[j] => i = j
           /\ \A x \in S : \E i \in 1 .. Cardinality(S) : q[i] = x
<1> DEFINE k == Cardinality(S)
<1>1. k \in Nat
  BY FS_CardinalityType
<1>2. q \in [1 .. k -> S] /\ \A i, j \in 1 .. k : i # j => q[i] # q[j]
  BY Zenon DEF SetToSeqs
<1>3. q \in Injection(1 .. k, S)
  BY <1>2 DEF Injection, IsInjective
<1>4. Cardinality(1 .. k) = k
  <2>1. 1 \in Int /\ k \in Int /\ (IF 1 > k THEN 0 ELSE k - 1 + 1) = k
    BY <1>1
  <2> HIDE DEF k
  <2> QED BY <2>1, FS_Interval
<1>5. q \in Surjection(1 .. k, S)
  <2> HIDE DEF k
  <2>1. Cardinality(1 .. k) = Cardinality(S)
    BY <1>4 DEF k
  <2> QED BY <1>3, <2>1, FS_Injection
<1>6. \A x \in S : \E i \in 1 .. k : q[i] = x
  BY <1>2, <1>5 DEF Surjection
<1> HIDE DEF k
<1>7. q \in Seq(S) /\ Len(q) = k
  BY <1>1, <1>2
<1> QED BY <1>1, <1>2, <1>6, <1>7 DEF k

\* What SQL's ORDER BY and LIMIT promise of an answer: rows of the table, in
\* order, and what is left out is so because the page is full of rows that need
\* not come later.
LEMMA PageFacts ==
    ASSUME NEW S, IsFiniteSet(S), NEW R, NEW n \in Nat, NEW q \in PageBy(S, R, n)
    PROVE  /\ Len(q) \in Nat /\ Len(q) <= n /\ DOMAIN q = 1 .. Len(q)
           /\ \A i \in DOMAIN q : q[i] \in S
           /\ \A i, j \in DOMAIN q : i < j => <<q[j], q[i]>> \notin R
           /\ \A x \in S : \/ \E i \in DOMAIN q : q[i] = x
                           \/ Len(q) = n /\ \A i \in DOMAIN q : <<x, q[i]>> \notin R
<1>1. PICK p \in SetToSeqs(S) : /\ q = Limit(p, n)
                                /\ \A i, j \in DOMAIN p : i < j => <<p[j], p[i]>> \notin R
  BY Zenon DEF PageBy
<1> DEFINE m == IF n < Len(p) THEN n ELSE Len(p)
<1>2. p \in Seq(S) /\ \A x \in S : \E i \in 1 .. Len(p) : p[i] = x
  BY OrderingFacts
<1>3. m \in Nat /\ m <= n /\ m <= Len(p) /\ (m = n \/ m = Len(p))
  BY <1>2
<1>4. q = SubSeq(p, 1, m)
  BY <1>1 DEF Limit
<1> HIDE DEF m
<1>5. Len(q) = m /\ DOMAIN q = 1 .. m /\ \A i \in 1 .. m : q[i] = p[i] /\ i \in DOMAIN p
  BY <1>2, <1>3, <1>4
<1>6. \A i \in DOMAIN q : q[i] \in S
  BY <1>2, <1>3, <1>5
<1>7. \A i, j \in DOMAIN q : i < j => <<q[j], q[i]>> \notin R
  BY <1>1, <1>5
<1>8. ASSUME NEW x \in S
      PROVE  \/ \E i \in DOMAIN q : q[i] = x
             \/ Len(q) = n /\ \A i \in DOMAIN q : <<x, q[i]>> \notin R
  <2>1. PICK i \in 1 .. Len(p) : p[i] = x
    BY <1>2
  <2>2. CASE i <= m
    BY <1>3, <1>5, <2>1, <2>2
  <2>3. CASE ~ (i <= m)
    <3>1. Len(q) = n /\ \A j \in DOMAIN q : j < i
      BY <1>2, <1>3, <1>5, <2>1, <2>3, SMTT(30)
    <3>2. i \in DOMAIN p
      BY <1>2
    <3>3. \A j \in DOMAIN q : j \in DOMAIN p /\ q[j] = p[j]
      BY <1>5
    <3> QED BY <1>1, <2>1, <3>1, <3>2, <3>3
  <2> QED BY <2>2, <2>3
<1> QED BY <1>3, <1>5, <1>6, <1>7, <1>8

\* c takes the rows of S one to one to those of T, and the order R to Q.
Corresponds(c, S, R, T, Q) ==
    /\ c \in [S -> T]
    /\ \A x, y \in S : c[x] = c[y] => x = y
    /\ \A z \in T : \E x \in S : c[x] = z
    /\ \A x, y \in S : <<x, y>> \in R <=> <<c[x], c[y]>> \in Q

\* Corresponding tables are of the same size.
LEMMA SameSize ==
    ASSUME NEW S, IsFiniteSet(S), NEW T, NEW R, NEW Q, NEW c, Corresponds(c, S, R, T, Q)
    PROVE  IsFiniteSet(T) /\ Cardinality(T) = Cardinality(S)
<1>1. c \in Bijection(S, T)
  BY DEF Corresponds, Bijection, Injection, Surjection, IsInjective
<1>2. ExistsBijection(S, T)
  BY <1>1 DEF ExistsBijection
<1> QED BY <1>2, FS_Bijection

\* The image of a page is a page of the corresponding table.
LEMMA PageImage ==
    ASSUME NEW S, IsFiniteSet(S), NEW T, NEW R, NEW Q, NEW c, Corresponds(c, S, R, T, Q),
           NEW n \in Nat, NEW q \in PageBy(S, R, n)
    PROVE  [i \in DOMAIN q |-> c[q[i]]] \in PageBy(T, Q, n)
<1>1. PICK p \in SetToSeqs(S) : /\ q = Limit(p, n)
                                /\ \A i, j \in DOMAIN p : i < j => <<p[j], p[i]>> \notin R
  BY Zenon DEF PageBy
<1> DEFINE k == Cardinality(S)
           m == IF n < k THEN n ELSE k
           r == [i \in 1 .. k |-> c[p[i]]]
<1>2. /\ k \in Nat /\ p \in Seq(S) /\ Len(p) = k
      /\ \A i, j \in 1 .. k : p[i] = p[j] => i = j
  BY OrderingFacts
<1>3. Cardinality(T) = k
  BY SameSize
<1>4. m \in Nat /\ m <= k
  BY <1>2
<1>5. q = SubSeq(p, 1, m)
  BY <1>1, <1>2 DEF Limit
<1> HIDE DEF k, m
<1>6. DOMAIN p = 1 .. k /\ \A i \in 1 .. k : p[i] \in S
  BY <1>2
<1>7. r \in [1 .. k -> T] /\ \A i, j \in 1 .. k : i # j => r[i] # r[j]
  BY <1>2, <1>6 DEF Corresponds
<1>8. r \in SetToSeqs(T)
  BY <1>3, <1>7, Zenon DEF SetToSeqs
<1>9. \A i, j \in DOMAIN r : i < j => <<r[j], r[i]>> \notin Q
  BY <1>1, <1>6 DEF Corresponds
<1>10. r \in Seq(T) /\ Len(r) = k
  BY <1>2, <1>7
<1>11. DOMAIN q = 1 .. m /\ \A i \in 1 .. m : q[i] = p[i]
  BY <1>2, <1>4, <1>5
<1>12. Limit(r, n) = SubSeq(r, 1, m)
  BY <1>10 DEF Limit, m
<1>13. SubSeq(r, 1, m) = [i \in 1 .. m |-> r[i]]
  <2> HIDE DEF r
  <2> QED BY <1>2, <1>4, <1>10
<1>14. [i \in DOMAIN q |-> c[q[i]]] = Limit(r, n)
  <2>1. \A i \in 1 .. m : i \in 1 .. k
    BY <1>2, <1>4
  <2>2. [i \in 1 .. m |-> r[i]] = [i \in DOMAIN q |-> c[q[i]]]
    BY <1>11, <2>1
  <2> HIDE DEF r
  <2> QED BY <1>12, <1>13, <2>2
<1> HIDE DEF r
<1> QED BY <1>8, <1>9, <1>14, Zenon DEF PageBy

\* Corresponding tables give the same answers, when d makes of a row of S what
\* e makes of the corresponding row of T.
LEMMA SameAnswers ==
    ASSUME NEW S, IsFiniteSet(S), NEW T, NEW R, NEW Q, NEW c, Corresponds(c, S, R, T, Q),
           NEW n \in Nat, NEW d, NEW e, \A x \in S : d[x] = e[c[x]]
    PROVE  {[i \in DOMAIN q |-> d[q[i]]] : q \in PageBy(S, R, n)}
             = {[i \in DOMAIN q |-> e[q[i]]] : q \in PageBy(T, Q, n)}
<1>1. ASSUME NEW q \in PageBy(S, R, n)
      PROVE  \E p \in PageBy(T, Q, n) :
                [i \in DOMAIN q |-> d[q[i]]] = [i \in DOMAIN p |-> e[p[i]]]
  <2> DEFINE p == [i \in DOMAIN q |-> c[q[i]]]
  <2>1. p \in PageBy(T, Q, n)
    BY PageImage
  <2>2. \A i \in DOMAIN q : q[i] \in S
    BY PageFacts
  <2>3. [i \in DOMAIN q |-> d[q[i]]] = [i \in DOMAIN p |-> e[p[i]]]
    BY <2>2
  <2> HIDE DEF p
  <2> QED BY <2>1, <2>3
<1>2. ASSUME NEW p \in PageBy(T, Q, n)
      PROVE  \E q \in PageBy(S, R, n) :
                [i \in DOMAIN q |-> d[q[i]]] = [i \in DOMAIN p |-> e[p[i]]]
  <2> DEFINE b == [z \in T |-> CHOOSE x \in S : c[x] = z]
             q == [i \in DOMAIN p |-> b[p[i]]]
  <2>1. \A z \in T : b[z] \in S /\ c[b[z]] = z
    BY DEF Corresponds
  <2>2. \A x \in S : c[x] \in T /\ b[c[x]] = x
    BY <2>1 DEF Corresponds
  <2>3. b \in [T -> S]
    BY <2>1
  <2> HIDE DEF b
  <2>4. Corresponds(b, T, Q, S, R)
    <3>1. \A x, y \in T : b[x] = b[y] => x = y
      BY <2>1
    <3>2. \A z \in S : \E x \in T : b[x] = z
      BY <2>2
    <3>3. \A x, y \in T : <<x, y>> \in Q <=> <<b[x], b[y]>> \in R
      <4> SUFFICES ASSUME NEW x \in T, NEW y \in T
                   PROVE  <<x, y>> \in Q <=> <<b[x], b[y]>> \in R
        OBVIOUS
      <4>1. b[x] \in S /\ b[y] \in S /\ c[b[x]] = x /\ c[b[y]] = y
        BY <2>1
      <4>2. <<b[x], b[y]>> \in R <=> <<c[b[x]], c[b[y]]>> \in Q
        BY <4>1, Zenon DEF Corresponds
      <4> QED BY <4>1, <4>2, Zenon
    <3> QED BY <2>3, <3>1, <3>2, <3>3 DEF Corresponds
  <2>5. IsFiniteSet(T)
    BY SameSize
  <2>6. q \in PageBy(S, R, n)
    BY <2>4, <2>5, PageImage
  <2>7. \A i \in DOMAIN p : p[i] \in T
    BY <2>5, PageFacts
  <2>8. [i \in DOMAIN q |-> d[q[i]]] = [i \in DOMAIN p |-> e[p[i]]]
    BY <2>1, <2>7
  <2> HIDE DEF q
  <2> QED BY <2>6, <2>8
<1> QED BY <1>1, <1>2

\* The rows S of a table A in the order R, and the rows T in the order Q of the
\* table B that f makes of A.
SameSelection(A, f, B, S, R, T, Q) ==
    /\ IsFiniteSet(A)
    /\ \A x, y \in A : f[x] = f[y] => x = y
    /\ B = {f[x] : x \in A}
    /\ S \subseteq A /\ T \subseteq B
    /\ \A x \in A : x \in S <=> f[x] \in T
    /\ \A x, y \in S : <<x, y>> \in R <=> <<f[x], f[y]>> \in Q

\* The pages of S, each row as d makes it.
Answers(S, R, n, d) == {[i \in DOMAIN q |-> d[q[i]]] : q \in PageBy(S, R, n)}

\* The same query of two tables, when d makes of a row of A what e makes of the
\* corresponding row of B.
LEMMA SameQuery ==
    ASSUME NEW A, NEW f, NEW B, NEW S, NEW R, NEW T, NEW Q, SameSelection(A, f, B, S, R, T, Q),
           NEW n \in Nat, NEW d, NEW e, \A x \in A : d[x] = e[f[x]]
    PROVE  /\ \A q \in PageBy(S, R, n) : \A i \in DOMAIN q : q[i] \in A
           /\ \A q \in PageBy(T, Q, n) : \A i \in DOMAIN q : q[i] \in B
           /\ Answers(S, R, n, d) = Answers(T, Q, n, e)
<1> USE DEF SameSelection
<1> DEFINE c == [x \in S |-> f[x]]
<1>1. IsFiniteSet(S)
  BY FS_Subset
<1>2. \A z \in T : \E x \in S : c[x] = z
  <2> SUFFICES ASSUME NEW z \in T PROVE \E x \in S : c[x] = z
    OBVIOUS
  <2>1. PICK x \in A : z = f[x]
    OBVIOUS
  <2>2. x \in S
    BY <2>1
  <2> QED BY <2>1, <2>2
<1>3. Corresponds(c, S, R, T, Q)
  <2>1. c \in [S -> T]
    OBVIOUS
  <2>2. \A x, y \in S : c[x] = c[y] => x = y
    OBVIOUS
  <2>3. \A x, y \in S : <<x, y>> \in R <=> <<c[x], c[y]>> \in Q
    OBVIOUS
  <2> HIDE DEF c
  <2> QED BY <1>2, <2>1, <2>2, <2>3 DEF Corresponds
<1>4. \A x \in S : d[x] = e[c[x]]
  OBVIOUS
<1> HIDE DEF c
<1>5. IsFiniteSet(T)
  BY <1>1, <1>3, SameSize
<1>6. /\ \A q \in PageBy(S, R, n) : \A i \in DOMAIN q : q[i] \in A
      /\ \A q \in PageBy(T, Q, n) : \A i \in DOMAIN q : q[i] \in B
  BY <1>1, <1>5, PageFacts
<1>7. Answers(S, R, n, d) = Answers(T, Q, n, e)
  BY <1>1, <1>3, <1>4, SameAnswers, SMTT(30) DEF Answers
<1> QED BY <1>6, <1>7

\* The three backends' modules mean the same by a page.
LEMMA OnePage ==
    ASSUME NEW S, NEW R, NEW n
    PROVE  /\ Crdb!PageBy(S, R, n) = PageBy(S, R, n)
           /\ Sqlite!PageBy(S, R, n) = PageBy(S, R, n)
           /\ Dynamo!PageBy(S, R, n) = PageBy(S, R, n)
BY DEF PageBy, Limit, SetToSeqs, Cardinality,
       Crdb!PageBy, Crdb!Limit, Crdb!SetToSeqs, Crdb!Cardinality,
       Sqlite!PageBy, Sqlite!Limit, Sqlite!SetToSeqs, Sqlite!Cardinality,
       Dynamo!PageBy, Dynamo!Limit, Dynamo!SetToSeqs, Dynamo!Cardinality

-----------------------------------------------------------------------------
(* Rows, as SQLite and a CockroachDB of whole units hold them, and what    *)
(* SQLite's conversions make of them.                                      *)

ReservationRow ==
    [id : Nat, source_account_id : Accounts, status : Statuses,
     expires_at : Stamps, created_at : Stamps]
RateRow ==
    [id : Nat, base : {"EUR"}, source : {"ecb", "desk"}, rate : 1 .. 2, effective_at : Stamps]
SnapshotRow ==
    [id : Nat, tenant_id : {a.tenant_id : a \in AccountRows}, account_id : Accounts,
     snapshot_at : Stamps]
JournalRow == [id : Nat, source_service : {"bank"}, created_at : Stamps]
EntryRow ==
    [id : Nat, journal_id : Nat, account_id : Accounts, direction : {"DEBIT", "CREDIT"},
     amount : 1 .. 2, created_at : Stamps]
EventRow ==
    [id : Nat, publish_state : {"PENDING", "PUBLISHED"}, attempts : Nat, created_at : Stamps]
RecordRow ==
    [id : Nat, external_ref : {"r1", "r2"}, occurred_at : Stamps,
     match_status : {"UNMATCHED", "MATCHED"}]
DiscrepancyRow ==
    [id : Nat, batch_id : {"b1", "b2"}, status : {"OPEN", "RESOLVED"}, created_at : Stamps]

ToReservation == [x \in ReservationRow |-> Sqlite!rowToReservation(x)]
ToRate == [x \in RateRow |-> Sqlite!rowToFXRate(x)]
ToSnapshot == [x \in SnapshotRow |-> Sqlite!rowToSnapshot(x)]
ToJournal == [x \in JournalRow |-> Sqlite!rowToJournal(x)]
ToEntry == [x \in EntryRow |-> Sqlite!activityRow(x)]
ToEvent == [x \in EventRow |-> [x EXCEPT !.created_at = Sqlite!parseTime(@)]]
ToRecord == [x \in RecordRow |-> Sqlite!rowToExternalRecord(x)]
ToDiscrepancy == [x \in DiscrepancyRow |-> Sqlite!rowToDiscrepancy(x)]

\* A reservation that comes back from a row of SQLite differs in its times only, and
\* tells which row it was; from a row of CockroachDB it does not differ at all.
LEMMA ReservationRows ==
    ASSUME NEW x \in ReservationRow
    PROVE  /\ ToReservation[x] \in ReservationRow
           /\ ToReservation[x].id = x.id /\ ToReservation[x].source_account_id = x.source_account_id
           /\ ToReservation[x].status = x.status
           /\ ToReservation[x].expires_at = Sqlite!parseTime(x.expires_at)
           /\ ToReservation[x].created_at = Sqlite!parseTime(x.created_at)
           /\ Crdb!rowToReservation(x) = x
           /\ \A y \in ReservationRow : ToReservation[x] = ToReservation[y] => x = y
<1>1. \A y \in ReservationRow :
        /\ ToReservation[y] \in ReservationRow
        /\ ToReservation[y].id = y.id /\ ToReservation[y].source_account_id = y.source_account_id
        /\ ToReservation[y].status = y.status
        /\ ToReservation[y].expires_at = Sqlite!parseTime(y.expires_at)
        /\ ToReservation[y].created_at = Sqlite!parseTime(y.created_at)
  BY ParseInOrder DEF ReservationRow, ToReservation, Sqlite!rowToReservation
<1>2. Crdb!rowToReservation(x) = x
  BY DEF ReservationRow, Crdb!rowToReservation, Crdb!timestamptzToTime
<1>3. ASSUME NEW y \in ReservationRow, ToReservation[x] = ToReservation[y] PROVE x = y
  <2>1. /\ x.expires_at \in Stamps /\ y.expires_at \in Stamps
        /\ x.created_at \in Stamps /\ y.created_at \in Stamps
    BY DEF ReservationRow
  <2>2. x.expires_at = y.expires_at /\ x.created_at = y.created_at
    BY <1>1, <1>3, <2>1, ParseInOrder
  <2>3. x.id = y.id /\ x.source_account_id = y.source_account_id /\ x.status = y.status
    BY <1>1, <1>3
  <2> QED BY <2>2, <2>3 DEF ReservationRow
<1> QED BY <1>1, <1>2, <1>3

\* A rate that comes back from a row of SQLite differs in its times only, and
\* tells which row it was; from a row of CockroachDB it does not differ at all.
LEMMA RateRows ==
    ASSUME NEW x \in RateRow
    PROVE  /\ ToRate[x] \in RateRow
           /\ ToRate[x].id = x.id /\ ToRate[x].base = x.base
           /\ ToRate[x].source = x.source /\ ToRate[x].rate = x.rate
           /\ ToRate[x].effective_at = Sqlite!parseTime(x.effective_at)
           /\ Crdb!rowToFXRate(x) = x
           /\ \A y \in RateRow : ToRate[x] = ToRate[y] => x = y
<1>1. \A y \in RateRow :
        /\ ToRate[y] \in RateRow
        /\ ToRate[y].id = y.id /\ ToRate[y].base = y.base
        /\ ToRate[y].source = y.source /\ ToRate[y].rate = y.rate
        /\ ToRate[y].effective_at = Sqlite!parseTime(y.effective_at)
  BY ParseInOrder DEF RateRow, ToRate, Sqlite!rowToFXRate
<1>2. Crdb!rowToFXRate(x) = x
  BY DEF RateRow, Crdb!rowToFXRate, Crdb!timestamptzToTime
<1>3. ASSUME NEW y \in RateRow, ToRate[x] = ToRate[y] PROVE x = y
  <2>1. /\ x.effective_at \in Stamps /\ y.effective_at \in Stamps
    BY DEF RateRow
  <2>2. x.effective_at = y.effective_at
    BY <1>1, <1>3, <2>1, ParseInOrder
  <2>3. x.id = y.id /\ x.base = y.base /\ x.source = y.source /\ x.rate = y.rate
    BY <1>1, <1>3
  <2> QED BY <2>2, <2>3 DEF RateRow
<1> QED BY <1>1, <1>2, <1>3

\* A snapshot that comes back from a row of SQLite differs in its times only, and
\* tells which row it was; from a row of CockroachDB it does not differ at all.
LEMMA SnapshotRows ==
    ASSUME NEW x \in SnapshotRow
    PROVE  /\ ToSnapshot[x] \in SnapshotRow
           /\ ToSnapshot[x].id = x.id /\ ToSnapshot[x].tenant_id = x.tenant_id
           /\ ToSnapshot[x].account_id = x.account_id
           /\ ToSnapshot[x].snapshot_at = Sqlite!parseTime(x.snapshot_at)
           /\ Crdb!rowToSnapshot(x) = x
           /\ \A y \in SnapshotRow : ToSnapshot[x] = ToSnapshot[y] => x = y
<1>1. \A y \in SnapshotRow :
        /\ ToSnapshot[y] \in SnapshotRow
        /\ ToSnapshot[y].id = y.id /\ ToSnapshot[y].tenant_id = y.tenant_id
        /\ ToSnapshot[y].account_id = y.account_id
        /\ ToSnapshot[y].snapshot_at = Sqlite!parseTime(y.snapshot_at)
  BY ParseInOrder DEF SnapshotRow, ToSnapshot, Sqlite!rowToSnapshot
<1>2. Crdb!rowToSnapshot(x) = x
  BY DEF SnapshotRow, Crdb!rowToSnapshot, Crdb!timestamptzToTime
<1>3. ASSUME NEW y \in SnapshotRow, ToSnapshot[x] = ToSnapshot[y] PROVE x = y
  <2>1. /\ x.snapshot_at \in Stamps /\ y.snapshot_at \in Stamps
    BY DEF SnapshotRow
  <2>2. x.snapshot_at = y.snapshot_at
    BY <1>1, <1>3, <2>1, ParseInOrder
  <2>3. x.id = y.id /\ x.tenant_id = y.tenant_id /\ x.account_id = y.account_id
    BY <1>1, <1>3
  <2> QED BY <2>2, <2>3 DEF SnapshotRow
<1> QED BY <1>1, <1>2, <1>3

\* A journal that comes back from a row of SQLite differs in its times only, and
\* tells which row it was; from a row of CockroachDB it does not differ at all.
LEMMA JournalRows ==
    ASSUME NEW x \in JournalRow
    PROVE  /\ ToJournal[x] \in JournalRow
           /\ ToJournal[x].id = x.id /\ ToJournal[x].source_service = x.source_service
           /\ ToJournal[x].created_at = Sqlite!parseTime(x.created_at)
           /\ Crdb!rowToJournal(x) = x
           /\ \A y \in JournalRow : ToJournal[x] = ToJournal[y] => x = y
<1>1. \A y \in JournalRow :
        /\ ToJournal[y] \in JournalRow
        /\ ToJournal[y].id = y.id /\ ToJournal[y].source_service = y.source_service
        /\ ToJournal[y].created_at = Sqlite!parseTime(y.created_at)
  BY ParseInOrder DEF JournalRow, ToJournal, Sqlite!rowToJournal
<1>2. Crdb!rowToJournal(x) = x
  BY DEF JournalRow, Crdb!rowToJournal, Crdb!timestamptzToTime
<1>3. ASSUME NEW y \in JournalRow, ToJournal[x] = ToJournal[y] PROVE x = y
  <2>1. /\ x.created_at \in Stamps /\ y.created_at \in Stamps
    BY DEF JournalRow
  <2>2. x.created_at = y.created_at
    BY <1>1, <1>3, <2>1, ParseInOrder
  <2>3. x.id = y.id /\ x.source_service = y.source_service
    BY <1>1, <1>3
  <2> QED BY <2>2, <2>3 DEF JournalRow
<1> QED BY <1>1, <1>2, <1>3

\* An entry that comes back from a row of SQLite differs in its times only, and
\* tells which row it was; from a row of CockroachDB it does not differ at all.
LEMMA EntryRows ==
    ASSUME NEW x \in EntryRow
    PROVE  /\ ToEntry[x] \in EntryRow
           /\ ToEntry[x].id = x.id /\ ToEntry[x].journal_id = x.journal_id
           /\ ToEntry[x].account_id = x.account_id /\ ToEntry[x].direction = x.direction
           /\ ToEntry[x].amount = x.amount
           /\ ToEntry[x].created_at = Sqlite!parseTime(x.created_at)
           /\ Crdb!activityRow(x) = x
           /\ \A y \in EntryRow : ToEntry[x] = ToEntry[y] => x = y
<1>1. \A y \in EntryRow :
        /\ ToEntry[y] \in EntryRow
        /\ ToEntry[y].id = y.id /\ ToEntry[y].journal_id = y.journal_id
        /\ ToEntry[y].account_id = y.account_id /\ ToEntry[y].direction = y.direction
        /\ ToEntry[y].amount = y.amount
        /\ ToEntry[y].created_at = Sqlite!parseTime(y.created_at)
  BY ParseInOrder DEF EntryRow, ToEntry, Sqlite!activityRow
<1>2. Crdb!activityRow(x) = x
  BY DEF EntryRow, Crdb!activityRow, Crdb!timestamptzToTime
<1>3. ASSUME NEW y \in EntryRow, ToEntry[x] = ToEntry[y] PROVE x = y
  <2>1. /\ x.created_at \in Stamps /\ y.created_at \in Stamps
    BY DEF EntryRow
  <2>2. x.created_at = y.created_at
    BY <1>1, <1>3, <2>1, ParseInOrder
  <2>3. /\ x.id = y.id /\ x.journal_id = y.journal_id /\ x.account_id = y.account_id
        /\ x.direction = y.direction /\ x.amount = y.amount
    BY <1>1, <1>3
  <2> QED BY <2>2, <2>3 DEF EntryRow
<1> QED BY <1>1, <1>2, <1>3

\* An event of CockroachDB differs from SQLite's in its time only, and tells
\* which row it is.
LEMMA EventRows ==
    ASSUME NEW x \in EventRow
    PROVE  /\ ToEvent[x] \in EventRow
           /\ ToEvent[x].id = x.id /\ ToEvent[x].publish_state = x.publish_state
           /\ ToEvent[x].attempts = x.attempts
           /\ ToEvent[x].created_at = Sqlite!parseTime(x.created_at)
           /\ \A y \in EventRow : ToEvent[x] = ToEvent[y] => x = y
<1>1. \A y \in EventRow :
        /\ ToEvent[y] \in EventRow
        /\ ToEvent[y].id = y.id /\ ToEvent[y].publish_state = y.publish_state
        /\ ToEvent[y].attempts = y.attempts
        /\ ToEvent[y].created_at = Sqlite!parseTime(y.created_at)
  BY ParseInOrder DEF EventRow, ToEvent
<1>2. ASSUME NEW y \in EventRow, ToEvent[x] = ToEvent[y] PROVE x = y
  <2>1. /\ x.created_at \in Stamps /\ y.created_at \in Stamps
    BY DEF EventRow
  <2>2. x.created_at = y.created_at
    BY <1>1, <1>2, <2>1, ParseInOrder
  <2>3. x.id = y.id /\ x.publish_state = y.publish_state /\ x.attempts = y.attempts
    BY <1>1, <1>2
  <2> QED BY <2>2, <2>3 DEF EventRow
<1> QED BY <1>1, <1>2

\* A record that comes back from a row of SQLite differs in its times only, and
\* tells which row it was; from a row of CockroachDB it does not differ at all.
LEMMA RecordRows ==
    ASSUME NEW x \in RecordRow
    PROVE  /\ ToRecord[x] \in RecordRow
           /\ ToRecord[x].id = x.id /\ ToRecord[x].external_ref = x.external_ref
           /\ ToRecord[x].match_status = x.match_status
           /\ ToRecord[x].occurred_at = Sqlite!parseTime(x.occurred_at)
           /\ Crdb!rowToExternalRecord(x) = x
           /\ \A y \in RecordRow : ToRecord[x] = ToRecord[y] => x = y
<1>1. \A y \in RecordRow :
        /\ ToRecord[y] \in RecordRow
        /\ ToRecord[y].id = y.id /\ ToRecord[y].external_ref = y.external_ref
        /\ ToRecord[y].match_status = y.match_status
        /\ ToRecord[y].occurred_at = Sqlite!parseTime(y.occurred_at)
  BY ParseInOrder DEF RecordRow, ToRecord, Sqlite!rowToExternalRecord
<1>2. Crdb!rowToExternalRecord(x) = x
  BY DEF RecordRow, Crdb!rowToExternalRecord, Crdb!timestamptzToTime
<1>3. ASSUME NEW y \in RecordRow, ToRecord[x] = ToRecord[y] PROVE x = y
  <2>1. /\ x.occurred_at \in Stamps /\ y.occurred_at \in Stamps
    BY DEF RecordRow
  <2>2. x.occurred_at = y.occurred_at
    BY <1>1, <1>3, <2>1, ParseInOrder
  <2>3. x.id = y.id /\ x.external_ref = y.external_ref /\ x.match_status = y.match_status
    BY <1>1, <1>3
  <2> QED BY <2>2, <2>3 DEF RecordRow
<1> QED BY <1>1, <1>2, <1>3

\* A discrepancy that comes back from a row of SQLite differs in its times only, and
\* tells which row it was; from a row of CockroachDB it does not differ at all.
LEMMA DiscrepancyRows ==
    ASSUME NEW x \in DiscrepancyRow
    PROVE  /\ ToDiscrepancy[x] \in DiscrepancyRow
           /\ ToDiscrepancy[x].id = x.id /\ ToDiscrepancy[x].batch_id = x.batch_id
           /\ ToDiscrepancy[x].status = x.status
           /\ ToDiscrepancy[x].created_at = Sqlite!parseTime(x.created_at)
           /\ Crdb!rowToDiscrepancy(x) = x
           /\ \A y \in DiscrepancyRow : ToDiscrepancy[x] = ToDiscrepancy[y] => x = y
<1>1. \A y \in DiscrepancyRow :
        /\ ToDiscrepancy[y] \in DiscrepancyRow
        /\ ToDiscrepancy[y].id = y.id /\ ToDiscrepancy[y].batch_id = y.batch_id
        /\ ToDiscrepancy[y].status = y.status
        /\ ToDiscrepancy[y].created_at = Sqlite!parseTime(y.created_at)
  BY ParseInOrder DEF DiscrepancyRow, ToDiscrepancy, Sqlite!rowToDiscrepancy
<1>2. Crdb!rowToDiscrepancy(x) = x
  BY DEF DiscrepancyRow, Crdb!rowToDiscrepancy, Crdb!timestamptzToTime
<1>3. ASSUME NEW y \in DiscrepancyRow, ToDiscrepancy[x] = ToDiscrepancy[y] PROVE x = y
  <2>1. /\ x.created_at \in Stamps /\ y.created_at \in Stamps
    BY DEF DiscrepancyRow
  <2>2. x.created_at = y.created_at
    BY <1>1, <1>3, <2>1, ParseInOrder
  <2>3. x.id = y.id /\ x.batch_id = y.batch_id /\ x.status = y.status
    BY <1>1, <1>3
  <2> QED BY <2>2, <2>3 DEF DiscrepancyRow
<1> QED BY <1>1, <1>2, <1>3

-----------------------------------------------------------------------------
(* The two SQL databases hold the same rows, up to the texts of times.     *)

SqlTables ==
    [reservations : SUBSET ReservationRow, fx_rates : SUBSET RateRow,
     balance_snapshots : SUBSET SnapshotRow, ledger_entries : SUBSET EntryRow,
     ledger_journals : SUBSET JournalRow, outbox_events : SUBSET EventRow,
     external_records : SUBSET RecordRow, discrepancies : SUBSET DiscrepancyRow]

SameRows ==
    /\ rounded.reservations = {ToReservation[x] : x \in sqlite.reservations}
    /\ rounded.fx_rates = {ToRate[x] : x \in sqlite.fx_rates}
    /\ rounded.balance_snapshots = {ToSnapshot[x] : x \in sqlite.balance_snapshots}
    /\ rounded.ledger_entries = {ToEntry[x] : x \in sqlite.ledger_entries}
    /\ rounded.ledger_journals = {ToJournal[x] : x \in sqlite.ledger_journals}
    /\ rounded.outbox_events = {ToEvent[x] : x \in sqlite.outbox_events}
    /\ rounded.external_records = {ToRecord[x] : x \in sqlite.external_records}
    /\ rounded.discrepancies = {ToDiscrepancy[x] : x \in sqlite.discrepancies}

FiniteTables(db) ==
    /\ IsFiniteSet(db.reservations) /\ IsFiniteSet(db.fx_rates)
    /\ IsFiniteSet(db.balance_snapshots) /\ IsFiniteSet(db.ledger_entries)
    /\ IsFiniteSet(db.ledger_journals) /\ IsFiniteSet(db.outbox_events)
    /\ IsFiniteSet(db.external_records) /\ IsFiniteSet(db.discrepancies)

SameTables ==
    /\ sqlite \in SqlTables /\ rounded \in SqlTables
    /\ SameRows
    /\ FiniteTables(sqlite)

\* Corresponding tables have as many rows.
LEMMA SameCount ==
    ASSUME NEW A, NEW f, NEW B, NEW S, NEW R, NEW T, NEW Q, SameSelection(A, f, B, S, R, T, Q)
    PROVE  IsFiniteSet(B) /\ Cardinality(B) = Cardinality(A)
<1> DEFINE c == [x \in A |-> f[x]]
<1>1. c \in Bijection(A, B)
  BY DEF SameSelection, Bijection, Injection, Surjection, IsInjective
<1>2. ExistsBijection(A, B) /\ IsFiniteSet(A)
  BY <1>1 DEF ExistsBijection, SameSelection
<1> QED BY <1>2, FS_Bijection

\* ListExpiredReservations: the filter and the order compare texts in SQLite
\* and instants in CockroachDB.
LEMMA ExpiredAgree ==
    ASSUME SameTables, NEW t \in Instants, NEW n \in Limits
    PROVE  Sqlite!ListExpiredReservations(sqlite, t, n)
             = Crdb!ListExpiredReservations(rounded, Round(t), n)
<1> DEFINE A == sqlite.reservations
           B == rounded.reservations
           v == Sqlite!sqliteTimeFormat(t)
           w == Round(t)
           S == {r \in A : /\ r.status = "HELD" \/ r.status = "PARTIAL"
                           /\ r.expires_at # -1
                           /\ r.expires_at <= v}
           T == {r \in B : /\ r.status \in {"HELD", "PARTIAL"}
                           /\ r.expires_at # -1
                           /\ r.expires_at <= w}
           R == {p \in S \X S : p[1].expires_at < p[2].expires_at}
           Q == {p \in T \X T : p[1].expires_at < p[2].expires_at}
           k == IF n <= 0 THEN 100 ELSE n
           d == [x \in A |-> x.id]
           e == [x \in B |-> x.id]
           X == {[i \in DOMAIN q |-> q[i].id] : q \in PageBy(S, R, k)}
           Y == {[i \in DOMAIN q |-> q[i].id] : q \in PageBy(T, Q, k)}
<1>1. /\ A \subseteq ReservationRow /\ IsFiniteSet(A)
      /\ B = {ToReservation[x] : x \in A} /\ B \subseteq ReservationRow
  BY DEF SameTables, SqlTables, SameRows, FiniteTables
<1>2. v \in Stamps /\ w = Sqlite!parseTime(v) /\ k \in Nat
  BY FormatThenParse, BoundsAssumption DEF Instants, Filters, Stamps
<1>3. Sqlite!ListExpiredReservations(sqlite, t, n) = X
  BY OnePage, ZenonT(60)
     DEF Sqlite!ListExpiredReservations, Sqlite!listExpiredReservations, Sqlite!MapPage,
         Sqlite!Page, Sqlite!NoTime
<1>4. Crdb!ListExpiredReservations(rounded, w, n) = Y
  BY OnePage, ZenonT(60)
     DEF Crdb!ListExpiredReservations, Crdb!listExpiredReservations, Crdb!MapPage, Crdb!Page,
         Crdb!NoTime
<1>5. \A x \in A : x \in S <=> ToReservation[x] \in T
  BY <1>1, <1>2, ReservationRows, ParseInOrder DEF ReservationRow
<1>6. \A x, y \in S : <<x, y>> \in R <=> <<ToReservation[x], ToReservation[y]>> \in Q
  <2>1. S \subseteq A
    OBVIOUS
  <2> HIDE DEF S, T
  <2> QED BY <1>1, <1>5, <2>1, ReservationRows, ParseInOrder DEF ReservationRow
<1>7. SameSelection(A, ToReservation, B, S, R, T, Q)
  <2>1. \A x, y \in A : ToReservation[x] = ToReservation[y] => x = y
    BY <1>1, ReservationRows
  <2>2. S \subseteq A /\ T \subseteq B
    OBVIOUS
  <2> HIDE DEF A, B, S, R, T, Q
  <2> QED BY <1>1, <1>5, <1>6, <2>1, <2>2 DEF SameSelection
<1>8. \A x \in A : d[x] = e[ToReservation[x]]
  BY <1>1, ReservationRows DEF ToReservation
<1> HIDE DEF A, B, S, R, T, Q, k
<1>9. /\ \A q \in PageBy(S, R, k) : \A i \in DOMAIN q : q[i] \in A
      /\ \A q \in PageBy(T, Q, k) : \A i \in DOMAIN q : q[i] \in B
      /\ Answers(S, R, k, d) = Answers(T, Q, k, e)
  <2> HIDE DEF d, e
  <2> QED BY <1>2, <1>7, <1>8, SameQuery
<1>10. Answers(S, R, k, d) = X
  <2>1. \A q \in PageBy(S, R, k) :
          [i \in DOMAIN q |-> d[q[i]]] = [i \in DOMAIN q |-> q[i].id]
    BY <1>9
  <2> HIDE DEF d
  <2> QED BY <2>1 DEF Answers
<1>11. Answers(T, Q, k, e) = Y
  <2>1. \A q \in PageBy(T, Q, k) :
          [i \in DOMAIN q |-> e[q[i]]] = [i \in DOMAIN q |-> q[i].id]
    BY <1>9
  <2> HIDE DEF e
  <2> QED BY <2>1 DEF Answers
<1> HIDE DEF d, e, X, Y
<1> QED BY <1>3, <1>4, <1>9, <1>10, <1>11

\* ListReservations: newest first, by the owner of the source account.
LEMMA ReservationListsAgree ==
    ASSUME SameTables, NEW o, NEW s, NEW n \in Limits
    PROVE  Sqlite!ListReservations(sqlite, o, s, n)
             = Crdb!ListReservations(rounded, o, s, n)
<1> DEFINE A == sqlite.reservations
           B == rounded.reservations
           S == {r \in A : \E a \in AccountRows : /\ a.id = r.source_account_id
                                                  /\ o = "" \/ a.owner = o
                                                  /\ s = "" \/ r.status = s}
           T == {r \in B : \E a \in AccountRows : /\ a.id = r.source_account_id
                                                  /\ a.owner = o \/ o = ""
                                                  /\ r.status = s \/ s = ""}
           R == {p \in S \X S : \/ p[1].created_at > p[2].created_at
                                \/ p[1].created_at = p[2].created_at /\ p[1].id > p[2].id}
           Q == {p \in T \X T : \/ p[1].created_at > p[2].created_at
                                \/ p[1].created_at = p[2].created_at /\ p[1].id > p[2].id}
           k == IF n <= 0 \/ n > 500 THEN 100 ELSE n
           d == [x \in A |-> Sqlite!rowToReservation(x)]
           e == [x \in B |-> Crdb!rowToReservation(x)]
           X == {[i \in DOMAIN q |-> Sqlite!rowToReservation(q[i])] : q \in PageBy(S, R, k)}
           Y == {[i \in DOMAIN q |-> Crdb!rowToReservation(q[i])] : q \in PageBy(T, Q, k)}
<1>1. /\ A \subseteq ReservationRow /\ IsFiniteSet(A)
      /\ B = {ToReservation[x] : x \in A} /\ B \subseteq ReservationRow
  BY DEF SameTables, SqlTables, SameRows, FiniteTables
<1>2. k \in Nat
  BY BoundsAssumption
<1>3. Sqlite!ListReservations(sqlite, o, s, n) = X
  BY OnePage, ZenonT(60)
     DEF Sqlite!ListReservations, Sqlite!listReservations, Sqlite!MapPage, Sqlite!Page
<1>4. Crdb!ListReservations(rounded, o, s, n) = Y
  BY OnePage, ZenonT(60)
     DEF Crdb!ListReservations, Crdb!listReservations, Crdb!MapPage, Crdb!Page
<1>5. ASSUME NEW x \in A PROVE x \in S <=> ToReservation[x] \in T
  <2>1. /\ ToReservation[x] \in B
        /\ ToReservation[x].source_account_id = x.source_account_id
        /\ ToReservation[x].status = x.status
    BY <1>1, ReservationRows
  <2> QED BY <2>1, Zenon
<1>6. \A x, y \in S : <<x, y>> \in R <=> <<ToReservation[x], ToReservation[y]>> \in Q
  <2>1. S \subseteq A
    OBVIOUS
  <2> HIDE DEF S, T
  <2> QED BY <1>1, <1>5, <2>1, ReservationRows, ParseInOrder DEF ReservationRow
<1>7. SameSelection(A, ToReservation, B, S, R, T, Q)
  <2>1. \A x, y \in A : ToReservation[x] = ToReservation[y] => x = y
    BY <1>1, ReservationRows
  <2>2. S \subseteq A /\ T \subseteq B
    OBVIOUS
  <2> HIDE DEF A, B, S, R, T, Q
  <2> QED BY <1>1, <1>5, <1>6, <2>1, <2>2 DEF SameSelection
<1>8. \A x \in A : d[x] = e[ToReservation[x]]
  BY <1>1, ReservationRows DEF ToReservation
<1> HIDE DEF A, B, S, R, T, Q, k
<1>9. /\ \A q \in PageBy(S, R, k) : \A i \in DOMAIN q : q[i] \in A
      /\ \A q \in PageBy(T, Q, k) : \A i \in DOMAIN q : q[i] \in B
      /\ Answers(S, R, k, d) = Answers(T, Q, k, e)
  <2> HIDE DEF d, e
  <2> QED BY <1>2, <1>7, <1>8, SameQuery
<1>10. Answers(S, R, k, d) = X
  <2>1. \A q \in PageBy(S, R, k) :
          [i \in DOMAIN q |-> d[q[i]]] = [i \in DOMAIN q |-> Sqlite!rowToReservation(q[i])]
    BY <1>9
  <2> HIDE DEF d
  <2> QED BY <2>1 DEF Answers
<1>11. Answers(T, Q, k, e) = Y
  <2>1. \A q \in PageBy(T, Q, k) :
          [i \in DOMAIN q |-> e[q[i]]] = [i \in DOMAIN q |-> Crdb!rowToReservation(q[i])]
    BY <1>9
  <2> HIDE DEF e
  <2> QED BY <2>1 DEF Answers
<1> HIDE DEF d, e, X, Y
<1> QED BY <1>3, <1>4, <1>9, <1>10, <1>11

\* GetFXRateAt: the newest rate that is effective.
LEMMA RatesAgreeAt ==
    ASSUME SameTables, NEW b, NEW t \in Instants
    PROVE  Sqlite!GetFXRateAt(sqlite, b, t)
             = Crdb!GetFXRateAt(rounded, b, Round(t))
<1> DEFINE A == sqlite.fx_rates
           B == rounded.fx_rates
           v == Sqlite!sqliteTimeFormat(t)
           w == Round(t)
           S == {r \in A : /\ r.base = b
                           /\ r.effective_at <= v}
           T == {r \in B : /\ r.base = b
                           /\ r.effective_at <= w}
           R == {p \in S \X S : \/ p[1].effective_at > p[2].effective_at
                                \/ p[1].effective_at = p[2].effective_at /\ p[1].id > p[2].id}
           Q == {p \in T \X T : \/ p[1].effective_at > p[2].effective_at
                                \/ p[1].effective_at = p[2].effective_at /\ p[1].id > p[2].id}
           k == 1
           d == [x \in A |-> Sqlite!rowToFXRate(x)]
           e == [x \in B |-> Crdb!rowToFXRate(x)]
           X == {[i \in DOMAIN q |-> Sqlite!rowToFXRate(q[i])] : q \in PageBy(S, R, k)}
           Y == {[i \in DOMAIN q |-> Crdb!rowToFXRate(q[i])] : q \in PageBy(T, Q, k)}
<1>1. /\ A \subseteq RateRow /\ IsFiniteSet(A)
      /\ B = {ToRate[x] : x \in A} /\ B \subseteq RateRow
  BY DEF SameTables, SqlTables, SameRows, FiniteTables
<1>2. v \in Stamps /\ w = Sqlite!parseTime(v) /\ k \in Nat
  BY FormatThenParse, BoundsAssumption DEF Instants, Filters, Stamps
<1>3. Sqlite!GetFXRateAt(sqlite, b, t) = X
  BY OnePage, Zenon
     DEF Sqlite!GetFXRateAt, Sqlite!getFXRateAt, Sqlite!MapPage, Sqlite!Page,
         Sqlite!NewestRate
<1>4. Crdb!GetFXRateAt(rounded, b, w) = Y
  BY OnePage, Zenon
     DEF Crdb!GetFXRateAt, Crdb!getFXRateAt, Crdb!MapPage, Crdb!Page, Crdb!NewestRate
<1>5. \A x \in A : x \in S <=> ToRate[x] \in T
  BY <1>1, <1>2, RateRows, ParseInOrder DEF RateRow
<1>6. \A x, y \in S : <<x, y>> \in R <=> <<ToRate[x], ToRate[y]>> \in Q
  <2>1. S \subseteq A
    OBVIOUS
  <2> HIDE DEF S, T
  <2> QED BY <1>1, <1>5, <2>1, RateRows, ParseInOrder DEF RateRow
<1>7. SameSelection(A, ToRate, B, S, R, T, Q)
  <2>1. \A x, y \in A : ToRate[x] = ToRate[y] => x = y
    BY <1>1, RateRows
  <2>2. S \subseteq A /\ T \subseteq B
    OBVIOUS
  <2> HIDE DEF A, B, S, R, T, Q
  <2> QED BY <1>1, <1>5, <1>6, <2>1, <2>2 DEF SameSelection
<1>8. \A x \in A : d[x] = e[ToRate[x]]
  BY <1>1, RateRows DEF ToRate
<1> HIDE DEF A, B, S, R, T, Q, k
<1>9. /\ \A q \in PageBy(S, R, k) : \A i \in DOMAIN q : q[i] \in A
      /\ \A q \in PageBy(T, Q, k) : \A i \in DOMAIN q : q[i] \in B
      /\ Answers(S, R, k, d) = Answers(T, Q, k, e)
  <2> HIDE DEF d, e
  <2> QED BY <1>2, <1>7, <1>8, SameQuery
<1>10. Answers(S, R, k, d) = X
  <2>1. \A q \in PageBy(S, R, k) :
          [i \in DOMAIN q |-> d[q[i]]] = [i \in DOMAIN q |-> Sqlite!rowToFXRate(q[i])]
    BY <1>9
  <2> HIDE DEF d
  <2> QED BY <2>1 DEF Answers
<1>11. Answers(T, Q, k, e) = Y
  <2>1. \A q \in PageBy(T, Q, k) :
          [i \in DOMAIN q |-> e[q[i]]] = [i \in DOMAIN q |-> Crdb!rowToFXRate(q[i])]
    BY <1>9
  <2> HIDE DEF e
  <2> QED BY <2>1 DEF Answers
<1> HIDE DEF d, e, X, Y
<1> QED BY <1>3, <1>4, <1>9, <1>10, <1>11

\* ListFXRates: either end of the interval may be open.
LEMMA RateListsAgree ==
    ASSUME SameTables, NEW b, NEW t \in Filters, NEW u \in Filters, NEW n \in Limits
    PROVE  Sqlite!ListFXRates(sqlite, b, t, u, n)
             = Crdb!ListFXRates(rounded, b, Round(t), Round(u), n)
<1> DEFINE A == sqlite.fx_rates
           B == rounded.fx_rates
           v == Sqlite!sqliteTimeFormat(t)
           w == Round(t)
           v2 == Sqlite!sqliteTimeFormat(u)
           w2 == Round(u)
           S == {r \in A : /\ r.base = b \/ b = ""
                           /\ r.effective_at >= v \/ v = -1
                           /\ r.effective_at <= v2 \/ v2 = -1}
           T == {r \in B : /\ b = "" \/ r.base = b
                           /\ w = -1 \/ r.effective_at >= w
                           /\ w2 = -1 \/ r.effective_at <= w2}
           R == {p \in S \X S : \/ p[1].effective_at > p[2].effective_at
                                \/ p[1].effective_at = p[2].effective_at /\ p[1].id > p[2].id}
           Q == {p \in T \X T : \/ p[1].effective_at > p[2].effective_at
                                \/ p[1].effective_at = p[2].effective_at /\ p[1].id > p[2].id}
           k == IF n <= 0 \/ n > 500 THEN 100 ELSE n
           d == [x \in A |-> Sqlite!rowToFXRate(x)]
           e == [x \in B |-> Crdb!rowToFXRate(x)]
           X == {[i \in DOMAIN q |-> Sqlite!rowToFXRate(q[i])] : q \in PageBy(S, R, k)}
           Y == {[i \in DOMAIN q |-> Crdb!rowToFXRate(q[i])] : q \in PageBy(T, Q, k)}
<1>1. /\ A \subseteq RateRow /\ IsFiniteSet(A)
      /\ B = {ToRate[x] : x \in A} /\ B \subseteq RateRow
  BY DEF SameTables, SqlTables, SameRows, FiniteTables
<1>2. /\ v \in Stamps /\ w = Sqlite!parseTime(v)
      /\ v2 \in Stamps /\ w2 = Sqlite!parseTime(v2)
      /\ k \in Nat
  BY FormatThenParse, BoundsAssumption DEF Instants, Filters, Stamps
<1>3. Sqlite!ListFXRates(sqlite, b, t, u, n) = X
  BY OnePage, ZenonT(60)
     DEF Sqlite!ListFXRates, Sqlite!listFXRates, Sqlite!MapPage, Sqlite!Page, Sqlite!NoTime,
         Sqlite!NewestRate
<1>4. Crdb!ListFXRates(rounded, b, w, w2, n) = Y
  BY OnePage, ZenonT(60)
     DEF Crdb!ListFXRates, Crdb!listFXRates, Crdb!MapPage, Crdb!Page, Crdb!NoTime,
         Crdb!NewestRate
<1>5. ASSUME NEW x \in A PROVE x \in S <=> ToRate[x] \in T
  <2>1. /\ ToRate[x] \in B
        /\ ToRate[x].base = x.base
    BY <1>1, RateRows
  <2>2. /\ x.effective_at >= v <=> ToRate[x].effective_at >= w
        /\ v = -1 <=> w = -1
        /\ x.effective_at <= v2 <=> ToRate[x].effective_at <= w2
        /\ v2 = -1 <=> w2 = -1
    BY <1>1, <1>2, RateRows, ParseInOrder DEF RateRow
  <2> QED BY <2>1, <2>2, Zenon
<1>6. \A x, y \in S : <<x, y>> \in R <=> <<ToRate[x], ToRate[y]>> \in Q
  <2>1. S \subseteq A
    OBVIOUS
  <2> HIDE DEF S, T
  <2> QED BY <1>1, <1>5, <2>1, RateRows, ParseInOrder DEF RateRow
<1>7. SameSelection(A, ToRate, B, S, R, T, Q)
  <2>1. \A x, y \in A : ToRate[x] = ToRate[y] => x = y
    BY <1>1, RateRows
  <2>2. S \subseteq A /\ T \subseteq B
    OBVIOUS
  <2> HIDE DEF A, B, S, R, T, Q
  <2> QED BY <1>1, <1>5, <1>6, <2>1, <2>2 DEF SameSelection
<1>8. \A x \in A : d[x] = e[ToRate[x]]
  BY <1>1, RateRows DEF ToRate
<1> HIDE DEF A, B, S, R, T, Q, k
<1>9. /\ \A q \in PageBy(S, R, k) : \A i \in DOMAIN q : q[i] \in A
      /\ \A q \in PageBy(T, Q, k) : \A i \in DOMAIN q : q[i] \in B
      /\ Answers(S, R, k, d) = Answers(T, Q, k, e)
  <2> HIDE DEF d, e
  <2> QED BY <1>2, <1>7, <1>8, SameQuery
<1>10. Answers(S, R, k, d) = X
  <2>1. \A q \in PageBy(S, R, k) :
          [i \in DOMAIN q |-> d[q[i]]] = [i \in DOMAIN q |-> Sqlite!rowToFXRate(q[i])]
    BY <1>9
  <2> HIDE DEF d
  <2> QED BY <2>1 DEF Answers
<1>11. Answers(T, Q, k, e) = Y
  <2>1. \A q \in PageBy(T, Q, k) :
          [i \in DOMAIN q |-> e[q[i]]] = [i \in DOMAIN q |-> Crdb!rowToFXRate(q[i])]
    BY <1>9
  <2> HIDE DEF e
  <2> QED BY <2>1 DEF Answers
<1> HIDE DEF d, e, X, Y
<1> QED BY <1>3, <1>4, <1>9, <1>10, <1>11

\* GetSnapshotBefore: the newest row of the account.
LEMMA SnapshotsAgreeBefore ==
    ASSUME SameTables, NEW a, NEW t \in Instants
    PROVE  Sqlite!GetSnapshotBefore(sqlite, a, t)
             = Crdb!GetSnapshotBefore(rounded, a, Round(t))
<1> DEFINE A == sqlite.balance_snapshots
           B == rounded.balance_snapshots
           v == Sqlite!sqliteTimeFormat(t)
           w == Round(t)
           S == {r \in A : /\ r.account_id = a
                           /\ r.snapshot_at <= v}
           T == {r \in B : /\ r.account_id = a
                           /\ r.snapshot_at <= w}
           R == {p \in S \X S : \/ p[1].snapshot_at > p[2].snapshot_at
                                \/ p[1].snapshot_at = p[2].snapshot_at /\ p[1].id > p[2].id}
           Q == {p \in T \X T : \/ p[1].snapshot_at > p[2].snapshot_at
                                \/ p[1].snapshot_at = p[2].snapshot_at /\ p[1].id > p[2].id}
           k == 1
           d == [x \in A |-> Sqlite!rowToSnapshot(x)]
           e == [x \in B |-> Crdb!rowToSnapshot(x)]
           X == {[i \in DOMAIN q |-> Sqlite!rowToSnapshot(q[i])] : q \in PageBy(S, R, k)}
           Y == {[i \in DOMAIN q |-> Crdb!rowToSnapshot(q[i])] : q \in PageBy(T, Q, k)}
<1>1. /\ A \subseteq SnapshotRow /\ IsFiniteSet(A)
      /\ B = {ToSnapshot[x] : x \in A} /\ B \subseteq SnapshotRow
  BY DEF SameTables, SqlTables, SameRows, FiniteTables
<1>2. v \in Stamps /\ w = Sqlite!parseTime(v) /\ k \in Nat
  BY FormatThenParse, BoundsAssumption DEF Instants, Filters, Stamps
<1>3. Sqlite!GetSnapshotBefore(sqlite, a, t) = X
  BY OnePage, Zenon
     DEF Sqlite!GetSnapshotBefore, Sqlite!getLatestSnapshotBefore, Sqlite!MapPage, Sqlite!Page
<1>4. Crdb!GetSnapshotBefore(rounded, a, w) = Y
  BY OnePage, Zenon
     DEF Crdb!GetSnapshotBefore, Crdb!getLatestSnapshotBefore, Crdb!MapPage, Crdb!Page
<1>5. \A x \in A : x \in S <=> ToSnapshot[x] \in T
  BY <1>1, <1>2, SnapshotRows, ParseInOrder DEF SnapshotRow
<1>6. \A x, y \in S : <<x, y>> \in R <=> <<ToSnapshot[x], ToSnapshot[y]>> \in Q
  <2>1. S \subseteq A
    OBVIOUS
  <2> HIDE DEF S, T
  <2> QED BY <1>1, <1>5, <2>1, SnapshotRows, ParseInOrder DEF SnapshotRow
<1>7. SameSelection(A, ToSnapshot, B, S, R, T, Q)
  <2>1. \A x, y \in A : ToSnapshot[x] = ToSnapshot[y] => x = y
    BY <1>1, SnapshotRows
  <2>2. S \subseteq A /\ T \subseteq B
    OBVIOUS
  <2> HIDE DEF A, B, S, R, T, Q
  <2> QED BY <1>1, <1>5, <1>6, <2>1, <2>2 DEF SameSelection
<1>8. \A x \in A : d[x] = e[ToSnapshot[x]]
  BY <1>1, SnapshotRows DEF ToSnapshot
<1> HIDE DEF A, B, S, R, T, Q, k
<1>9. /\ \A q \in PageBy(S, R, k) : \A i \in DOMAIN q : q[i] \in A
      /\ \A q \in PageBy(T, Q, k) : \A i \in DOMAIN q : q[i] \in B
      /\ Answers(S, R, k, d) = Answers(T, Q, k, e)
  <2> HIDE DEF d, e
  <2> QED BY <1>2, <1>7, <1>8, SameQuery
<1>10. Answers(S, R, k, d) = X
  <2>1. \A q \in PageBy(S, R, k) :
          [i \in DOMAIN q |-> d[q[i]]] = [i \in DOMAIN q |-> Sqlite!rowToSnapshot(q[i])]
    BY <1>9
  <2> HIDE DEF d
  <2> QED BY <2>1 DEF Answers
<1>11. Answers(T, Q, k, e) = Y
  <2>1. \A q \in PageBy(T, Q, k) :
          [i \in DOMAIN q |-> e[q[i]]] = [i \in DOMAIN q |-> Crdb!rowToSnapshot(q[i])]
    BY <1>9
  <2> HIDE DEF e
  <2> QED BY <2>1 DEF Answers
<1> HIDE DEF d, e, X, Y
<1> QED BY <1>3, <1>4, <1>9, <1>10, <1>11

\* ListAccountActivity: entries of an account, oldest first.
LEMMA ActivityAgrees ==
    ASSUME SameTables, NEW a, NEW t \in Filters, NEW u \in Filters, NEW n \in Limits
    PROVE  Sqlite!ListAccountActivity(sqlite, a, t, u, n)
             = Crdb!ListAccountActivity(rounded, a, Round(t), Round(u), n)
<1> DEFINE A == sqlite.ledger_entries
           B == rounded.ledger_entries
           v == Sqlite!sqliteTimeFormat(t)
           w == Round(t)
           v2 == Sqlite!sqliteTimeFormat(u)
           w2 == Round(u)
           S == {r \in A : /\ r.account_id = a
                           /\ r.created_at >= v \/ v = -1
                           /\ r.created_at <= v2 \/ v2 = -1}
           T == {r \in B : /\ r.account_id = a
                           /\ w = -1 \/ r.created_at >= w
                           /\ w2 = -1 \/ r.created_at <= w2}
           R == {p \in S \X S : \/ p[1].created_at < p[2].created_at
                                \/ p[1].created_at = p[2].created_at /\ p[1].id < p[2].id}
           Q == {p \in T \X T : \/ p[1].created_at < p[2].created_at
                                \/ p[1].created_at = p[2].created_at /\ p[1].id < p[2].id}
           k == IF n <= 0 THEN 100 ELSE n
           d == [x \in A |-> Sqlite!activityRow(x)]
           e == [x \in B |-> Crdb!activityRow(x)]
           X == {[i \in DOMAIN q |-> Sqlite!activityRow(q[i])] : q \in PageBy(S, R, k)}
           Y == {[i \in DOMAIN q |-> Crdb!activityRow(q[i])] : q \in PageBy(T, Q, k)}
<1>1. /\ A \subseteq EntryRow /\ IsFiniteSet(A)
      /\ B = {ToEntry[x] : x \in A} /\ B \subseteq EntryRow
  BY DEF SameTables, SqlTables, SameRows, FiniteTables
<1>2. /\ v \in Stamps /\ w = Sqlite!parseTime(v)
      /\ v2 \in Stamps /\ w2 = Sqlite!parseTime(v2)
      /\ k \in Nat
  BY FormatThenParse, BoundsAssumption DEF Instants, Filters, Stamps
<1>3. Sqlite!ListAccountActivity(sqlite, a, t, u, n) = X
  BY OnePage, ZenonT(60)
     DEF Sqlite!ListAccountActivity, Sqlite!listAccountActivity, Sqlite!MapPage, Sqlite!Page,
         Sqlite!NoTime
<1>4. Crdb!ListAccountActivity(rounded, a, w, w2, n) = Y
  BY OnePage, ZenonT(60)
     DEF Crdb!ListAccountActivity, Crdb!listAccountActivity, Crdb!MapPage, Crdb!Page,
         Crdb!NoTime
<1>5. \A x \in A : x \in S <=> ToEntry[x] \in T
  BY <1>1, <1>2, EntryRows, ParseInOrder DEF EntryRow
<1>6. \A x, y \in S : <<x, y>> \in R <=> <<ToEntry[x], ToEntry[y]>> \in Q
  <2>1. S \subseteq A
    OBVIOUS
  <2> HIDE DEF S, T
  <2> QED BY <1>1, <1>5, <2>1, EntryRows, ParseInOrder DEF EntryRow
<1>7. SameSelection(A, ToEntry, B, S, R, T, Q)
  <2>1. \A x, y \in A : ToEntry[x] = ToEntry[y] => x = y
    BY <1>1, EntryRows
  <2>2. S \subseteq A /\ T \subseteq B
    OBVIOUS
  <2> HIDE DEF A, B, S, R, T, Q
  <2> QED BY <1>1, <1>5, <1>6, <2>1, <2>2 DEF SameSelection
<1>8. \A x \in A : d[x] = e[ToEntry[x]]
  BY <1>1, EntryRows DEF ToEntry
<1> HIDE DEF A, B, S, R, T, Q, k
<1>9. /\ \A q \in PageBy(S, R, k) : \A i \in DOMAIN q : q[i] \in A
      /\ \A q \in PageBy(T, Q, k) : \A i \in DOMAIN q : q[i] \in B
      /\ Answers(S, R, k, d) = Answers(T, Q, k, e)
  <2> HIDE DEF d, e
  <2> QED BY <1>2, <1>7, <1>8, SameQuery
<1>10. Answers(S, R, k, d) = X
  <2>1. \A q \in PageBy(S, R, k) :
          [i \in DOMAIN q |-> d[q[i]]] = [i \in DOMAIN q |-> Sqlite!activityRow(q[i])]
    BY <1>9
  <2> HIDE DEF d
  <2> QED BY <2>1 DEF Answers
<1>11. Answers(T, Q, k, e) = Y
  <2>1. \A q \in PageBy(T, Q, k) :
          [i \in DOMAIN q |-> e[q[i]]] = [i \in DOMAIN q |-> Crdb!activityRow(q[i])]
    BY <1>9
  <2> HIDE DEF e
  <2> QED BY <2>1 DEF Answers
<1> HIDE DEF d, e, X, Y
<1> QED BY <1>3, <1>4, <1>9, <1>10, <1>11

\* ListJournalsForRecon: without a limit.
LEMMA JournalListsAgree ==
    ASSUME SameTables, NEW s, NEW t \in Instants, NEW u \in Instants
    PROVE  Sqlite!ListJournalsForRecon(sqlite, s, t, u)
             = Crdb!ListJournalsForRecon(rounded, s, Round(t), Round(u))
<1> DEFINE A == sqlite.ledger_journals
           B == rounded.ledger_journals
           v == Sqlite!sqliteTimeFormat(t)
           w == Round(t)
           v2 == Sqlite!sqliteTimeFormat(u)
           w2 == Round(u)
           S == {r \in A : /\ r.source_service = s
                           /\ r.created_at >= v
                           /\ r.created_at <= v2}
           T == {r \in B : /\ r.source_service = s
                           /\ r.created_at >= w
                           /\ r.created_at <= w2}
           R == {p \in S \X S : p[1].created_at < p[2].created_at}
           Q == {p \in T \X T : p[1].created_at < p[2].created_at}
           k == Cardinality(A)
           k2 == Cardinality(B)
           d == [x \in A |-> Sqlite!rowToJournal(x)]
           e == [x \in B |-> Crdb!rowToJournal(x)]
           X == {[i \in DOMAIN q |-> Sqlite!rowToJournal(q[i])] : q \in PageBy(S, R, k)}
           Y == {[i \in DOMAIN q |-> Crdb!rowToJournal(q[i])] : q \in PageBy(T, Q, k2)}
<1>1. /\ A \subseteq JournalRow /\ IsFiniteSet(A)
      /\ B = {ToJournal[x] : x \in A} /\ B \subseteq JournalRow
  BY DEF SameTables, SqlTables, SameRows, FiniteTables
<1>2. /\ v \in Stamps /\ w = Sqlite!parseTime(v)
      /\ v2 \in Stamps /\ w2 = Sqlite!parseTime(v2)
      /\ k \in Nat
  BY <1>1, FormatThenParse, FS_CardinalityType DEF Instants, Filters, Stamps
<1>3. Sqlite!ListJournalsForRecon(sqlite, s, t, u) = X
  BY OnePage, Zenon
     DEF Sqlite!ListJournalsForRecon, Sqlite!listJournalsForRecon, Sqlite!MapPage, Sqlite!Page,
         Sqlite!Cardinality, Cardinality
<1>4. Crdb!ListJournalsForRecon(rounded, s, w, w2) = Y
  BY OnePage, Zenon
     DEF Crdb!ListJournalsForRecon, Crdb!listJournalsForRecon, Crdb!MapPage, Crdb!Page,
         Crdb!Cardinality, Cardinality
<1>5. \A x \in A : x \in S <=> ToJournal[x] \in T
  BY <1>1, <1>2, JournalRows, ParseInOrder DEF JournalRow
<1>6. \A x, y \in S : <<x, y>> \in R <=> <<ToJournal[x], ToJournal[y]>> \in Q
  <2>1. S \subseteq A
    OBVIOUS
  <2> HIDE DEF S, T
  <2> QED BY <1>1, <1>5, <2>1, JournalRows, ParseInOrder DEF JournalRow
<1>7. SameSelection(A, ToJournal, B, S, R, T, Q)
  <2>1. \A x, y \in A : ToJournal[x] = ToJournal[y] => x = y
    BY <1>1, JournalRows
  <2>2. S \subseteq A /\ T \subseteq B
    OBVIOUS
  <2> HIDE DEF A, B, S, R, T, Q
  <2> QED BY <1>1, <1>5, <1>6, <2>1, <2>2 DEF SameSelection
<1>8. \A x \in A : d[x] = e[ToJournal[x]]
  BY <1>1, JournalRows DEF ToJournal
<1> HIDE DEF A, B, S, R, T, Q, k, k2
<1>9. k2 = k
  BY <1>7, SameCount DEF k, k2
<1>10. /\ \A q \in PageBy(S, R, k) : \A i \in DOMAIN q : q[i] \in A
       /\ \A q \in PageBy(T, Q, k) : \A i \in DOMAIN q : q[i] \in B
       /\ Answers(S, R, k, d) = Answers(T, Q, k, e)
  <2> HIDE DEF d, e
  <2> QED BY <1>2, <1>7, <1>8, SameQuery
<1>11. Answers(S, R, k, d) = X
  <2>1. \A q \in PageBy(S, R, k) :
          [i \in DOMAIN q |-> d[q[i]]] = [i \in DOMAIN q |-> Sqlite!rowToJournal(q[i])]
    BY <1>10
  <2> HIDE DEF d
  <2> QED BY <2>1 DEF Answers
<1>12. Answers(T, Q, k, e) = Y
  <2>1. \A q \in PageBy(T, Q, k) :
          [i \in DOMAIN q |-> e[q[i]]] = [i \in DOMAIN q |-> Crdb!rowToJournal(q[i])]
    BY <1>10
  <2> HIDE DEF e
  <2> QED BY <1>9, <2>1 DEF Answers
<1> HIDE DEF d, e, X, Y
<1> QED BY <1>3, <1>4, <1>10, <1>11, <1>12

\* PendingOutbox: oldest first.
LEMMA PendingAgree ==
    ASSUME SameTables, NEW n \in Limits
    PROVE  Sqlite!PendingOutbox(sqlite, n)
             = Crdb!PendingOutbox(rounded, n)
<1> DEFINE A == sqlite.outbox_events
           B == rounded.outbox_events
           S == {r \in A : r.publish_state = "PENDING"}
           T == {r \in B : r.publish_state = "PENDING"}
           R == {p \in S \X S : p[1].created_at < p[2].created_at}
           Q == {p \in T \X T : p[1].created_at < p[2].created_at}
           k == IF n <= 0 THEN 100 ELSE n
           d == [x \in A |-> x.id]
           e == [x \in B |-> x.id]
           X == {[i \in DOMAIN q |-> q[i].id] : q \in PageBy(S, R, k)}
           Y == {[i \in DOMAIN q |-> q[i].id] : q \in PageBy(T, Q, k)}
<1>1. /\ A \subseteq EventRow /\ IsFiniteSet(A)
      /\ B = {ToEvent[x] : x \in A} /\ B \subseteq EventRow
  BY DEF SameTables, SqlTables, SameRows, FiniteTables
<1>2. k \in Nat
  BY BoundsAssumption
<1>3. Sqlite!PendingOutbox(sqlite, n) = X
  BY OnePage, ZenonT(60)
     DEF Sqlite!PendingOutbox, Sqlite!listPendingOutbox, Sqlite!MapPage, Sqlite!Page
<1>4. Crdb!PendingOutbox(rounded, n) = Y
  BY OnePage, ZenonT(60)
     DEF Crdb!PendingOutbox, Crdb!listPendingOutbox, Crdb!MapPage, Crdb!Page
<1>5. \A x \in A : x \in S <=> ToEvent[x] \in T
  BY <1>1, <1>2, EventRows, ParseInOrder DEF EventRow
<1>6. \A x, y \in S : <<x, y>> \in R <=> <<ToEvent[x], ToEvent[y]>> \in Q
  <2>1. S \subseteq A
    OBVIOUS
  <2> HIDE DEF S, T
  <2> QED BY <1>1, <1>5, <2>1, EventRows, ParseInOrder DEF EventRow
<1>7. SameSelection(A, ToEvent, B, S, R, T, Q)
  <2>1. \A x, y \in A : ToEvent[x] = ToEvent[y] => x = y
    BY <1>1, EventRows
  <2>2. S \subseteq A /\ T \subseteq B
    OBVIOUS
  <2> HIDE DEF A, B, S, R, T, Q
  <2> QED BY <1>1, <1>5, <1>6, <2>1, <2>2 DEF SameSelection
<1>8. \A x \in A : d[x] = e[ToEvent[x]]
  BY <1>1, EventRows DEF ToEvent
<1> HIDE DEF A, B, S, R, T, Q, k
<1>9. /\ \A q \in PageBy(S, R, k) : \A i \in DOMAIN q : q[i] \in A
      /\ \A q \in PageBy(T, Q, k) : \A i \in DOMAIN q : q[i] \in B
      /\ Answers(S, R, k, d) = Answers(T, Q, k, e)
  <2> HIDE DEF d, e
  <2> QED BY <1>2, <1>7, <1>8, SameQuery
<1>10. Answers(S, R, k, d) = X
  <2>1. \A q \in PageBy(S, R, k) :
          [i \in DOMAIN q |-> d[q[i]]] = [i \in DOMAIN q |-> q[i].id]
    BY <1>9
  <2> HIDE DEF d
  <2> QED BY <2>1 DEF Answers
<1>11. Answers(T, Q, k, e) = Y
  <2>1. \A q \in PageBy(T, Q, k) :
          [i \in DOMAIN q |-> e[q[i]]] = [i \in DOMAIN q |-> q[i].id]
    BY <1>9
  <2> HIDE DEF e
  <2> QED BY <2>1 DEF Answers
<1> HIDE DEF d, e, X, Y
<1> QED BY <1>3, <1>4, <1>9, <1>10, <1>11

\* ListExternalRecordsForRecon: what is not matched yet, in a window.
LEMMA RecordListsAgree ==
    ASSUME SameTables, NEW t \in Instants, NEW u \in Instants
    PROVE  Sqlite!ListExternalRecordsForRecon(sqlite, t, u)
             = Crdb!ListExternalRecordsForRecon(rounded, Round(t), Round(u))
<1> DEFINE A == sqlite.external_records
           B == rounded.external_records
           v == Sqlite!sqliteTimeFormat(t)
           w == Round(t)
           v2 == Sqlite!sqliteTimeFormat(u)
           w2 == Round(u)
           S == {r \in A : /\ r.occurred_at >= v
                           /\ r.occurred_at <= v2
                           /\ r.match_status = "UNMATCHED"}
           T == {r \in B : /\ r.occurred_at >= w
                           /\ r.occurred_at <= w2
                           /\ r.match_status = "UNMATCHED"}
           R == {p \in S \X S : p[1].occurred_at < p[2].occurred_at}
           Q == {p \in T \X T : p[1].occurred_at < p[2].occurred_at}
           k == Cardinality(A)
           k2 == Cardinality(B)
           d == [x \in A |-> Sqlite!rowToExternalRecord(x)]
           e == [x \in B |-> Crdb!rowToExternalRecord(x)]
           X == {[i \in DOMAIN q |-> Sqlite!rowToExternalRecord(q[i])] : q \in PageBy(S, R, k)}
           Y == {[i \in DOMAIN q |-> Crdb!rowToExternalRecord(q[i])] : q \in PageBy(T, Q, k2)}
<1>1. /\ A \subseteq RecordRow /\ IsFiniteSet(A)
      /\ B = {ToRecord[x] : x \in A} /\ B \subseteq RecordRow
  BY DEF SameTables, SqlTables, SameRows, FiniteTables
<1>2. /\ v \in Stamps /\ w = Sqlite!parseTime(v)
      /\ v2 \in Stamps /\ w2 = Sqlite!parseTime(v2)
      /\ k \in Nat
  BY <1>1, FormatThenParse, FS_CardinalityType DEF Instants, Filters, Stamps
<1>3. Sqlite!ListExternalRecordsForRecon(sqlite, t, u) = X
  BY OnePage, Zenon
     DEF Sqlite!ListExternalRecordsForRecon, Sqlite!listExternalRecordsForRecon,
         Sqlite!MapPage, Sqlite!Page, Sqlite!Cardinality, Cardinality
<1>4. Crdb!ListExternalRecordsForRecon(rounded, w, w2) = Y
  BY OnePage, Zenon
     DEF Crdb!ListExternalRecordsForRecon, Crdb!listExternalRecordsForRecon, Crdb!MapPage,
         Crdb!Page, Crdb!Cardinality, Cardinality
<1>5. \A x \in A : x \in S <=> ToRecord[x] \in T
  BY <1>1, <1>2, RecordRows, ParseInOrder DEF RecordRow
<1>6. \A x, y \in S : <<x, y>> \in R <=> <<ToRecord[x], ToRecord[y]>> \in Q
  <2>1. S \subseteq A
    OBVIOUS
  <2> HIDE DEF S, T
  <2> QED BY <1>1, <1>5, <2>1, RecordRows, ParseInOrder DEF RecordRow
<1>7. SameSelection(A, ToRecord, B, S, R, T, Q)
  <2>1. \A x, y \in A : ToRecord[x] = ToRecord[y] => x = y
    BY <1>1, RecordRows
  <2>2. S \subseteq A /\ T \subseteq B
    OBVIOUS
  <2> HIDE DEF A, B, S, R, T, Q
  <2> QED BY <1>1, <1>5, <1>6, <2>1, <2>2 DEF SameSelection
<1>8. \A x \in A : d[x] = e[ToRecord[x]]
  BY <1>1, RecordRows DEF ToRecord
<1> HIDE DEF A, B, S, R, T, Q, k, k2
<1>9. k2 = k
  BY <1>7, SameCount DEF k, k2
<1>10. /\ \A q \in PageBy(S, R, k) : \A i \in DOMAIN q : q[i] \in A
       /\ \A q \in PageBy(T, Q, k) : \A i \in DOMAIN q : q[i] \in B
       /\ Answers(S, R, k, d) = Answers(T, Q, k, e)
  <2> HIDE DEF d, e
  <2> QED BY <1>2, <1>7, <1>8, SameQuery
<1>11. Answers(S, R, k, d) = X
  <2>1. \A q \in PageBy(S, R, k) :
          [i \in DOMAIN q |-> d[q[i]]] = [i \in DOMAIN q |-> Sqlite!rowToExternalRecord(q[i])]
    BY <1>10
  <2> HIDE DEF d
  <2> QED BY <2>1 DEF Answers
<1>12. Answers(T, Q, k, e) = Y
  <2>1. \A q \in PageBy(T, Q, k) :
          [i \in DOMAIN q |-> e[q[i]]] = [i \in DOMAIN q |-> Crdb!rowToExternalRecord(q[i])]
    BY <1>10
  <2> HIDE DEF e
  <2> QED BY <1>9, <2>1 DEF Answers
<1> HIDE DEF d, e, X, Y
<1> QED BY <1>3, <1>4, <1>10, <1>11, <1>12

\* ListDiscrepancies: newest first.
LEMMA DiscrepancyListsAgree ==
    ASSUME SameTables, NEW b, NEW s, NEW n \in Limits
    PROVE  Sqlite!ListDiscrepancies(sqlite, b, s, n)
             = Crdb!ListDiscrepancies(rounded, b, s, n)
<1> DEFINE A == sqlite.discrepancies
           B == rounded.discrepancies
           S == {r \in A : /\ r.batch_id = b \/ b = ""
                           /\ r.status = s \/ s = ""}
           T == {r \in B : /\ b = "" \/ r.batch_id = b
                           /\ s = "" \/ r.status = s}
           R == {p \in S \X S : p[1].created_at > p[2].created_at}
           Q == {p \in T \X T : p[1].created_at > p[2].created_at}
           k == IF n <= 0 \/ n > 500 THEN 100 ELSE n
           d == [x \in A |-> Sqlite!rowToDiscrepancy(x)]
           e == [x \in B |-> Crdb!rowToDiscrepancy(x)]
           X == {[i \in DOMAIN q |-> Sqlite!rowToDiscrepancy(q[i])] : q \in PageBy(S, R, k)}
           Y == {[i \in DOMAIN q |-> Crdb!rowToDiscrepancy(q[i])] : q \in PageBy(T, Q, k)}
<1>1. /\ A \subseteq DiscrepancyRow /\ IsFiniteSet(A)
      /\ B = {ToDiscrepancy[x] : x \in A} /\ B \subseteq DiscrepancyRow
  BY DEF SameTables, SqlTables, SameRows, FiniteTables
<1>2. k \in Nat
  BY BoundsAssumption
<1>3. Sqlite!ListDiscrepancies(sqlite, b, s, n) = X
  BY OnePage, ZenonT(60)
     DEF Sqlite!ListDiscrepancies, Sqlite!listDiscrepancies, Sqlite!MapPage, Sqlite!Page
<1>4. Crdb!ListDiscrepancies(rounded, b, s, n) = Y
  BY OnePage, ZenonT(60)
     DEF Crdb!ListDiscrepancies, Crdb!listDiscrepancies, Crdb!MapPage, Crdb!Page
<1>5. ASSUME NEW x \in A PROVE x \in S <=> ToDiscrepancy[x] \in T
  <2>1. /\ ToDiscrepancy[x] \in B
        /\ ToDiscrepancy[x].batch_id = x.batch_id
        /\ ToDiscrepancy[x].status = x.status
    BY <1>1, DiscrepancyRows
  <2> QED BY <2>1, Zenon
<1>6. \A x, y \in S : <<x, y>> \in R <=> <<ToDiscrepancy[x], ToDiscrepancy[y]>> \in Q
  <2>1. S \subseteq A
    OBVIOUS
  <2> HIDE DEF S, T
  <2> QED BY <1>1, <1>5, <2>1, DiscrepancyRows, ParseInOrder DEF DiscrepancyRow
<1>7. SameSelection(A, ToDiscrepancy, B, S, R, T, Q)
  <2>1. \A x, y \in A : ToDiscrepancy[x] = ToDiscrepancy[y] => x = y
    BY <1>1, DiscrepancyRows
  <2>2. S \subseteq A /\ T \subseteq B
    OBVIOUS
  <2> HIDE DEF A, B, S, R, T, Q
  <2> QED BY <1>1, <1>5, <1>6, <2>1, <2>2 DEF SameSelection
<1>8. \A x \in A : d[x] = e[ToDiscrepancy[x]]
  BY <1>1, DiscrepancyRows DEF ToDiscrepancy
<1> HIDE DEF A, B, S, R, T, Q, k
<1>9. /\ \A q \in PageBy(S, R, k) : \A i \in DOMAIN q : q[i] \in A
      /\ \A q \in PageBy(T, Q, k) : \A i \in DOMAIN q : q[i] \in B
      /\ Answers(S, R, k, d) = Answers(T, Q, k, e)
  <2> HIDE DEF d, e
  <2> QED BY <1>2, <1>7, <1>8, SameQuery
<1>10. Answers(S, R, k, d) = X
  <2>1. \A q \in PageBy(S, R, k) :
          [i \in DOMAIN q |-> d[q[i]]] = [i \in DOMAIN q |-> Sqlite!rowToDiscrepancy(q[i])]
    BY <1>9
  <2> HIDE DEF d
  <2> QED BY <2>1 DEF Answers
<1>11. Answers(T, Q, k, e) = Y
  <2>1. \A q \in PageBy(T, Q, k) :
          [i \in DOMAIN q |-> e[q[i]]] = [i \in DOMAIN q |-> Crdb!rowToDiscrepancy(q[i])]
    BY <1>9
  <2> HIDE DEF e
  <2> QED BY <2>1 DEF Answers
<1> HIDE DEF d, e, X, Y
<1> QED BY <1>3, <1>4, <1>9, <1>10, <1>11

\* ListTenantsDueForSnapshot: the tenants without a snapshot after the cutoff.
LEMMA TenantListsAgree ==
    ASSUME SameTables, NEW t \in Instants, NEW n \in Limits
    PROVE  Sqlite!ListTenantsDueForSnapshot(sqlite, t, n)
             = Crdb!ListTenantsDueForSnapshot(rounded, Round(t), n)
<1> DEFINE A == sqlite.balance_snapshots
           B == rounded.balance_snapshots
           v == Sqlite!sqliteTimeFormat(t)
           w == Round(t)
           S == {a.tenant_id : a \in {b \in AccountRows :
                    ~ \E s \in A : s.tenant_id = b.tenant_id /\ s.snapshot_at > v}}
           T == {a.tenant_id : a \in {b \in AccountRows :
                    ~ \E s \in B : s.tenant_id = b.tenant_id /\ s.snapshot_at > w}}
           k == IF n <= 0 THEN 100 ELSE n
<1>1. A \subseteq SnapshotRow /\ B = {ToSnapshot[x] : x \in A}
  BY DEF SameTables, SqlTables, SameRows
<1>2. v \in Stamps /\ w = Sqlite!parseTime(v)
  BY FormatThenParse DEF Instants, Stamps
<1>3. \A x \in A : /\ ToSnapshot[x].tenant_id = x.tenant_id
                   /\ x.snapshot_at > v <=> ToSnapshot[x].snapshot_at > w
  BY <1>1, <1>2, SnapshotRows, ParseInOrder DEF SnapshotRow
<1>4. \A b : (\E s \in A : s.tenant_id = b /\ s.snapshot_at > v)
               <=> (\E s \in B : s.tenant_id = b /\ s.snapshot_at > w)
  <2> HIDE DEF A, B, v, w
  <2> QED BY <1>1, <1>3
<1>5. S = T
  <2> HIDE DEF A, B, v, w
  <2> QED BY <1>4
<1>6. Sqlite!ListTenantsDueForSnapshot(sqlite, t, n)
        = PageBy(S, {p \in S \X S : FALSE}, k)
  BY OnePage, ZenonT(60)
     DEF Sqlite!ListTenantsDueForSnapshot, Sqlite!listTenantsDueForSnapshot, Sqlite!Page
<1>7. Crdb!ListTenantsDueForSnapshot(rounded, w, n) = PageBy(T, {p \in T \X T : FALSE}, k)
  BY OnePage, ZenonT(60)
     DEF Crdb!ListTenantsDueForSnapshot, Crdb!listTenantsDueForSnapshot, Crdb!Page
<1> HIDE DEF S, T, k
<1> QED BY <1>5, <1>6, <1>7

\* The sets of ids of some pages, and the sets of values of some answers.
IdSets(pages) == {{s.id : s \in Z} : Z \in {{q[i] : i \in DOMAIN q} : q \in pages}}
Ranges(answers) == {{a[i] : i \in DOMAIN a} : a \in answers}

\* The ids of the rows of a page, taken from the rows or from the answer.
LEMMA IdsOfPages ==
    ASSUME NEW S, NEW R, NEW n, NEW A,
           \A q \in PageBy(S, R, n) : \A i \in DOMAIN q : q[i] \in A,
           NEW d, \A x \in A : d[x] = x.id
    PROVE  IdSets(PageBy(S, R, n)) = Ranges(Answers(S, R, n, d))
<1> DEFINE P == PageBy(S, R, n)
           Rows(q) == {q[i] : i \in DOMAIN q}
           IdsIn(Z) == {s.id : s \in Z}
           Ans(q) == [i \in DOMAIN q |-> d[q[i]]]
           In(a) == {a[i] : i \in DOMAIN a}
<1>1. ASSUME NEW q \in P PROVE IdsIn(Rows(q)) = In(Ans(q))
  <2>1. IdsIn(Rows(q)) = {q[i].id : i \in DOMAIN q}
    OBVIOUS
  <2>2. In(Ans(q)) = {d[q[i]] : i \in DOMAIN q}
    OBVIOUS
  <2>3. \A i \in DOMAIN q : d[q[i]] = q[i].id
    BY <1>1
  <2> HIDE DEF Rows, IdsIn, Ans, In
  <2> QED BY <2>1, <2>2, <2>3
<1> HIDE DEF Rows, IdsIn, Ans, In
<1>2. {IdsIn(Z) : Z \in {Rows(q) : q \in P}} = {In(a) : a \in {Ans(q) : q \in P}}
  BY <1>1
<1> QED BY <1>2, Zenon DEF Rows, IdsIn, Ans, In, IdSets, Ranges, Answers

\* PruneSnapshotsOlderThan: any old rows that are not the newest of their
\* account.
LEMMA PrunesAgree ==
    ASSUME SameTables, NEW t \in Instants, NEW n \in Limits
    PROVE  Sqlite!PruneSnapshotsOlderThan(sqlite, t, n)
             = Crdb!PruneSnapshotsOlderThan(rounded, Round(t), n)
<1> DEFINE A == sqlite.balance_snapshots
           B == rounded.balance_snapshots
           v == Sqlite!sqliteTimeFormat(t)
           w == Round(t)
           S == {s \in A : /\ s.snapshot_at < v
                           /\ \E r \in A : /\ r.account_id = s.account_id
                                           /\ r.snapshot_at > s.snapshot_at}
           T == {s \in B : /\ s.snapshot_at < w
                           /\ \E r \in B : /\ r.account_id = s.account_id
                                           /\ r.snapshot_at > s.snapshot_at}
           R == {p \in S \X S : FALSE}
           Q == {p \in T \X T : FALSE}
           k == IF n <= 0 THEN 100 ELSE n
           d == [x \in A |-> x.id]
           e == [x \in B |-> x.id]
<1>1. /\ A \subseteq SnapshotRow /\ IsFiniteSet(A)
      /\ B = {ToSnapshot[x] : x \in A} /\ B \subseteq SnapshotRow
  BY DEF SameTables, SqlTables, SameRows, FiniteTables
<1>2. v \in Stamps /\ w = Sqlite!parseTime(v) /\ k \in Nat
  BY FormatThenParse, BoundsAssumption DEF Instants, Stamps
<1>3. Sqlite!PruneSnapshotsOlderThan(sqlite, t, n) = IdSets(PageBy(S, R, k))
  BY OnePage, ZenonT(60)
     DEF Sqlite!PruneSnapshotsOlderThan, Sqlite!pruneSnapshotsOlderThan, Sqlite!Page,
         Sqlite!ToSet, IdSets
<1>4. Crdb!PruneSnapshotsOlderThan(rounded, w, n) = IdSets(PageBy(T, Q, k))
  BY OnePage, ZenonT(60)
     DEF Crdb!PruneSnapshotsOlderThan, Crdb!pruneSnapshotsOlderThan, Crdb!Page, Crdb!ToSet,
         IdSets
<1>5. ASSUME NEW x \in A PROVE x \in S <=> ToSnapshot[x] \in T
  <2>1. \A r \in A : /\ ToSnapshot[r] \in B
                     /\ ToSnapshot[r].account_id = r.account_id
                     /\ r.snapshot_at < v <=> ToSnapshot[r].snapshot_at < w
                     /\ r.snapshot_at > x.snapshot_at
                          <=> ToSnapshot[r].snapshot_at > ToSnapshot[x].snapshot_at
    BY <1>1, <1>2, SnapshotRows, ParseInOrder DEF SnapshotRow
  <2>2. (\E r \in A : r.account_id = x.account_id /\ r.snapshot_at > x.snapshot_at)
          <=> \E r \in B : /\ r.account_id = ToSnapshot[x].account_id
                           /\ r.snapshot_at > ToSnapshot[x].snapshot_at
    <3> HIDE DEF A, B, v, w
    <3> QED BY <1>1, <2>1
  <2> HIDE DEF A, B, v, w
  <2> QED BY <2>1, <2>2
<1>6. \A x, y \in S : <<x, y>> \in R <=> <<ToSnapshot[x], ToSnapshot[y]>> \in Q
  OBVIOUS
<1>7. SameSelection(A, ToSnapshot, B, S, R, T, Q)
  <2>1. \A x, y \in A : ToSnapshot[x] = ToSnapshot[y] => x = y
    BY <1>1, SnapshotRows
  <2>2. S \subseteq A /\ T \subseteq B
    OBVIOUS
  <2> HIDE DEF A, B, S, R, T, Q
  <2> QED BY <1>1, <1>5, <1>6, <2>1, <2>2 DEF SameSelection
<1>8. \A x \in A : d[x] = e[ToSnapshot[x]]
  BY <1>1, SnapshotRows
<1> HIDE DEF A, B, S, R, T, Q, k
<1>9. /\ \A q \in PageBy(S, R, k) : \A i \in DOMAIN q : q[i] \in A
      /\ \A q \in PageBy(T, Q, k) : \A i \in DOMAIN q : q[i] \in B
      /\ Answers(S, R, k, d) = Answers(T, Q, k, e)
  <2> HIDE DEF d, e
  <2> QED BY <1>2, <1>7, <1>8, SameQuery
<1>10. IdSets(PageBy(S, R, k)) = Ranges(Answers(S, R, k, d))
  <2>1. \A x \in A : d[x] = x.id
    OBVIOUS
  <2> HIDE DEF d
  <2> QED BY <1>9, <2>1, IdsOfPages
<1>11. IdSets(PageBy(T, Q, k)) = Ranges(Answers(T, Q, k, e))
  <2>1. \A x \in B : e[x] = x.id
    OBVIOUS
  <2> HIDE DEF e
  <2> QED BY <1>9, <2>1, IdsOfPages
<1> HIDE DEF d, e
<1> QED BY <1>3, <1>4, <1>9, <1>10, <1>11

\* The amounts that a sum adds up.
Amounts(S, dir) == [e \in S |-> IF e.direction = dir THEN e.amount ELSE 0]

\* The backends' modules mean the same by a sum.
LEMMA OneSum ==
    ASSUME NEW S, NEW dir
    PROVE  /\ Sqlite!SumOf(S, dir) = SumFunctionOnSet(Amounts(S, dir), S)
           /\ Crdb!SumOf(S, dir) = SumFunctionOnSet(Amounts(S, dir), S)
BY DEF Amounts, SumFunctionOnSet, FoldFunctionOnSet, MapThenFoldSet,
       Sqlite!SumOf, Sqlite!SumFunctionOnSet, Sqlite!FoldFunctionOnSet, Sqlite!MapThenFoldSet,
       Crdb!SumOf, Crdb!SumFunctionOnSet, Crdb!FoldFunctionOnSet, Crdb!MapThenFoldSet

\* A sum over entries of SQLite and over the same entries of CockroachDB.
LEMMA SameSum ==
    ASSUME SameTables, NEW S \in SUBSET sqlite.ledger_entries,
           NEW T, T = {ToEntry[x] : x \in S}, NEW dir
    PROVE  Sqlite!SumOf(S, dir) = Crdb!SumOf(T, dir) /\ Crdb!SumOf(T, dir) \in Int
<1> DEFINE f == Amounts(S, dir)
           g == Amounts(T, dir)
<1>1. S \subseteq EntryRow /\ IsFiniteSet(S)
  BY FS_Subset DEF SameTables, SqlTables, FiniteTables
<1>2. \A x, y \in S : ToEntry[x] = ToEntry[y] => x = y
  BY <1>1, EntryRows
<1>3. \A x \in S : g[ToEntry[x]] = f[x] /\ f[x] \in Int
  BY <1>1, EntryRows DEF Amounts, EntryRow
<1> HIDE DEF f, g
<1>4. SumFunctionOnSet(g, {ToEntry[x] : x \in S}) = SumFunctionOnSet(f, S)
  BY <1>1, <1>2, <1>3, SumRename
<1>5. SumFunctionOnSet(f, S) \in Int
  BY <1>1, <1>3, SumInt
<1> QED BY <1>4, <1>5, OneSum DEF f, g

\* What the REAL sums over entries of SQLite may come to, next to the exact sums
\* over the same entries of CockroachDB.
LEMMA RealSumsAgree ==
    ASSUME SameTables, NEW S \in SUBSET sqlite.ledger_entries,
           NEW T, T = {ToEntry[x] : x \in S},
           NEW s \in Sqlite!RealSums(S, "DEBIT") \X Sqlite!RealSums(S, "CREDIT")
    PROVE  SumsAreClose(s, <<Crdb!SumOf(T, "DEBIT"), Crdb!SumOf(T, "CREDIT")>>)
<1> DEFINE n == Cardinality(sqlite.ledger_entries)
           whole == \A e \in sqlite.ledger_entries : e.amount % Whole = 0
<1>1. \A dir : Sqlite!SumOf(S, dir) = Crdb!SumOf(T, dir) /\ Crdb!SumOf(T, dir) \in Int
  BY SameSum
<1>2. Cardinality(S) \in Nat /\ n \in Nat /\ Cardinality(S) <= n
  BY FS_Subset, FS_CardinalityType DEF SameTables, FiniteTables
<1>3. ASSUME NEW dir, NEW x \in Sqlite!RealSums(S, dir)
      PROVE  LET c == Crdb!SumOf(T, dir)
             IN  /\ c - n <= x /\ x <= c + n
                 /\ c < RealLimit /\ whole => x = c
  <2> DEFINE c == Crdb!SumOf(T, dir)
             slip == IF Sqlite!RealIsExact(S, dir) THEN 0 ELSE Cardinality(S)
  <2>a. Sqlite!RealSums(S, dir)
          = (Sqlite!SumOf(S, dir) - slip) .. (Sqlite!SumOf(S, dir) + slip)
    BY Zenon DEF Sqlite!RealSums, Sqlite!Cardinality, Cardinality
  <2>b. Sqlite!SumOf(S, dir) = c /\ c \in Int
    BY <1>1
  <2> HIDE DEF slip, c
  <2>1. x \in (c - slip) .. (c + slip) /\ c \in Int
    BY <1>3, <2>a, <2>b
  <2> USE DEF slip, c
  <2>2. slip \in Nat /\ slip <= n
    BY <1>2
  <2>3. c < RealLimit /\ whole => slip = 0
    BY <1>1 DEF Sqlite!RealIsExact
  <2> HIDE DEF c, slip, n, whole
  <2>4. c - n <= x /\ x <= c + n /\ (c < RealLimit /\ whole => x = c)
    BY <1>2, <2>1, <2>2, <2>3
  <2> QED BY <2>4 DEF c
<1>4. s[1] \in Sqlite!RealSums(S, "DEBIT") /\ s[2] \in Sqlite!RealSums(S, "CREDIT")
  OBVIOUS
<1> DEFINE c == <<Crdb!SumOf(T, "DEBIT"), Crdb!SumOf(T, "CREDIT")>>
<1>5. c[1] = Crdb!SumOf(T, "DEBIT") /\ c[2] = Crdb!SumOf(T, "CREDIT")
  OBVIOUS
<1> HIDE DEF c, n, whole
<1>6. ASSUME NEW i \in 1 .. 2
      PROVE  c[i] - n <= s[i] /\ s[i] <= c[i] + n /\ (c[i] < RealLimit /\ whole => s[i] = c[i])
  <2>1. CASE i = 1
    BY <1>3, <1>4, <1>5, <2>1
  <2>2. CASE i = 2
    BY <1>3, <1>4, <1>5, <2>2
  <2> QED BY <2>1, <2>2
<1>7. SumsAreClose(s, c)
  BY <1>6 DEF SumsAreClose, n, whole
<1> QED BY <1>7 DEF c

\* SumEntriesBetween: the entries that a point-in-time balance adds to a
\* snapshot.
LEMMA PeriodSumsAgree ==
    ASSUME SameTables, NEW a, NEW t \in Instants, NEW u \in Instants,
           NEW s \in Sqlite!SumEntriesBetween(sqlite, a, t, u)
    PROVE  SumsAreClose(s, Crdb!SumEntriesBetween(rounded, a, Round(t), Round(u)))
<1> DEFINE A == sqlite.ledger_entries
           B == rounded.ledger_entries
           v == Sqlite!sqliteTimeFormat(t)
           w == Round(t)
           v2 == Sqlite!sqliteTimeFormat(u)
           w2 == Round(u)
           S == {e \in A : e.account_id = a /\ e.created_at > v /\ e.created_at <= v2}
           T == {e \in B : e.account_id = a /\ e.created_at > w /\ e.created_at <= w2}
<1>1. A \subseteq EntryRow /\ B = {ToEntry[x] : x \in A}
  BY DEF SameTables, SqlTables, SameRows
<1>2. /\ v \in Stamps /\ w = Sqlite!parseTime(v)
      /\ v2 \in Stamps /\ w2 = Sqlite!parseTime(v2)
  BY FormatThenParse DEF Instants, Stamps
<1>3. \A x \in A : x \in S <=> ToEntry[x] \in T
  BY <1>1, <1>2, EntryRows, ParseInOrder DEF EntryRow
<1>4. S \in SUBSET A /\ T \in SUBSET B
  OBVIOUS
<1>5. Sqlite!SumEntriesBetween(sqlite, a, t, u)
        = Sqlite!RealSums(S, "DEBIT") \X Sqlite!RealSums(S, "CREDIT")
  BY Zenon DEF Sqlite!SumEntriesBetween, Sqlite!sumEntriesBetween
<1>6. Crdb!SumEntriesBetween(rounded, a, w, w2)
        = <<Crdb!SumOf(T, "DEBIT"), Crdb!SumOf(T, "CREDIT")>>
  BY Zenon DEF Crdb!SumEntriesBetween, Crdb!sumEntriesBetween
<1>7. T = {ToEntry[x] : x \in S}
  <2> HIDE DEF S, T, A, B
  <2> QED BY <1>1, <1>3, <1>4
<1> HIDE DEF S, T, w, w2
<1>8. SumsAreClose(s, <<Crdb!SumOf(T, "DEBIT"), Crdb!SumOf(T, "CREDIT")>>)
  BY <1>4, <1>5, <1>7, RealSumsAgree
<1> QED BY <1>6, <1>8 DEF w, w2

\* SumJournalEntries: what the matcher compares with a record's amount.
LEMMA JournalSumsAgree ==
    ASSUME SameTables, NEW j, NEW a, NEW s \in Sqlite!SumJournalEntries(sqlite, j, a)
    PROVE  SumsAreClose(s, Crdb!SumJournalEntries(rounded, j, a))
<1> DEFINE A == sqlite.ledger_entries
           B == rounded.ledger_entries
           S == {e \in A : e.journal_id = j /\ e.account_id = a}
           T == {e \in B : e.journal_id = j /\ e.account_id = a}
<1>1. A \subseteq EntryRow /\ B = {ToEntry[x] : x \in A}
  BY DEF SameTables, SqlTables, SameRows
<1>2. \A x \in A : x \in S <=> ToEntry[x] \in T
  BY <1>1, EntryRows
<1>3. S \in SUBSET A /\ T \in SUBSET B
  OBVIOUS
<1>4. Sqlite!SumJournalEntries(sqlite, j, a)
        = Sqlite!RealSums(S, "DEBIT") \X Sqlite!RealSums(S, "CREDIT")
  BY Zenon DEF Sqlite!SumJournalEntries, Sqlite!sumJournalEntries
<1>5. Crdb!SumJournalEntries(rounded, j, a)
        = <<Crdb!SumOf(T, "DEBIT"), Crdb!SumOf(T, "CREDIT")>>
  BY Zenon DEF Crdb!SumJournalEntries, Crdb!sumJournalEntries
<1>6. T = {ToEntry[x] : x \in S}
  <2> HIDE DEF S, T, A, B
  <2> QED BY <1>1, <1>2, <1>3
<1> HIDE DEF S, T
<1> QED BY <1>3, <1>4, <1>5, <1>6, RealSumsAgree
-----------------------------------------------------------------------------
(* The inductive invariant.  CockroachDB keeps what it is given, so the    *)
(* rows of the other backends are told by its rows: SQLite's reservations  *)
(* and events have the same instants as texts, DynamoDB's items the same   *)
(* instants and the index keys that go with the status.                    *)

FormatReservation ==
    [x \in ReservationRow |->
        [x EXCEPT !.expires_at = Sqlite!sqliteTimeFormat(@),
                  !.created_at = Sqlite!sqliteTimeFormat(@)]]
FormatEvent == [x \in EventRow |-> [x EXCEPT !.created_at = Sqlite!sqliteTimeFormat(@)]]
ReservationItem == [x \in ReservationRow |-> Dynamo!reservationToItem(x)]
EventItem ==
    [x \in EventRow |-> [id |-> x.id, created_at |-> x.created_at,
                         gsi1 |-> x.publish_state = "PENDING", attempts |-> x.attempts]]

OneRowPerId(S) == \A x, y \in S : x.id = y.id => x = y

\* The created_at of a row is never NULL.
Dated(S) == \A x \in S : x.created_at \in Nat

SameInstants ==
    /\ OneRowPerId(crdb.reservations) /\ OneRowPerId(crdb.outbox_events)
    /\ Dated(crdb.reservations) /\ Dated(crdb.outbox_events)
    /\ sqlite.reservations = {FormatReservation[x] : x \in crdb.reservations}
    /\ sqlite.outbox_events = {FormatEvent[x] : x \in crdb.outbox_events}
    /\ dynamo = [reservations |-> {ReservationItem[x] : x \in crdb.reservations},
                 outbox |-> {EventItem[x] : x \in crdb.outbox_events}]

\* The texts of instants, as numbers, and instants themselves.
Cut == [t \in Nat |-> t \div Unit]
Kept == [t \in Nat |-> t]

\* After the puts ps, a table of rates holds, for every source and every
\* instant that f tells apart, the rate that was put last.
UpToDate(T, f, ps) ==
    /\ \A x \in T :
          \E i \in DOMAIN ps :
             /\ ps[i].source = x.source /\ ps[i].rate = x.rate
             /\ x.effective_at = f[ps[i].effective_at]
             /\ \A k \in DOMAIN ps :
                   (k > i /\ ps[k].source = ps[i].source)
                     => f[ps[k].effective_at] # f[ps[i].effective_at]
    /\ \A i \in DOMAIN ps :
          \E x \in T : x.source = ps[i].source /\ x.effective_at = f[ps[i].effective_at]

Put == [id : Nat, base : {"EUR"}, source : {"ecb", "desk"}, rate : 1 .. 2, effective_at : Instants]

RatesUpToDate ==
    /\ puts \in Seq(Put)
    /\ UpToDate(crdb.fx_rates, Kept, puts)
    /\ UpToDate(sqlite.fx_rates, Cut, puts)

TypeInv ==
    /\ now \in Instants
    /\ crdb \in SqlTables /\ FiniteTables(crdb)

IInv == TypeInv /\ SameTables /\ SameInstants /\ RatesUpToDate

-----------------------------------------------------------------------------
(* What the actions write, table by table.                                 *)

\* What a function makes of a finite set is finite, and not more.
LEMMA FiniteImage ==
    ASSUME NEW A, IsFiniteSet(A), NEW f
    PROVE  IsFiniteSet({f[x] : x \in A}) /\ Cardinality({f[x] : x \in A}) <= Cardinality(A)
<1> DEFINE B == {f[x] : x \in A}
           c == [x \in A |-> f[x]]
<1>1. c \in Surjection(A, B)
  BY DEF Surjection
<1> HIDE DEF B, c
<1>2. IsFiniteSet(B) /\ Cardinality(B) <= Cardinality(A)
  BY <1>1, FS_Surjection
<1> QED BY <1>2 DEF B

\* The text of a reservation's times, and the item of a reservation.
LEMMA ReservationTexts ==
    ASSUME NEW x \in ReservationRow
    PROVE  /\ FormatReservation[x] \in ReservationRow
           /\ FormatReservation[x].id = x.id /\ FormatReservation[x].status = x.status
           /\ FormatReservation[x].source_account_id = x.source_account_id
           /\ FormatReservation[x].expires_at = Sqlite!sqliteTimeFormat(x.expires_at)
           /\ FormatReservation[x].created_at = Sqlite!sqliteTimeFormat(x.created_at)
           /\ ReservationItem[x] = Dynamo!reservationToItem(x)
<1>1. x.expires_at \in Stamps /\ x.created_at \in Stamps
  BY DEF ReservationRow
<1>2. /\ Sqlite!sqliteTimeFormat(x.expires_at) \in Stamps
      /\ Sqlite!sqliteTimeFormat(x.created_at) \in Stamps
  BY <1>1, FormatThenParse
<1> QED BY <1>2 DEF ReservationRow, FormatReservation, ReservationItem

\* The text of an event's time.
LEMMA EventTexts ==
    ASSUME NEW x \in EventRow
    PROVE  /\ FormatEvent[x] \in EventRow
           /\ FormatEvent[x].id = x.id /\ FormatEvent[x].publish_state = x.publish_state
           /\ FormatEvent[x].attempts = x.attempts
           /\ FormatEvent[x].created_at = Sqlite!sqliteTimeFormat(x.created_at)
<1>1. x.created_at \in Stamps
  BY DEF EventRow
<1>2. Sqlite!sqliteTimeFormat(x.created_at) \in Stamps
  BY <1>1, FormatThenParse
<1> QED BY <1>2 DEF EventRow, FormatEvent

\* A write to the snapshots of the SQL databases keeps the invariant, when the
\* rows are written alike.
LEMMA SnapshotsWritten ==
    ASSUME IInv, UNCHANGED <<dynamo, puts, now>>,
           NEW C \in SUBSET SnapshotRow, NEW X \in SUBSET SnapshotRow,
           IsFiniteSet(C), IsFiniteSet(X),
           crdb' = [crdb EXCEPT !.balance_snapshots = C],
           sqlite' = [sqlite EXCEPT !.balance_snapshots = X],
           rounded' = [rounded EXCEPT !.balance_snapshots = {ToSnapshot[x] : x \in X}]
    PROVE  IInv'
<1> DEFINE Y == {ToSnapshot[x] : x \in X}
<1>1. Y \in SUBSET SnapshotRow
  BY SnapshotRows
<1>2. /\ crdb \in SqlTables /\ sqlite \in SqlTables /\ rounded \in SqlTables
      /\ SameRows /\ FiniteTables(crdb) /\ FiniteTables(sqlite)
  BY DEF IInv, TypeInv, SameTables
<1> HIDE DEF Y
<1>3. crdb' \in SqlTables /\ sqlite' \in SqlTables /\ rounded' \in SqlTables
  BY <1>1, <1>2 DEF SqlTables, Y
<1>4. SameRows' /\ FiniteTables(crdb)' /\ FiniteTables(sqlite)'
  BY <1>2 DEF SqlTables, SameRows, FiniteTables
<1>5. SameInstants'
  BY <1>2 DEF IInv, SameInstants, SqlTables
<1>6. RatesUpToDate'
  BY <1>2 DEF IInv, RatesUpToDate, SqlTables
<1> QED BY <1>3, <1>4, <1>5, <1>6 DEF IInv, TypeInv, SameTables

\* A write to the records of the SQL databases keeps the invariant, when the
\* rows are written alike.
LEMMA RecordsWritten ==
    ASSUME IInv, UNCHANGED <<dynamo, puts, now>>,
           NEW C \in SUBSET RecordRow, NEW X \in SUBSET RecordRow,
           IsFiniteSet(C), IsFiniteSet(X),
           crdb' = [crdb EXCEPT !.external_records = C],
           sqlite' = [sqlite EXCEPT !.external_records = X],
           rounded' = [rounded EXCEPT !.external_records = {ToRecord[x] : x \in X}]
    PROVE  IInv'
<1> DEFINE Y == {ToRecord[x] : x \in X}
<1>1. Y \in SUBSET RecordRow
  BY RecordRows
<1>2. /\ crdb \in SqlTables /\ sqlite \in SqlTables /\ rounded \in SqlTables
      /\ SameRows /\ FiniteTables(crdb) /\ FiniteTables(sqlite)
  BY DEF IInv, TypeInv, SameTables
<1> HIDE DEF Y
<1>3. crdb' \in SqlTables /\ sqlite' \in SqlTables /\ rounded' \in SqlTables
  BY <1>1, <1>2 DEF SqlTables, Y
<1>4. SameRows' /\ FiniteTables(crdb)' /\ FiniteTables(sqlite)'
  BY <1>2 DEF SqlTables, SameRows, FiniteTables
<1>5. SameInstants'
  BY <1>2 DEF IInv, SameInstants, SqlTables
<1>6. RatesUpToDate'
  BY <1>2 DEF IInv, RatesUpToDate, SqlTables
<1> QED BY <1>3, <1>4, <1>5, <1>6 DEF IInv, TypeInv, SameTables

\* A write to the discrepancies of the SQL databases keeps the invariant, when the
\* rows are written alike.
LEMMA DiscrepanciesWritten ==
    ASSUME IInv, UNCHANGED <<dynamo, puts, now>>,
           NEW C \in SUBSET DiscrepancyRow, NEW X \in SUBSET DiscrepancyRow,
           IsFiniteSet(C), IsFiniteSet(X),
           crdb' = [crdb EXCEPT !.discrepancies = C],
           sqlite' = [sqlite EXCEPT !.discrepancies = X],
           rounded' = [rounded EXCEPT !.discrepancies = {ToDiscrepancy[x] : x \in X}]
    PROVE  IInv'
<1> DEFINE Y == {ToDiscrepancy[x] : x \in X}
<1>1. Y \in SUBSET DiscrepancyRow
  BY DiscrepancyRows
<1>2. /\ crdb \in SqlTables /\ sqlite \in SqlTables /\ rounded \in SqlTables
      /\ SameRows /\ FiniteTables(crdb) /\ FiniteTables(sqlite)
  BY DEF IInv, TypeInv, SameTables
<1> HIDE DEF Y
<1>3. crdb' \in SqlTables /\ sqlite' \in SqlTables /\ rounded' \in SqlTables
  BY <1>1, <1>2 DEF SqlTables, Y
<1>4. SameRows' /\ FiniteTables(crdb)' /\ FiniteTables(sqlite)'
  BY <1>2 DEF SqlTables, SameRows, FiniteTables
<1>5. SameInstants'
  BY <1>2 DEF IInv, SameInstants, SqlTables
<1>6. RatesUpToDate'
  BY <1>2 DEF IInv, RatesUpToDate, SqlTables
<1> QED BY <1>3, <1>4, <1>5, <1>6 DEF IInv, TypeInv, SameTables

\* The same for journals and entries, which are written together.
LEMMA JournalsWritten ==
    ASSUME IInv, UNCHANGED <<dynamo, puts, now>>,
           NEW C \in SUBSET JournalRow, NEW X \in SUBSET JournalRow,
           NEW D \in SUBSET EntryRow, NEW Z \in SUBSET EntryRow,
           IsFiniteSet(C), IsFiniteSet(X), IsFiniteSet(D), IsFiniteSet(Z),
           crdb' = [crdb EXCEPT !.ledger_journals = C, !.ledger_entries = D],
           sqlite' = [sqlite EXCEPT !.ledger_journals = X, !.ledger_entries = Z],
           rounded' = [rounded EXCEPT !.ledger_journals = {ToJournal[x] : x \in X},
                                      !.ledger_entries = {ToEntry[x] : x \in Z}]
    PROVE  IInv'
<1> DEFINE Y == {ToJournal[x] : x \in X}
           W == {ToEntry[x] : x \in Z}
<1>1. Y \in SUBSET JournalRow /\ W \in SUBSET EntryRow
  BY JournalRows, EntryRows
<1>2. /\ crdb \in SqlTables /\ sqlite \in SqlTables /\ rounded \in SqlTables
      /\ SameRows /\ FiniteTables(crdb) /\ FiniteTables(sqlite)
  BY SMTT(30) DEF IInv, TypeInv, SameTables
<1> HIDE DEF Y, W
<1>3. crdb' \in SqlTables /\ sqlite' \in SqlTables /\ rounded' \in SqlTables
  BY <1>1, <1>2 DEF SqlTables, Y, W
<1>4. SameRows' /\ FiniteTables(crdb)' /\ FiniteTables(sqlite)'
  BY <1>2 DEF SqlTables, SameRows, FiniteTables
<1>5. SameInstants'
  BY <1>2 DEF IInv, SameInstants, SqlTables
<1>6. RatesUpToDate'
  BY <1>2 DEF IInv, RatesUpToDate, SqlTables
<1> QED BY <1>3, <1>4, <1>5, <1>6 DEF IInv, TypeInv, SameTables

\* A write to the rates keeps what is said of the other tables.
LEMMA RatesWritten ==
    ASSUME IInv, UNCHANGED <<dynamo, now>>,
           NEW C \in SUBSET RateRow, NEW X \in SUBSET RateRow, IsFiniteSet(C), IsFiniteSet(X),
           crdb' = [crdb EXCEPT !.fx_rates = C],
           sqlite' = [sqlite EXCEPT !.fx_rates = X],
           rounded' = [rounded EXCEPT !.fx_rates = {ToRate[x] : x \in X}]
    PROVE  TypeInv' /\ SameTables' /\ SameInstants'
<1> DEFINE Y == {ToRate[x] : x \in X}
<1>1. Y \in SUBSET RateRow
  BY RateRows
<1>2. /\ crdb \in SqlTables /\ sqlite \in SqlTables /\ rounded \in SqlTables
      /\ SameRows /\ FiniteTables(crdb) /\ FiniteTables(sqlite)
  BY DEF IInv, TypeInv, SameTables
<1> HIDE DEF Y
<1>3. crdb' \in SqlTables /\ sqlite' \in SqlTables /\ rounded' \in SqlTables
  BY <1>1, <1>2 DEF SqlTables, Y
<1>4. SameRows' /\ FiniteTables(crdb)' /\ FiniteTables(sqlite)'
  BY <1>2 DEF SqlTables, SameRows, FiniteTables
<1>5. SameInstants'
  BY <1>2 DEF IInv, SameInstants, SqlTables
<1> QED BY <1>3, <1>4, <1>5 DEF IInv, TypeInv, SameTables

\* A write to the reservations keeps the invariant, when all three backends write the
\* same rows, SQLite their texts and DynamoDB their items.
LEMMA ReservationsWritten ==
    ASSUME IInv, UNCHANGED <<puts, now>>, NEW C \in SUBSET ReservationRow, IsFiniteSet(C),
           OneRowPerId(C), Dated(C),
           crdb' = [crdb EXCEPT !.reservations = C],
           sqlite' = [sqlite EXCEPT !.reservations = {FormatReservation[x] : x \in C}],
           rounded' = [rounded EXCEPT !.reservations =
                          {ToReservation[x] : x \in {FormatReservation[y] : y \in C}}],
           dynamo' = [dynamo EXCEPT !.reservations = {ReservationItem[x] : x \in C}]
    PROVE  IInv'
<1> DEFINE X == {FormatReservation[x] : x \in C}
           Y == {ToReservation[x] : x \in X}
<1>1. X \in SUBSET ReservationRow /\ Y \in SUBSET ReservationRow
  <2>1. X \in SUBSET ReservationRow
    BY ReservationTexts
  <2> HIDE DEF X
  <2> QED BY <2>1, ReservationRows
<1>2. /\ crdb \in SqlTables /\ sqlite \in SqlTables /\ rounded \in SqlTables
      /\ SameRows /\ FiniteTables(crdb) /\ FiniteTables(sqlite)
  BY DEF IInv, TypeInv, SameTables
<1>3. IsFiniteSet(X)
  BY FiniteImage
<1> HIDE DEF X, Y
<1>4. crdb' \in SqlTables /\ sqlite' \in SqlTables /\ rounded' \in SqlTables
  BY <1>1, <1>2 DEF SqlTables, X, Y
<1>5. SameRows' /\ FiniteTables(crdb)' /\ FiniteTables(sqlite)'
  BY <1>2, <1>3 DEF SqlTables, SameRows, FiniteTables, X
<1>6. SameInstants'
  BY <1>2 DEF IInv, SameInstants, SqlTables
<1>7. RatesUpToDate'
  BY <1>2 DEF IInv, RatesUpToDate, SqlTables
<1> QED BY <1>4, <1>5, <1>6, <1>7 DEF IInv, TypeInv, SameTables

\* A write to the outbox keeps the invariant, when all three backends write the
\* same rows, SQLite their texts and DynamoDB their items.
LEMMA EventsWritten ==
    ASSUME IInv, UNCHANGED <<puts, now>>, NEW C \in SUBSET EventRow, IsFiniteSet(C),
           OneRowPerId(C), Dated(C),
           crdb' = [crdb EXCEPT !.outbox_events = C],
           sqlite' = [sqlite EXCEPT !.outbox_events = {FormatEvent[x] : x \in C}],
           rounded' = [rounded EXCEPT !.outbox_events =
                          {ToEvent[x] : x \in {FormatEvent[y] : y \in C}}],
           dynamo' = [dynamo EXCEPT !.outbox = {EventItem[x] : x \in C}]
    PROVE  IInv'
<1> DEFINE X == {FormatEvent[x] : x \in C}
           Y == {ToEvent[x] : x \in X}
<1>1. X \in SUBSET EventRow /\ Y \in SUBSET EventRow
  <2>1. X \in SUBSET EventRow
    BY EventTexts
  <2> HIDE DEF X
  <2> QED BY <2>1, EventRows
<1>2. /\ crdb \in SqlTables /\ sqlite \in SqlTables /\ rounded \in SqlTables
      /\ SameRows /\ FiniteTables(crdb) /\ FiniteTables(sqlite)
  BY DEF IInv, TypeInv, SameTables
<1>3. IsFiniteSet(X)
  BY FiniteImage
<1> HIDE DEF X, Y
<1>4. crdb' \in SqlTables /\ sqlite' \in SqlTables /\ rounded' \in SqlTables
  BY <1>1, <1>2 DEF SqlTables, X, Y
<1>5. SameRows' /\ FiniteTables(crdb)' /\ FiniteTables(sqlite)'
  BY <1>2, <1>3 DEF SqlTables, SameRows, FiniteTables, X
<1>6. SameInstants'
  BY <1>2 DEF IInv, SameInstants, SqlTables
<1>7. RatesUpToDate'
  BY <1>2 DEF IInv, RatesUpToDate, SqlTables
<1> QED BY <1>4, <1>5, <1>6, <1>7 DEF IInv, TypeInv, SameTables

-----------------------------------------------------------------------------
(* Every action keeps the invariant.                                       *)

\* The clock.
LEMMA TickStep ==
    ASSUME IInv, Tick
    PROVE  IInv'
<1>1. now' \in Instants
  BY BoundsAssumption DEF IInv, TypeInv, Instants, Tick
<1>2. UNCHANGED <<crdb, sqlite, dynamo, rounded, puts>>
  BY DEF Tick
<1>3. TypeInv'
  BY <1>1, <1>2 DEF IInv, TypeInv, FiniteTables
<1>4. SameTables'
  BY <1>2 DEF IInv, SameTables, SameRows, FiniteTables
<1>5. SameInstants'
  BY <1>2 DEF IInv, SameInstants
<1>6. RatesUpToDate'
  BY <1>2 DEF IInv, RatesUpToDate
<1> QED BY <1>3, <1>4, <1>5, <1>6 DEF IInv

\* CreateReservation writes the same reservation everywhere.
LEMMA CreateReservationStep ==
    ASSUME IInv, NEW id \in Ids, NEW a \in Accounts, NEW t \in Filters,
           CreateReservation(id, a, t)
    PROVE  IInv'
<1> DEFINE r == [id |-> id, source_account_id |-> a, status |-> "HELD",
                 expires_at |-> t, created_at |-> now]
           b == [id |-> id, source_account_id |-> a, status |-> "HELD",
                 expires_at |-> Sqlite!sqliteTimeFormat(t),
                 created_at |-> Sqlite!sqliteTimeFormat(now)]
           c == [id |-> id, source_account_id |-> a, status |-> "HELD",
                 expires_at |-> Round(t), created_at |-> Round(now)]
           A == crdb.reservations
           C == A \cup {r}
<1>1. t \in Stamps /\ now \in Stamps /\ now \in Nat /\ id \in Nat
  BY BoundsAssumption DEF IInv, TypeInv, Filters, Instants, Stamps
<1>2. r \in ReservationRow /\ b \in ReservationRow
  BY <1>1, FormatThenParse DEF ReservationRow, Statuses
<1>3. b = FormatReservation[r]
  BY <1>2 DEF FormatReservation
<1>4. c = ToReservation[b]
  BY <1>1, <1>2, FormatThenParse DEF ToReservation, Sqlite!rowToReservation
<1>5. /\ A \in SUBSET ReservationRow /\ IsFiniteSet(A) /\ OneRowPerId(A) /\ Dated(A)
      /\ sqlite.reservations = {FormatReservation[x] : x \in A}
      /\ rounded.reservations = {ToReservation[x] : x \in sqlite.reservations}
      /\ dynamo.reservations = {ReservationItem[x] : x \in A}
  BY DEF IInv, TypeInv, SameTables, SqlTables, FiniteTables, SameRows, SameInstants
<1>6. \A x \in A : x.id # id
  BY DEF CreateReservation, IdsOf
<1>7. C \in SUBSET ReservationRow /\ IsFiniteSet(C) /\ OneRowPerId(C) /\ Dated(C)
  <2>1. IsFiniteSet(C)
    BY <1>5, FS_AddElement
  <2>2. OneRowPerId(C)
    BY <1>5, <1>6 DEF OneRowPerId
  <2>3. Dated(C)
    BY <1>1, <1>5 DEF Dated
  <2> QED BY <1>2, <1>5, <2>1, <2>2, <2>3
<1>8. crdb' = [crdb EXCEPT !.reservations = C]
  BY DEF CreateReservation, Crdb!insertReservation
<1>9. sqlite' = [sqlite EXCEPT !.reservations = {FormatReservation[x] : x \in C}]
  <2>1. sqlite' = [sqlite EXCEPT !.reservations = sqlite.reservations \cup {b}]
    BY DEF CreateReservation, Sqlite!InsertReservation, Sqlite!insertReservation
  <2>2. sqlite.reservations \cup {b} = {FormatReservation[x] : x \in C}
    <3> HIDE DEF r, b, A
    <3> QED BY <1>3, <1>5
  <2> QED BY <2>1, <2>2, Zenon
<1>10. rounded' = [rounded EXCEPT !.reservations =
                      {ToReservation[x] : x \in {FormatReservation[y] : y \in C}}]
  <2>1. rounded' = [rounded EXCEPT !.reservations = rounded.reservations \cup {c}]
    BY DEF CreateReservation, Crdb!insertReservation
  <2>2. rounded.reservations \cup {c}
          = {ToReservation[x] : x \in {FormatReservation[y] : y \in C}}
    <3> HIDE DEF r, b, c, A
    <3> QED BY <1>3, <1>4, <1>5
  <2> QED BY <2>1, <2>2, Zenon
<1>11. dynamo' = [dynamo EXCEPT !.reservations = {ReservationItem[x] : x \in C}]
  <2>1. dynamo' = [dynamo EXCEPT !.reservations =
                      {i \in dynamo.reservations : i.id # r.id} \cup {Dynamo!reservationToItem(r)}]
    BY Zenon DEF CreateReservation, Dynamo!PutReservation
  <2>2. \A x \in ReservationRow : ReservationItem[x].id = x.id
    BY DEF ReservationItem, Dynamo!reservationToItem
  <2>3. ReservationItem[r] = Dynamo!reservationToItem(r)
    BY <1>2 DEF ReservationItem
  <2>4. r.id = id
    OBVIOUS
  <2> HIDE DEF r, A
  <2>5. {i \in dynamo.reservations : i.id # r.id} = dynamo.reservations
    BY <1>5, <1>6, <2>2, <2>4
  <2>6. dynamo.reservations \cup {ReservationItem[r]} = {ReservationItem[x] : x \in C}
    BY <1>5
  <2> QED BY <2>1, <2>3, <2>5, <2>6, Zenon
<1>12. UNCHANGED <<puts, now>>
  BY DEF CreateReservation
<1> HIDE DEF C
<1> QED BY <1>7, <1>8, <1>9, <1>10, <1>11, <1>12, ReservationsWritten

\* Two ways to the same rows.
LEMMA ImageOfImage ==
    ASSUME NEW A, NEW f, NEW u, NEW w, \A x \in A : w[f[x]] = f[u[x]]
    PROVE  {w[y] : y \in {f[x] : x \in A}} = {f[y] : y \in {u[x] : x \in A}}
OBVIOUS

\* UPDATE reservations SET status = s WHERE id = k, row by row.
WithStatus(k, s) ==
    [x \in ReservationRow |-> IF x.id = k THEN [x EXCEPT !.status = s] ELSE x]

\* The statement, in both dialects.
LEMMA StatusStatement ==
    ASSUME NEW k, NEW s, NEW S \in SUBSET ReservationRow
    PROVE  /\ Crdb!Update(S, k, "status", s) = {WithStatus(k, s)[x] : x \in S}
           /\ Sqlite!Update(S, k, "status", s) = {WithStatus(k, s)[x] : x \in S}
BY DEF WithStatus, Crdb!Update, Sqlite!Update

\* The update of a status leaves the times alone.
LEMMA StatusUpdate ==
    ASSUME NEW k, NEW s \in Statuses, NEW x \in ReservationRow
    PROVE  /\ WithStatus(k, s)[x] \in ReservationRow
           /\ WithStatus(k, s)[x].id = x.id
           /\ WithStatus(k, s)[x].created_at = x.created_at
           /\ WithStatus(k, s)[FormatReservation[x]] = FormatReservation[WithStatus(k, s)[x]]
           /\ WithStatus(k, s)[ToReservation[x]] = ToReservation[WithStatus(k, s)[x]]
<1> DEFINE u == WithStatus(k, s)
<1>1. u[x] \in ReservationRow /\ u[x].id = x.id /\ u[x].created_at = x.created_at
  BY DEF WithStatus, ReservationRow
<1>2. u[FormatReservation[x]] = FormatReservation[u[x]]
  <2>1. FormatReservation[x] \in ReservationRow /\ u[x] \in ReservationRow
    BY <1>1, ReservationTexts
  <2> QED BY <2>1 DEF WithStatus, FormatReservation, ReservationRow
<1>3. u[ToReservation[x]] = ToReservation[u[x]]
  <2>1. ToReservation[x] \in ReservationRow /\ u[x] \in ReservationRow
    BY <1>1, ReservationRows
  <2> QED BY <2>1 DEF WithStatus, ToReservation, Sqlite!rowToReservation, ReservationRow
<1> QED BY <1>1, <1>2, <1>3

\* The transitions write the same status everywhere.
LEMMA UpdateReservationStep ==
    ASSUME IInv, NEW r \in crdb.reservations, NEW s \in Statuses, UpdateReservation(r, s)
    PROVE  IInv'
<1> DEFINE u == WithStatus(r.id, s)
           A == crdb.reservations
           C == {u[x] : x \in A}
           X == sqlite.reservations
           Y == rounded.reservations
           D == dynamo.reservations
<1>1. /\ A \in SUBSET ReservationRow /\ IsFiniteSet(A) /\ OneRowPerId(A) /\ Dated(A)
      /\ X \in SUBSET ReservationRow /\ Y \in SUBSET ReservationRow
      /\ X = {FormatReservation[x] : x \in A} /\ Y = {ToReservation[x] : x \in X}
      /\ D = {ReservationItem[x] : x \in A}
  BY DEF IInv, TypeInv, SameTables, SqlTables, FiniteTables, SameRows, SameInstants
<1>2. \A x \in ReservationRow :
         /\ u[x] \in ReservationRow /\ u[x].id = x.id /\ u[x].created_at = x.created_at
         /\ u[FormatReservation[x]] = FormatReservation[u[x]]
         /\ u[ToReservation[x]] = ToReservation[u[x]]
  BY StatusUpdate
<1>3. u[r] = [r EXCEPT !.status = s] /\ r \in ReservationRow /\ u[r].id = r.id
  BY <1>1 DEF WithStatus, ReservationRow
<1>4. \A x \in A : x # r => u[x] = x /\ x.id # r.id
  BY <1>1 DEF WithStatus, OneRowPerId
<1>5. crdb' = [crdb EXCEPT !.reservations = C]
  <2>1. Crdb!Update(A, r.id, "status", s) = C
    BY <1>1, StatusStatement
  <2> QED BY <2>1, Zenon DEF UpdateReservation, Crdb!updateReservationAmounts
<1>6. sqlite' = [sqlite EXCEPT !.reservations = {FormatReservation[x] : x \in C}]
  <2>1. Sqlite!Update(X, r.id, "status", s) = {u[x] : x \in X}
    BY <1>1, StatusStatement
  <2>2. {u[y] : y \in {FormatReservation[x] : x \in A}} = {FormatReservation[x] : x \in C}
    <3> HIDE DEF u, A
    <3> QED BY <1>1, <1>2, ImageOfImage
  <2>3. Sqlite!Update(X, r.id, "status", s) = {FormatReservation[x] : x \in C}
    BY <1>1, <2>1, <2>2, Zenon
  <2> QED BY <2>3, Zenon DEF UpdateReservation, Sqlite!updateReservationAmounts
<1>7. rounded' = [rounded EXCEPT !.reservations =
                     {ToReservation[x] : x \in {FormatReservation[y] : y \in C}}]
  <2>1. Crdb!Update(Y, r.id, "status", s) = {u[x] : x \in Y}
    BY <1>1, StatusStatement
  <2>2. {u[y] : y \in {ToReservation[x] : x \in X}} = {ToReservation[x] : x \in {u[y] : y \in X}}
    <3> HIDE DEF u, X
    <3> QED BY <1>1, <1>2, ImageOfImage
  <2>3. {u[y] : y \in {FormatReservation[x] : x \in A}} = {FormatReservation[x] : x \in C}
    <3> HIDE DEF u, A
    <3> QED BY <1>1, <1>2, ImageOfImage
  <2>4. Crdb!Update(Y, r.id, "status", s)
          = {ToReservation[x] : x \in {FormatReservation[y] : y \in C}}
    BY <1>1, <2>1, <2>2, <2>3, Zenon
  <2> QED BY <2>4, Zenon DEF UpdateReservation, Crdb!updateReservationAmounts
<1>8. dynamo' = [dynamo EXCEPT !.reservations = {ReservationItem[x] : x \in C}]
  <2> DEFINE z == [r EXCEPT !.status = s]
  <2>1. dynamo' = [dynamo EXCEPT !.reservations =
                      {i \in D : i.id # z.id} \cup {Dynamo!reservationToItem(z)}]
    BY Zenon DEF UpdateReservation, Dynamo!PutReservation
  <2>2. \A x \in ReservationRow : ReservationItem[x].id = x.id
    BY DEF ReservationItem, Dynamo!reservationToItem
  <2>3. ReservationItem[z] = Dynamo!reservationToItem(z) /\ z.id = r.id /\ u[r] = z
    BY <1>2, <1>3 DEF ReservationItem
  <2> HIDE DEF z, u, A, D
  <2>4. {i \in D : i.id # z.id} \cup {ReservationItem[z]} = {ReservationItem[x] : x \in C}
    <3>1. \A x \in A : x = r \/ (x # r /\ u[x] = x /\ ReservationItem[x].id # r.id)
      BY <1>1, <1>4, <2>2
    <3>2. ReservationItem[r].id = r.id /\ r \in A
      BY <1>3, <2>2 DEF A
    <3>3. {i \in D : i.id # z.id} = {ReservationItem[x] : x \in A \ {r}}
      BY <1>1, <2>3, <3>1, <3>2
    <3>4. {ReservationItem[x] : x \in C}
            = {ReservationItem[x] : x \in A \ {r}} \cup {ReservationItem[z]}
      BY <2>3, <3>1, <3>2
    <3> QED BY <3>3, <3>4
  <2> QED BY <2>1, <2>3, <2>4, Zenon DEF D
<1>9. C \in SUBSET ReservationRow /\ OneRowPerId(C) /\ Dated(C) /\ IsFiniteSet(C)
  <2> HIDE DEF u, A
  <2>1. IsFiniteSet(C)
    BY <1>1, FiniteImage
  <2> QED BY <1>1, <1>2, <2>1 DEF OneRowPerId, Dated
<1>10. UNCHANGED <<puts, now>>
  BY DEF UpdateReservation
<1> HIDE DEF C
<1> QED BY <1>5, <1>6, <1>7, <1>8, <1>9, <1>10, ReservationsWritten

\* InsertOutbox writes the same event everywhere.
LEMMA InsertOutboxStep ==
    ASSUME IInv, NEW id \in Ids, InsertOutbox(id)
    PROVE  IInv'
<1> DEFINE r == [id |-> id, publish_state |-> "PENDING", attempts |-> 0, created_at |-> now]
           b == [id |-> id, publish_state |-> "PENDING", attempts |-> 0,
                 created_at |-> Sqlite!sqliteTimeFormat(now)]
           c == [id |-> id, publish_state |-> "PENDING", attempts |-> 0, created_at |-> Round(now)]
           i == [id |-> id, created_at |-> now, gsi1 |-> TRUE, attempts |-> 0]
           A == crdb.outbox_events
           C == A \cup {r}
<1>1. now \in Stamps /\ now \in Nat /\ id \in Nat
  BY BoundsAssumption DEF IInv, TypeInv, Instants, Stamps
<1>2. r \in EventRow /\ b \in EventRow
  BY <1>1, FormatThenParse DEF EventRow
<1>3. b = FormatEvent[r]
  BY <1>2 DEF FormatEvent
<1>4. c = ToEvent[b]
  BY <1>1, <1>2, FormatThenParse DEF ToEvent
<1>5. /\ A \in SUBSET EventRow /\ IsFiniteSet(A) /\ OneRowPerId(A) /\ Dated(A)
      /\ sqlite.outbox_events = {FormatEvent[x] : x \in A}
      /\ rounded.outbox_events = {ToEvent[x] : x \in sqlite.outbox_events}
      /\ dynamo.outbox = {EventItem[x] : x \in A}
  BY DEF IInv, TypeInv, SameTables, SqlTables, FiniteTables, SameRows, SameInstants
<1>6. \A x \in A : x.id # id
  BY DEF InsertOutbox, IdsOf
<1>7. C \in SUBSET EventRow /\ IsFiniteSet(C) /\ OneRowPerId(C) /\ Dated(C)
  <2>1. IsFiniteSet(C)
    BY <1>5, FS_AddElement
  <2>2. OneRowPerId(C)
    BY <1>5, <1>6 DEF OneRowPerId
  <2>3. Dated(C)
    BY <1>1, <1>5 DEF Dated
  <2> QED BY <1>2, <1>5, <2>1, <2>2, <2>3
<1>8. crdb' = [crdb EXCEPT !.outbox_events = C]
  BY DEF InsertOutbox, Crdb!insertOutbox
<1>9. sqlite' = [sqlite EXCEPT !.outbox_events = {FormatEvent[x] : x \in C}]
  <2>1. sqlite' = [sqlite EXCEPT !.outbox_events = sqlite.outbox_events \cup {b}]
    BY DEF InsertOutbox, Sqlite!insertOutbox
  <2>2. sqlite.outbox_events \cup {b} = {FormatEvent[x] : x \in C}
    <3> HIDE DEF r, b, A
    <3> QED BY <1>3, <1>5
  <2> QED BY <2>1, <2>2, Zenon
<1>10. rounded' = [rounded EXCEPT !.outbox_events =
                      {ToEvent[x] : x \in {FormatEvent[y] : y \in C}}]
  <2>1. rounded' = [rounded EXCEPT !.outbox_events = rounded.outbox_events \cup {c}]
    BY DEF InsertOutbox, Crdb!insertOutbox
  <2>2. rounded.outbox_events \cup {c} = {ToEvent[x] : x \in {FormatEvent[y] : y \in C}}
    <3> HIDE DEF r, b, c, A
    <3> QED BY <1>3, <1>4, <1>5
  <2> QED BY <2>1, <2>2, Zenon
<1>11. dynamo' = [dynamo EXCEPT !.outbox = {EventItem[x] : x \in C}]
  <2>1. dynamo' = [dynamo EXCEPT !.outbox = dynamo.outbox \cup {i}]
    BY DEF InsertOutbox, Dynamo!InsertOutbox, Dynamo!outboxToItem
  <2>2. EventItem[r] = i
    BY <1>2, Zenon DEF EventItem
  <2> HIDE DEF r, A, i
  <2>3. dynamo.outbox \cup {EventItem[r]} = {EventItem[x] : x \in C}
    BY <1>5
  <2> QED BY <2>1, <2>2, <2>3, Zenon
<1>12. UNCHANGED <<puts, now>>
  BY DEF InsertOutbox
<1> HIDE DEF C
<1> QED BY <1>7, <1>8, <1>9, <1>10, <1>11, <1>12, EventsWritten

\* An update u of events, row by row, that leaves ids and times alone; w does to
\* an item what u does to the row.
UpdatesEvents(u, w) ==
    \A x \in EventRow : /\ u[x] \in EventRow /\ u[x].id = x.id
                        /\ u[x].created_at = x.created_at
                        /\ u[FormatEvent[x]] = FormatEvent[u[x]]
                        /\ u[ToEvent[x]] = ToEvent[u[x]]
                        /\ w[EventItem[x]] = EventItem[u[x]]

\* Such an update keeps the invariant.
LEMMA EventsUpdated ==
    ASSUME IInv, UNCHANGED <<puts, now>>, NEW u, NEW w, UpdatesEvents(u, w),
           crdb' = [crdb EXCEPT !.outbox_events = {u[x] : x \in crdb.outbox_events}],
           sqlite' = [sqlite EXCEPT !.outbox_events = {u[x] : x \in sqlite.outbox_events}],
           rounded' = [rounded EXCEPT !.outbox_events = {u[x] : x \in rounded.outbox_events}],
           dynamo' = [dynamo EXCEPT !.outbox = {w[x] : x \in dynamo.outbox}]
    PROVE  IInv'
<1> DEFINE A == crdb.outbox_events
           C == {u[x] : x \in A}
           X == sqlite.outbox_events
<1>1. /\ A \in SUBSET EventRow /\ IsFiniteSet(A) /\ OneRowPerId(A) /\ Dated(A)
      /\ X \in SUBSET EventRow /\ X = {FormatEvent[x] : x \in A}
      /\ rounded.outbox_events = {ToEvent[x] : x \in X}
      /\ dynamo.outbox = {EventItem[x] : x \in A}
  BY DEF IInv, TypeInv, SameTables, SqlTables, FiniteTables, SameRows, SameInstants
<1>2. {u[y] : y \in X} = {FormatEvent[x] : x \in C}
  <2> HIDE DEF A, X
  <2> QED BY <1>1, ImageOfImage DEF UpdatesEvents
<1>3. {u[y] : y \in rounded.outbox_events} = {ToEvent[x] : x \in {u[y] : y \in X}}
  <2> HIDE DEF A, X
  <2> QED BY <1>1, ImageOfImage DEF UpdatesEvents
<1>4. {w[y] : y \in dynamo.outbox} = {EventItem[x] : x \in C}
  <2> HIDE DEF A, X
  <2> QED BY <1>1, ImageOfImage DEF UpdatesEvents
<1>5. /\ crdb' = [crdb EXCEPT !.outbox_events = C]
      /\ sqlite' = [sqlite EXCEPT !.outbox_events = {FormatEvent[x] : x \in C}]
      /\ rounded' = [rounded EXCEPT !.outbox_events =
                        {ToEvent[x] : x \in {FormatEvent[y] : y \in C}}]
      /\ dynamo' = [dynamo EXCEPT !.outbox = {EventItem[x] : x \in C}]
  BY <1>2, <1>3, <1>4, Zenon
<1>6. C \in SUBSET EventRow /\ OneRowPerId(C) /\ Dated(C) /\ IsFiniteSet(C)
  <2> HIDE DEF A
  <2>1. IsFiniteSet(C)
    BY <1>1, FiniteImage
  <2> QED BY <1>1, <2>1 DEF OneRowPerId, Dated, UpdatesEvents
<1> HIDE DEF C
<1> QED BY <1>5, <1>6, EventsWritten

\* MarkOutboxPublished: the state in SQL, the index key in DynamoDB.
LEMMA MarkOutboxPublishedStep ==
    ASSUME IInv, NEW e \in crdb.outbox_events, MarkOutboxPublished(e)
    PROVE  IInv'
<1> DEFINE u == [x \in EventRow |->
                    IF x.id = e.id THEN [x EXCEPT !.publish_state = "PUBLISHED"] ELSE x]
           I == {EventItem[x] : x \in EventRow}
           w == [i \in I |-> IF i.id = e.id THEN [i EXCEPT !.gsi1 = FALSE] ELSE i]
<1>1. /\ crdb.outbox_events \subseteq EventRow /\ sqlite.outbox_events \subseteq EventRow
      /\ rounded.outbox_events \subseteq EventRow /\ dynamo.outbox \subseteq I
  BY DEF IInv, TypeInv, SameTables, SqlTables, SameInstants
<1>2. \A x \in EventRow : u[x] \in EventRow /\ u[x].id = x.id /\ u[x].created_at = x.created_at
  BY DEF EventRow
<1>3. \A x \in EventRow : u[FormatEvent[x]] = FormatEvent[u[x]]
  BY <1>2, EventTexts, ZenonT(60) DEF FormatEvent, EventRow
<1>4. ASSUME NEW x \in EventRow PROVE u[ToEvent[x]] = ToEvent[u[x]]
  <2>1. ToEvent[x] \in EventRow /\ u[x] \in EventRow
    BY <1>2, EventRows
  <2> QED BY <2>1 DEF ToEvent, EventRow
<1>5. ASSUME NEW x \in EventRow PROVE w[EventItem[x]] = EventItem[u[x]]
  <2>1. EventItem[x] \in I /\ u[x] \in EventRow /\ EventItem[x].id = x.id
    BY <1>2 DEF EventItem
  <2>2. CASE x.id # e.id
    BY <2>1, <2>2
  <2>3. CASE x.id = e.id
    <3>1. w[EventItem[x]] = [EventItem[x] EXCEPT !.gsi1 = FALSE]
      BY <2>1, <2>3
    <3>2. u[x] = [x EXCEPT !.publish_state = "PUBLISHED"]
      BY <2>3
    <3>3. EventItem[u[x]] = [id |-> x.id, created_at |-> x.created_at, gsi1 |-> FALSE,
                             attempts |-> x.attempts]
      BY <2>1, <3>2 DEF EventItem, EventRow
    <3> QED BY <3>1, <3>3 DEF EventItem
  <2> QED BY <2>2, <2>3
<1>6. crdb' = [crdb EXCEPT !.outbox_events = {u[x] : x \in crdb.outbox_events}]
  BY <1>1 DEF MarkOutboxPublished, Crdb!markOutboxPublished, Crdb!Update
<1>7. sqlite' = [sqlite EXCEPT !.outbox_events = {u[x] : x \in sqlite.outbox_events}]
  BY <1>1 DEF MarkOutboxPublished, Sqlite!markOutboxPublished, Sqlite!Update
<1>8. rounded' = [rounded EXCEPT !.outbox_events = {u[x] : x \in rounded.outbox_events}]
  BY <1>1 DEF MarkOutboxPublished, Crdb!markOutboxPublished, Crdb!Update
<1>9. dynamo' = [dynamo EXCEPT !.outbox = {w[x] : x \in dynamo.outbox}]
  BY <1>1 DEF MarkOutboxPublished, Dynamo!MarkOutboxPublished, Dynamo!Update
<1>10. UNCHANGED <<puts, now>>
  BY DEF MarkOutboxPublished
<1> HIDE DEF u, w
<1>11. UpdatesEvents(u, w)
  BY <1>2, <1>3, <1>4, <1>5 DEF UpdatesEvents
<1> QED BY <1>6, <1>7, <1>8, <1>9, <1>10, <1>11, EventsUpdated, Zenon

\* IncrementOutboxAttempts: a failed publish is counted everywhere.
LEMMA IncrementOutboxAttemptsStep ==
    ASSUME IInv, NEW e \in crdb.outbox_events, IncrementOutboxAttempts(e)
    PROVE  IInv'
<1> DEFINE u == [x \in EventRow |->
                    IF x.id = e.id THEN [x EXCEPT !.attempts = x.attempts + 1] ELSE x]
           I == {EventItem[x] : x \in EventRow}
           w == [i \in I |-> IF i.id = e.id THEN [i EXCEPT !.attempts = i.attempts + 1] ELSE i]
<1>1. /\ crdb.outbox_events \subseteq EventRow /\ sqlite.outbox_events \subseteq EventRow
      /\ rounded.outbox_events \subseteq EventRow /\ dynamo.outbox \subseteq I
  BY DEF IInv, TypeInv, SameTables, SqlTables, SameInstants
<1>2. \A x \in EventRow : u[x] \in EventRow /\ u[x].id = x.id /\ u[x].created_at = x.created_at
  BY DEF EventRow
<1>3. \A x \in EventRow : u[FormatEvent[x]] = FormatEvent[u[x]]
  BY <1>2, EventTexts, ZenonT(60) DEF FormatEvent, EventRow
<1>4. ASSUME NEW x \in EventRow PROVE u[ToEvent[x]] = ToEvent[u[x]]
  <2>1. ToEvent[x] \in EventRow /\ u[x] \in EventRow
    BY <1>2, EventRows
  <2> QED BY <2>1 DEF ToEvent, EventRow
<1>5. ASSUME NEW x \in EventRow PROVE w[EventItem[x]] = EventItem[u[x]]
  <2>1. EventItem[x] \in I /\ u[x] \in EventRow /\ EventItem[x].id = x.id
    BY <1>2 DEF EventItem
  <2>2. CASE x.id # e.id
    BY <2>1, <2>2
  <2>3. CASE x.id = e.id
    <3>1. /\ w[EventItem[x]] = [EventItem[x] EXCEPT !.attempts = EventItem[x].attempts + 1]
          /\ EventItem[x].attempts = x.attempts
      BY <2>1, <2>3 DEF EventItem
    <3>2. u[x] = [x EXCEPT !.attempts = x.attempts + 1]
      BY <2>3
    <3>3. /\ u[x].id = x.id /\ u[x].created_at = x.created_at
          /\ u[x].publish_state = x.publish_state /\ u[x].attempts = x.attempts + 1
      BY <3>2 DEF EventRow
    <3> DEFINE p == x.publish_state = "PENDING"
    <3>4. /\ EventItem[x] = [id |-> x.id, created_at |-> x.created_at, gsi1 |-> p,
                             attempts |-> x.attempts]
          /\ EventItem[u[x]] = [id |-> x.id, created_at |-> x.created_at, gsi1 |-> p,
                                attempts |-> x.attempts + 1]
      BY <2>1, <3>3, Zenon DEF EventItem
    <3> HIDE DEF p
    <3> QED BY <3>1, <3>4
  <2> QED BY <2>2, <2>3
<1>6. crdb' = [crdb EXCEPT !.outbox_events = {u[x] : x \in crdb.outbox_events}]
  BY <1>1 DEF IncrementOutboxAttempts, Crdb!incrementOutboxAttempts
<1>7. sqlite' = [sqlite EXCEPT !.outbox_events = {u[x] : x \in sqlite.outbox_events}]
  BY <1>1 DEF IncrementOutboxAttempts, Sqlite!incrementOutboxAttempts
<1>8. rounded' = [rounded EXCEPT !.outbox_events = {u[x] : x \in rounded.outbox_events}]
  BY <1>1 DEF IncrementOutboxAttempts, Crdb!incrementOutboxAttempts
<1>9. dynamo' = [dynamo EXCEPT !.outbox = {w[x] : x \in dynamo.outbox}]
  BY <1>1 DEF IncrementOutboxAttempts, Dynamo!IncrementOutboxAttempts
<1>10. UNCHANGED <<puts, now>>
  BY DEF IncrementOutboxAttempts
<1> HIDE DEF u, w
<1>11. UpdatesEvents(u, w)
  BY <1>2, <1>3, <1>4, <1>5 DEF UpdatesEvents
<1> QED BY <1>6, <1>7, <1>8, <1>9, <1>10, <1>11, EventsUpdated, Zenon

\* InsertSnapshot writes the same snapshot to both SQL databases.
LEMMA InsertSnapshotStep ==
    ASSUME IInv, NEW id \in Ids, NEW a \in AccountRows, InsertSnapshot(id, a)
    PROVE  IInv'
<1> DEFINE T(x) == [id |-> id, tenant_id |-> a.tenant_id, account_id |-> a.id, snapshot_at |-> x]
           r == T(now)
           b == T(Sqlite!sqliteTimeFormat(now))
           c == T(Round(now))
           C == crdb.balance_snapshots \cup {r}
           X == sqlite.balance_snapshots \cup {b}
<1>1. now \in Stamps /\ id \in Nat
  BY BoundsAssumption DEF IInv, TypeInv, Instants, Stamps
<1>2. r \in SnapshotRow /\ b \in SnapshotRow
  BY <1>1, FormatThenParse DEF SnapshotRow, Accounts
<1>3. c = ToSnapshot[b]
  BY <1>1, <1>2, FormatThenParse DEF ToSnapshot, Sqlite!rowToSnapshot
<1>4. /\ crdb.balance_snapshots \in SUBSET SnapshotRow /\ IsFiniteSet(crdb.balance_snapshots)
      /\ sqlite.balance_snapshots \in SUBSET SnapshotRow /\ IsFiniteSet(sqlite.balance_snapshots)
      /\ rounded.balance_snapshots = {ToSnapshot[x] : x \in sqlite.balance_snapshots}
  BY DEF IInv, TypeInv, SameTables, SqlTables, FiniteTables, SameRows
<1>5. /\ crdb' = [crdb EXCEPT !.balance_snapshots = C]
      /\ sqlite' = [sqlite EXCEPT !.balance_snapshots = X]
      /\ rounded' = [rounded EXCEPT !.balance_snapshots = rounded.balance_snapshots \cup {c}]
      /\ UNCHANGED <<dynamo, puts, now>>
  <2>1. /\ [r EXCEPT !.snapshot_at = Sqlite!sqliteTimeFormat(@)] = b
        /\ [r EXCEPT !.snapshot_at = Round(@)] = c
    OBVIOUS
  <2>2. /\ crdb' = Crdb!insertSnapshot(crdb, r)
        /\ rounded' = Crdb!insertSnapshot(rounded, [r EXCEPT !.snapshot_at = Round(@)])
        /\ sqlite' = Sqlite!InsertSnapshot(sqlite, r)
        /\ UNCHANGED <<dynamo, puts, now>>
    BY Zenon DEF InsertSnapshot
  <2> HIDE DEF r, b, c
  <2> QED BY <2>1, <2>2, Zenon
          DEF Crdb!insertSnapshot, Sqlite!InsertSnapshot, Sqlite!insertSnapshot
<1> HIDE DEF r, b, c
<1>6. rounded.balance_snapshots \cup {c} = {ToSnapshot[x] : x \in X}
  BY <1>3, <1>4
<1>7. C \in SUBSET SnapshotRow /\ X \in SUBSET SnapshotRow /\ IsFiniteSet(C) /\ IsFiniteSet(X)
  BY <1>2, <1>4, FS_AddElement
<1> HIDE DEF C, X
<1> QED BY <1>5, <1>6, <1>7, SnapshotsWritten

\* IngestRecord writes the same record to both, or to neither.
LEMMA IngestRecordStep ==
    ASSUME IInv, NEW id \in Ids, NEW ref \in {"r1", "r2"}, NEW t \in Instants,
           IngestRecord(id, ref, t)
    PROVE  IInv'
<1> DEFINE T(x) == [id |-> id, external_ref |-> ref, occurred_at |-> x,
                    match_status |-> "UNMATCHED"]
           r == T(t)
           b == T(Sqlite!sqliteTimeFormat(t))
           c == T(Round(t))
           Known(S) == \E x \in S : x.external_ref = ref
           A == crdb.external_records
           C == IF Known(A) THEN A ELSE A \cup {r}
           D == sqlite.external_records
           X == IF Known(D) THEN D ELSE D \cup {b}
           E == rounded.external_records
           Y == IF Known(E) THEN E ELSE E \cup {c}
<1>1. t \in Stamps /\ id \in Nat
  BY BoundsAssumption DEF Instants, Stamps
<1>2. r \in RecordRow /\ b \in RecordRow
  BY <1>1, FormatThenParse DEF RecordRow
<1>3. c = ToRecord[b]
  BY <1>1, <1>2, FormatThenParse DEF ToRecord, Sqlite!rowToExternalRecord
<1>4. /\ A \in SUBSET RecordRow /\ IsFiniteSet(A)
      /\ D \in SUBSET RecordRow /\ IsFiniteSet(D)
      /\ E = {ToRecord[x] : x \in D}
  BY DEF IInv, TypeInv, SameTables, SqlTables, FiniteTables, SameRows
<1>5. crdb' = [crdb EXCEPT !.external_records = C]
  BY DEF IngestRecord, Crdb!insertExternalRecord
<1>6. sqlite' = [sqlite EXCEPT !.external_records = X]
  BY DEF IngestRecord, Sqlite!InsertExternalRecord, Sqlite!insertExternalRecord
<1>7. rounded' = [rounded EXCEPT !.external_records = Y]
  BY DEF IngestRecord, Crdb!insertExternalRecord
<1>8. UNCHANGED <<dynamo, puts, now>>
  BY DEF IngestRecord
<1> HIDE DEF r, b, c, A, D, E
<1>9. Y = {ToRecord[x] : x \in X}
  <2>1. Known(D) <=> Known(E)
    BY <1>4, RecordRows
  <2> QED BY <1>3, <1>4, <2>1
<1>10. C \in SUBSET RecordRow /\ X \in SUBSET RecordRow /\ IsFiniteSet(C) /\ IsFiniteSet(X)
  BY <1>2, <1>4, FS_AddElement
<1> HIDE DEF C, X, Y
<1> QED BY <1>5, <1>6, <1>7, <1>8, <1>9, <1>10, RecordsWritten

\* MatchRecord updates the same records in both.
LEMMA MatchRecordStep ==
    ASSUME IInv, NEW r \in crdb.external_records, MatchRecord(r)
    PROVE  IInv'
<1> DEFINE u == [x \in RecordRow |->
                    IF x.id = r.id THEN [x EXCEPT !.match_status = "MATCHED"] ELSE x]
           A == crdb.external_records
           D == sqlite.external_records
           E == rounded.external_records
           C == {u[x] : x \in A}
           X == {u[x] : x \in D}
<1>1. /\ A \in SUBSET RecordRow /\ IsFiniteSet(A)
      /\ D \in SUBSET RecordRow /\ IsFiniteSet(D)
      /\ E \in SUBSET RecordRow /\ E = {ToRecord[x] : x \in D}
  BY DEF IInv, TypeInv, SameTables, SqlTables, FiniteTables, SameRows
<1>2. \A x \in RecordRow : u[x] \in RecordRow
  BY DEF RecordRow
<1>3. ASSUME NEW x \in RecordRow PROVE u[ToRecord[x]] = ToRecord[u[x]]
  <2>1. ToRecord[x] \in RecordRow /\ u[x] \in RecordRow
    BY <1>2, RecordRows
  <2> QED BY <2>1 DEF ToRecord, Sqlite!rowToExternalRecord, RecordRow
<1>4. crdb' = [crdb EXCEPT !.external_records = C]
  BY <1>1 DEF MatchRecord, Crdb!updateExternalRecordMatch, Crdb!Update
<1>5. sqlite' = [sqlite EXCEPT !.external_records = X]
  BY <1>1 DEF MatchRecord, Sqlite!updateExternalRecordMatch, Sqlite!Update
<1>6. rounded' = [rounded EXCEPT !.external_records = {u[x] : x \in E}]
  BY <1>1 DEF MatchRecord, Crdb!updateExternalRecordMatch, Crdb!Update
<1>7. UNCHANGED <<dynamo, puts, now>>
  BY DEF MatchRecord
<1> HIDE DEF u, A, D, E
<1>8. {u[x] : x \in E} = {ToRecord[x] : x \in X}
  BY <1>1, <1>3, ImageOfImage
<1>9. C \in SUBSET RecordRow /\ X \in SUBSET RecordRow
  BY <1>1, <1>2
<1>10. IsFiniteSet(C) /\ IsFiniteSet(X)
  BY <1>1, FiniteImage
<1> HIDE DEF C, X
<1> QED BY <1>4, <1>5, <1>6, <1>7, <1>8, <1>9, <1>10, RecordsWritten

\* OpenDiscrepancy writes the same discrepancy to both.
LEMMA OpenDiscrepancyStep ==
    ASSUME IInv, NEW id \in Ids, NEW k \in {"b1", "b2"}, OpenDiscrepancy(id, k)
    PROVE  IInv'
<1> DEFINE T(x) == [id |-> id, batch_id |-> k, status |-> "OPEN", created_at |-> x]
           r == T(now)
           b == T(Sqlite!sqliteTimeFormat(now))
           c == T(Round(now))
           C == crdb.discrepancies \cup {r}
           X == sqlite.discrepancies \cup {b}
<1>1. now \in Stamps /\ id \in Nat
  BY BoundsAssumption DEF IInv, TypeInv, Instants, Stamps
<1>2. r \in DiscrepancyRow /\ b \in DiscrepancyRow
  BY <1>1, FormatThenParse DEF DiscrepancyRow
<1>3. c = ToDiscrepancy[b]
  BY <1>1, <1>2, FormatThenParse DEF ToDiscrepancy, Sqlite!rowToDiscrepancy
<1>4. /\ crdb.discrepancies \in SUBSET DiscrepancyRow /\ IsFiniteSet(crdb.discrepancies)
      /\ sqlite.discrepancies \in SUBSET DiscrepancyRow /\ IsFiniteSet(sqlite.discrepancies)
      /\ rounded.discrepancies = {ToDiscrepancy[x] : x \in sqlite.discrepancies}
  BY DEF IInv, TypeInv, SameTables, SqlTables, FiniteTables, SameRows
<1>5. /\ crdb' = [crdb EXCEPT !.discrepancies = C]
      /\ sqlite' = [sqlite EXCEPT !.discrepancies = X]
      /\ rounded' = [rounded EXCEPT !.discrepancies = rounded.discrepancies \cup {c}]
      /\ UNCHANGED <<dynamo, puts, now>>
  BY DEF OpenDiscrepancy, Crdb!insertDiscrepancy, Sqlite!insertDiscrepancy
<1> HIDE DEF r, b, c
<1>6. rounded.discrepancies \cup {c} = {ToDiscrepancy[x] : x \in X}
  BY <1>3, <1>4
<1>7. /\ C \in SUBSET DiscrepancyRow /\ X \in SUBSET DiscrepancyRow
      /\ IsFiniteSet(C) /\ IsFiniteSet(X)
  BY <1>2, <1>4, FS_AddElement
<1> HIDE DEF C, X
<1> QED BY <1>5, <1>6, <1>7, DiscrepanciesWritten

\* ResolveDiscrepancy updates the same discrepancies in both.
LEMMA ResolveDiscrepancyStep ==
    ASSUME IInv, NEW r \in crdb.discrepancies, ResolveDiscrepancy(r)
    PROVE  IInv'
<1> DEFINE u == [x \in DiscrepancyRow |->
                    IF x.id = r.id THEN [x EXCEPT !.status = "RESOLVED"] ELSE x]
           A == crdb.discrepancies
           D == sqlite.discrepancies
           E == rounded.discrepancies
           C == {u[x] : x \in A}
           X == {u[x] : x \in D}
<1>1. /\ A \in SUBSET DiscrepancyRow /\ IsFiniteSet(A)
      /\ D \in SUBSET DiscrepancyRow /\ IsFiniteSet(D)
      /\ E \in SUBSET DiscrepancyRow /\ E = {ToDiscrepancy[x] : x \in D}
  BY DEF IInv, TypeInv, SameTables, SqlTables, FiniteTables, SameRows
<1>2. \A x \in DiscrepancyRow : u[x] \in DiscrepancyRow
  BY DEF DiscrepancyRow
<1>3. ASSUME NEW x \in DiscrepancyRow PROVE u[ToDiscrepancy[x]] = ToDiscrepancy[u[x]]
  <2>1. ToDiscrepancy[x] \in DiscrepancyRow /\ u[x] \in DiscrepancyRow
    BY <1>2, DiscrepancyRows
  <2> QED BY <2>1 DEF ToDiscrepancy, Sqlite!rowToDiscrepancy, DiscrepancyRow
<1>4. crdb' = [crdb EXCEPT !.discrepancies = C]
  BY <1>1 DEF ResolveDiscrepancy, Crdb!resolveDiscrepancyRow, Crdb!Update
<1>5. sqlite' = [sqlite EXCEPT !.discrepancies = X]
  BY <1>1 DEF ResolveDiscrepancy, Sqlite!resolveDiscrepancyRow, Sqlite!Update
<1>6. rounded' = [rounded EXCEPT !.discrepancies = {u[x] : x \in E}]
  BY <1>1 DEF ResolveDiscrepancy, Crdb!resolveDiscrepancyRow, Crdb!Update
<1>7. UNCHANGED <<dynamo, puts, now>>
  BY DEF ResolveDiscrepancy
<1> HIDE DEF u, A, D, E
<1>8. {u[x] : x \in E} = {ToDiscrepancy[x] : x \in X}
  BY <1>1, <1>3, ImageOfImage
<1>9. C \in SUBSET DiscrepancyRow /\ X \in SUBSET DiscrepancyRow
  BY <1>1, <1>2
<1>10. IsFiniteSet(C) /\ IsFiniteSet(X)
  BY <1>1, FiniteImage
<1> HIDE DEF C, X
<1> QED BY <1>4, <1>5, <1>6, <1>7, <1>8, <1>9, <1>10, DiscrepanciesWritten

\* PostJournal writes the same journal and its two entries to both.
LEMMA PostJournalStep ==
    ASSUME IInv, NEW id \in Ids, NEW a \in Accounts, NEW b \in Accounts, NEW n \in 1 .. 2,
           PostJournal(id, a, b, n)
    PROVE  IInv'
<1> DEFINE J(t) == [id |-> id, source_service |-> "bank", created_at |-> t]
           D(t) == [id |-> 10 * id + 1, journal_id |-> id, account_id |-> a,
                    direction |-> "DEBIT", amount |-> n, created_at |-> t]
           F(t) == [id |-> 10 * id + 2, journal_id |-> id, account_id |-> b,
                    direction |-> "CREDIT", amount |-> n, created_at |-> t]
           s == Sqlite!sqliteTimeFormat(now)
           C == crdb.ledger_journals \cup {J(now)}
           X == sqlite.ledger_journals \cup {J(s)}
           Y == rounded.ledger_journals \cup {J(Round(now))}
           K == (crdb.ledger_entries \cup {D(now)}) \cup {F(now)}
           Z == (sqlite.ledger_entries \cup {D(s)}) \cup {F(s)}
           W == (rounded.ledger_entries \cup {D(Round(now))}) \cup {F(Round(now))}
<1>1. /\ now \in Stamps /\ s \in Stamps /\ Round(now) \in Stamps
      /\ Sqlite!parseTime(s) = Round(now)
      /\ id \in Nat /\ 10 * id + 1 \in Nat /\ 10 * id + 2 \in Nat
  BY BoundsAssumption, FormatThenParse DEF IInv, TypeInv, Instants, Stamps
<1>2. \A t \in Stamps : J(t) \in JournalRow /\ D(t) \in EntryRow /\ F(t) \in EntryRow
  BY <1>1 DEF JournalRow, EntryRow
<1>3. /\ J(Round(now)) = ToJournal[J(s)]
      /\ D(Round(now)) = ToEntry[D(s)] /\ F(Round(now)) = ToEntry[F(s)]
  <2>1. J(s) \in JournalRow /\ D(s) \in EntryRow /\ F(s) \in EntryRow
    BY <1>1, <1>2
  <2> QED BY <1>1, <2>1 DEF ToJournal, ToEntry, Sqlite!rowToJournal, Sqlite!activityRow
<1>4. /\ crdb \in SqlTables /\ sqlite \in SqlTables /\ rounded \in SqlTables
      /\ FiniteTables(crdb) /\ FiniteTables(sqlite) /\ SameRows
  BY DEF IInv, TypeInv, SameTables
<1>5. /\ crdb' = [crdb EXCEPT !.ledger_journals = C, !.ledger_entries = K]
      /\ UNCHANGED <<dynamo, puts, now>>
  BY <1>4 DEF PostJournal, Crdb!insertEntry, Crdb!insertJournal, SqlTables
<1>6. sqlite' = [sqlite EXCEPT !.ledger_journals = X, !.ledger_entries = Z]
  BY <1>4, ZenonT(60) DEF PostJournal, Sqlite!insertEntry, Sqlite!insertJournal, SqlTables
<1>7. rounded' = [rounded EXCEPT !.ledger_journals = Y, !.ledger_entries = W]
  BY <1>4 DEF PostJournal, Crdb!insertEntry, Crdb!insertJournal, SqlTables
<1> DEFINE d == D(s)
           f == F(s)
           j == J(s)
<1>8. /\ j \in JournalRow /\ d \in EntryRow /\ f \in EntryRow
      /\ J(now) \in JournalRow /\ D(now) \in EntryRow /\ F(now) \in EntryRow
  BY <1>1, <1>2
<1>9. /\ crdb.ledger_journals \in SUBSET JournalRow /\ crdb.ledger_entries \in SUBSET EntryRow
      /\ sqlite.ledger_journals \in SUBSET JournalRow /\ sqlite.ledger_entries \in SUBSET EntryRow
      /\ IsFiniteSet(crdb.ledger_journals) /\ IsFiniteSet(crdb.ledger_entries)
      /\ IsFiniteSet(sqlite.ledger_journals) /\ IsFiniteSet(sqlite.ledger_entries)
      /\ rounded.ledger_journals = {ToJournal[x] : x \in sqlite.ledger_journals}
      /\ rounded.ledger_entries = {ToEntry[x] : x \in sqlite.ledger_entries}
  BY <1>4 DEF SqlTables, FiniteTables, SameRows
<1> HIDE DEF J, D, F
<1>10. Y = {ToJournal[x] : x \in X} /\ W = {ToEntry[x] : x \in Z}
  BY <1>3, <1>9
<1>11. /\ C \in SUBSET JournalRow /\ X \in SUBSET JournalRow
       /\ K \in SUBSET EntryRow /\ Z \in SUBSET EntryRow
  BY <1>8, <1>9
<1>12. IsFiniteSet(C) /\ IsFiniteSet(X) /\ IsFiniteSet(K) /\ IsFiniteSet(Z)
  <2>1. /\ IsFiniteSet(crdb.ledger_entries \cup {D(now)})
        /\ IsFiniteSet(sqlite.ledger_entries \cup {D(s)})
    BY <1>9, FS_AddElement
  <2> QED BY <1>9, <2>1, FS_AddElement
<1> HIDE DEF C, X, K, Z, Y, W
<1> QED BY <1>5, <1>6, <1>7, <1>10, <1>11, <1>12, JournalsWritten

-----------------------------------------------------------------------------
(* FX rates: the two forms of the upsert, and what is up to date after it. *)

SameKey(x, r) == x.effective_at = r.effective_at /\ x.source = r.source

\* What an upsert of r makes of the rates A: the row with r's key has r's rate,
\* and the others are as they were.
Upserted(A, r, C) ==
    /\ \A x \in C : \/ x \in A /\ ~ SameKey(x, r)
                    \/ SameKey(x, r) /\ x.rate = r.rate
    /\ \A x \in A : ~ SameKey(x, r) => x \in C
    /\ \E x \in C : SameKey(x, r)

\* ON CONFLICT DO UPDATE, in CockroachDB's wording and in SQLite's.
CrdbUpsert(A, r) ==
    LET same == {x \in A : /\ x.base = r.base
                           /\ x.effective_at = r.effective_at
                           /\ x.source = r.source}
    IN  IF same = {} THEN A \cup {r} ELSE (A \ same) \cup {[x EXCEPT !.rate = r.rate] : x \in same}
SqliteUpsert(A, r) ==
    LET Same(x) == x.base = r.base /\ x.effective_at = r.effective_at /\ x.source = r.source
    IN  IF \E x \in A : Same(x)
        THEN {IF Same(x) THEN [x EXCEPT !.rate = r.rate] ELSE x : x \in A}
        ELSE A \cup {r}

\* The two wordings come to the same.
LEMMA OneUpsert ==
    ASSUME NEW A \in SUBSET RateRow, NEW r \in RateRow
    PROVE  CrdbUpsert(A, r) = SqliteUpsert(A, r)
BY DEF CrdbUpsert, SqliteUpsert, RateRow

\* The upsert as a function of rows.
LEMMA UpsertFacts ==
    ASSUME NEW A \in SUBSET RateRow, IsFiniteSet(A), NEW r \in RateRow
    PROVE  /\ SqliteUpsert(A, r) \in SUBSET RateRow
           /\ IsFiniteSet(SqliteUpsert(A, r))
           /\ Upserted(A, r, SqliteUpsert(A, r))
<1> DEFINE u == [x \in RateRow |-> IF SameKey(x, r) THEN [x EXCEPT !.rate = r.rate] ELSE x]
<1>1. \A x \in RateRow : x.base = r.base
  BY DEF RateRow
<1>2. \A x \in RateRow : /\ u[x] \in RateRow
                         /\ SameKey(x, r) => SameKey(u[x], r) /\ u[x].rate = r.rate
                         /\ ~ SameKey(x, r) => u[x] = x
  BY DEF RateRow, SameKey
<1>3. CASE \E x \in A : SameKey(x, r)
  <2>1. SqliteUpsert(A, r) = {u[x] : x \in A}
    BY <1>1, <1>3 DEF SqliteUpsert, SameKey
  <2> HIDE DEF u
  <2>2. IsFiniteSet({u[x] : x \in A})
    BY FiniteImage
  <2>3. Upserted(A, r, {u[x] : x \in A})
    BY <1>2, <1>3 DEF Upserted
  <2> QED BY <1>2, <2>1, <2>2, <2>3
<1>4. CASE ~ \E x \in A : SameKey(x, r)
  <2>1. SqliteUpsert(A, r) = A \cup {r}
    BY <1>4 DEF SqliteUpsert, SameKey
  <2>2. IsFiniteSet(A \cup {r})
    BY FS_AddElement
  <2>3. Upserted(A, r, A \cup {r})
    BY <1>4 DEF Upserted, SameKey
  <2> QED BY <2>1, <2>2, <2>3
<1> QED BY <1>3, <1>4

\* Upserting a rate and converting the rows is converting and upserting.
LEMMA UpsertOfImage ==
    ASSUME NEW A \in SUBSET RateRow, NEW r \in RateRow
    PROVE  SqliteUpsert({ToRate[x] : x \in A}, ToRate[r]) = {ToRate[x] : x \in SqliteUpsert(A, r)}
<1> DEFINE U(k) == [x \in RateRow |-> IF SameKey(x, k) THEN [x EXCEPT !.rate = k.rate] ELSE x]
           q == ToRate[r]
           B == {ToRate[x] : x \in A}
           u == U(r)
           w == U(q)
<1>1. \A x \in RateRow : x.base = r.base /\ x.base = q.base
  BY RateRows DEF RateRow
<1>2. q \in RateRow /\ B \in SUBSET RateRow
  BY RateRows
<1>3. ASSUME NEW x \in RateRow PROVE SameKey(x, r) <=> SameKey(ToRate[x], q)
  <2>1. /\ x.effective_at \in Stamps /\ r.effective_at \in Stamps
        /\ ToRate[x].source = x.source /\ q.source = r.source
        /\ ToRate[x].effective_at = Sqlite!parseTime(x.effective_at)
        /\ q.effective_at = Sqlite!parseTime(r.effective_at)
    BY RateRows DEF RateRow
  <2> HIDE DEF q
  <2> QED BY <2>1, ParseInOrder DEF SameKey
<1>4. ASSUME NEW x \in RateRow PROVE w[ToRate[x]] = ToRate[u[x]]
  <2>1. q.rate = r.rate /\ ToRate[x] \in RateRow /\ r.rate \in 1 .. 2
    BY RateRows DEF RateRow
  <2>2. u[x] = IF SameKey(x, r) THEN [x EXCEPT !.rate = r.rate] ELSE x
    OBVIOUS
  <2>3. w[ToRate[x]] = IF SameKey(x, r) THEN [ToRate[x] EXCEPT !.rate = r.rate] ELSE ToRate[x]
    BY <1>3, <2>1
  <2>4. [x EXCEPT !.rate = r.rate] \in RateRow
    BY <2>1 DEF RateRow
  <2>5. ToRate[[x EXCEPT !.rate = r.rate]] = [ToRate[x] EXCEPT !.rate = r.rate]
    BY <2>4 DEF ToRate, Sqlite!rowToFXRate, RateRow
  <2> HIDE DEF u, w
  <2> QED BY <2>2, <2>3, <2>5
<1>5. (\E x \in A : SameKey(x, r)) <=> (\E x \in B : SameKey(x, q))
  <2> HIDE DEF q
  <2> QED BY <1>3
<1>6. CASE \E x \in A : SameKey(x, r)
  <2>1. SqliteUpsert(A, r) = {u[x] : x \in A}
    BY <1>1, <1>6 DEF SqliteUpsert, SameKey
  <2>2. SqliteUpsert(B, q) = {w[x] : x \in B}
    <3>1. \E x \in B : SameKey(x, q)
      BY <1>5, <1>6
    <3> HIDE DEF B, q
    <3> QED BY <1>1, <1>2, <3>1 DEF SqliteUpsert, SameKey
  <2> HIDE DEF u, w, q
  <2>3. {w[x] : x \in B} = {ToRate[y] : y \in {u[x] : x \in A}}
    BY <1>4, ImageOfImage
  <2> HIDE DEF B
  <2> QED BY <2>1, <2>2, <2>3 DEF B, q
<1>7. CASE ~ \E x \in A : SameKey(x, r)
  <2>1. SqliteUpsert(A, r) = A \cup {r}
    BY <1>7 DEF SqliteUpsert, SameKey
  <2>2. SqliteUpsert(B, q) = B \cup {q}
    <3>1. ~ \E x \in B : SameKey(x, q)
      BY <1>5, <1>7
    <3> HIDE DEF B, q
    <3> QED BY <3>1 DEF SqliteUpsert, SameKey
  <2> HIDE DEF q, u, w
  <2>3. B \cup {q} = {ToRate[x] : x \in A \cup {r}}
    BY DEF q
  <2> HIDE DEF B
  <2> QED BY <2>1, <2>2, <2>3 DEF B, q
<1> QED BY <1>6, <1>7

\* An upsert keeps a table of rates up to date.
LEMMA StaysUpToDate ==
    ASSUME NEW A, NEW C, NEW f, NEW ps \in Seq(Put), NEW r \in Put, UpToDate(A, f, ps),
           NEW b, b.source = r.source, b.rate = r.rate, b.effective_at = f[r.effective_at],
           Upserted(A, b, C)
    PROVE  UpToDate(C, f, Append(ps, r))
<1> DEFINE qs == Append(ps, r)
           n == Len(ps) + 1
<1>1. /\ DOMAIN qs = 1 .. n /\ DOMAIN ps = 1 .. Len(ps) /\ n \in Nat /\ Len(ps) \in Nat
      /\ qs[n] = r /\ \A i \in 1 .. Len(ps) : qs[i] = ps[i]
  OBVIOUS
<1> HIDE DEF qs
<1>2. ASSUME NEW x \in C
      PROVE  \E i \in DOMAIN qs :
                /\ qs[i].source = x.source /\ qs[i].rate = x.rate
                /\ x.effective_at = f[qs[i].effective_at]
                /\ \A k \in DOMAIN qs :
                      (k > i /\ qs[k].source = qs[i].source)
                        => f[qs[k].effective_at] # f[qs[i].effective_at]
  <2>1. CASE x \in A /\ ~ SameKey(x, b)
    <3>1. PICK i \in DOMAIN ps :
             /\ ps[i].source = x.source /\ ps[i].rate = x.rate
             /\ x.effective_at = f[ps[i].effective_at]
             /\ \A k \in DOMAIN ps :
                   (k > i /\ ps[k].source = ps[i].source)
                     => f[ps[k].effective_at] # f[ps[i].effective_at]
      BY <2>1, Zenon DEF UpToDate
    <3>2. i \in DOMAIN qs /\ qs[i] = ps[i]
      BY <1>1
    <3>3. ASSUME NEW k \in DOMAIN qs, k > i, qs[k].source = qs[i].source
          PROVE  f[qs[k].effective_at] # f[qs[i].effective_at]
      <4>1. CASE k = n
        BY <1>1, <2>1, <3>1, <3>2, <3>3, <4>1 DEF SameKey
      <4>2. CASE k # n
        <5>1. k \in DOMAIN ps /\ qs[k] = ps[k]
          BY <1>1, <4>2
        <5> QED BY <3>1, <3>2, <3>3, <5>1
      <4> QED BY <4>1, <4>2
    <3> QED BY <3>1, <3>2, <3>3, Zenon
  <2>2. CASE SameKey(x, b) /\ x.rate = b.rate
    <3>1. n \in DOMAIN qs /\ \A k \in DOMAIN qs : ~ (k > n)
      BY <1>1
    <3>2. qs[n].source = x.source /\ qs[n].rate = x.rate /\ x.effective_at = f[qs[n].effective_at]
      BY <1>1, <2>2 DEF SameKey
    <3> HIDE DEF n
    <3> QED BY <3>1, <3>2, Zenon
  <2> QED BY <2>1, <2>2 DEF Upserted
<1>3. ASSUME NEW i \in DOMAIN qs
      PROVE  \E x \in C : x.source = qs[i].source /\ x.effective_at = f[qs[i].effective_at]
  <2>1. PICK z \in C : SameKey(z, b)
    BY DEF Upserted
  <2>2. CASE i = n
    BY <1>1, <2>1, <2>2 DEF SameKey
  <2>3. CASE i # n
    <3>1. i \in DOMAIN ps /\ qs[i] = ps[i]
      BY <1>1, <2>3
    <3>2. PICK x \in A : x.source = ps[i].source /\ x.effective_at = f[ps[i].effective_at]
      BY <3>1, Zenon DEF UpToDate
    <3>3. CASE SameKey(x, b)
      BY <2>1, <3>1, <3>2, <3>3 DEF SameKey
    <3>4. CASE ~ SameKey(x, b)
      BY <3>1, <3>2, <3>4 DEF Upserted
    <3> QED BY <3>3, <3>4
  <2> QED BY <2>2, <2>3
<1>4. UpToDate(C, f, qs)
  BY <1>2, <1>3 DEF UpToDate
<1> QED BY <1>4 DEF qs

\* PutFXRate upserts the same rate in both SQL databases.
LEMMA PutFXRateStep ==
    ASSUME IInv, NEW id \in Ids, NEW s \in {"ecb", "desk"}, NEW v \in 1 .. 2, NEW t \in Instants,
           PutFXRate(id, s, v, t)
    PROVE  IInv'
<1> DEFINE T(x) == [id |-> id, base |-> "EUR", source |-> s, rate |-> v, effective_at |-> x]
           z == Sqlite!sqliteTimeFormat(t)
           r == T(t)
           b == T(z)
           c == T(Round(t))
           A == crdb.fx_rates
           C == SqliteUpsert(A, r)
           D == sqlite.fx_rates
           X == SqliteUpsert(D, b)
           E == rounded.fx_rates
<1>1. /\ t \in Nat /\ t \in Stamps /\ z \in Stamps /\ Round(t) \in Stamps /\ id \in Nat
      /\ Sqlite!parseTime(z) = Round(t) /\ z = t \div Unit
  BY BoundsAssumption, FormatThenParse DEF Instants, Stamps
<1>2. r \in RateRow /\ b \in RateRow /\ c \in RateRow /\ r \in Put
  BY <1>1 DEF RateRow, Put
<1>3. c = ToRate[b]
  BY <1>1, <1>2 DEF ToRate, Sqlite!rowToFXRate
<1>4. /\ A \in SUBSET RateRow /\ IsFiniteSet(A) /\ D \in SUBSET RateRow /\ IsFiniteSet(D)
      /\ E \in SUBSET RateRow /\ E = {ToRate[x] : x \in D}
      /\ puts \in Seq(Put) /\ UpToDate(A, Kept, puts) /\ UpToDate(D, Cut, puts)
  BY DEF IInv, TypeInv, SameTables, SqlTables, FiniteTables, SameRows, RatesUpToDate
<1>5. /\ crdb' = [crdb EXCEPT !.fx_rates = CrdbUpsert(A, r)]
      /\ puts' = Append(puts, r) /\ UNCHANGED <<dynamo, now>>
  BY Zenon DEF PutFXRate, Crdb!UpsertFXRate, Crdb!upsertFXRate, CrdbUpsert
<1>6. sqlite' = [sqlite EXCEPT !.fx_rates = X]
  <2>1. [r EXCEPT !.effective_at = Sqlite!sqliteTimeFormat(@)] = b
    OBVIOUS
  <2>2. sqlite' = Sqlite!UpsertFXRate(sqlite, r)
    BY Zenon DEF PutFXRate
  <2> HIDE DEF r, b
  <2>3. sqlite' = Sqlite!upsertFXRate(sqlite, b)
    BY <2>1, <2>2, Zenon DEF Sqlite!UpsertFXRate
  <2> QED BY <2>3 DEF Sqlite!upsertFXRate, SqliteUpsert
<1>7. rounded' = [rounded EXCEPT !.fx_rates = CrdbUpsert(E, c)]
  <2>1. [r EXCEPT !.effective_at = Round(@)] = c
    OBVIOUS
  <2>2. rounded' = Crdb!UpsertFXRate(rounded, [r EXCEPT !.effective_at = Round(@)])
    BY Zenon DEF PutFXRate
  <2> HIDE DEF r, c
  <2>3. rounded' = Crdb!UpsertFXRate(rounded, c)
    BY <2>1, <2>2, Zenon
  <2> QED BY <2>3, ZenonT(60) DEF Crdb!UpsertFXRate, Crdb!upsertFXRate, CrdbUpsert
<1>8. /\ r.source = s /\ r.rate = v /\ r.effective_at = Kept[t]
      /\ b.source = s /\ b.rate = v /\ b.effective_at = Cut[t] /\ r.effective_at = t
  BY <1>1 DEF Kept, Cut
<1> HIDE DEF r, b, c, A, D, E
<1>9. CrdbUpsert(A, r) = C /\ CrdbUpsert(E, c) = {ToRate[x] : x \in X}
  BY <1>2, <1>3, <1>4, OneUpsert, UpsertOfImage
<1>10. /\ C \in SUBSET RateRow /\ IsFiniteSet(C) /\ Upserted(A, r, C)
       /\ X \in SUBSET RateRow /\ IsFiniteSet(X) /\ Upserted(D, b, X)
  BY <1>2, <1>4, UpsertFacts
<1> HIDE DEF C, X
<1>11. TypeInv' /\ SameTables' /\ SameInstants'
  BY <1>5, <1>6, <1>7, <1>9, <1>10, RatesWritten
<1>12. UpToDate(C, Kept, Append(puts, r)) /\ UpToDate(X, Cut, Append(puts, r))
  BY <1>2, <1>4, <1>8, <1>10, StaysUpToDate
<1>13. crdb'.fx_rates = C /\ sqlite'.fx_rates = X
  BY <1>5, <1>6, <1>9 DEF IInv, TypeInv, SameTables, SqlTables
<1>14. RatesUpToDate'
  BY <1>2, <1>4, <1>5, <1>12, <1>13 DEF RatesUpToDate
<1> QED BY <1>11, <1>14 DEF IInv

-----------------------------------------------------------------------------
(* The invariant holds at all times.                                       *)

\* Empty databases are alike.
LEMMA InitIInv == Init => IInv
<1> SUFFICES ASSUME Init PROVE IInv
  OBVIOUS
<1> USE DEF Init, Crdb!Tables, Crdb!EmptyTables, Sqlite!Tables, Sqlite!EmptyTables
<1>1. TypeInv
  BY FS_EmptySet, BoundsAssumption DEF TypeInv, Instants, SqlTables, FiniteTables
<1>2. SameTables
  BY FS_EmptySet DEF SameTables, SameRows, SqlTables, FiniteTables
<1>3. SameInstants
  BY DEF SameInstants, OneRowPerId, Dated, Dynamo!Items
<1>4. RatesUpToDate
  BY DEF RatesUpToDate, UpToDate
<1> QED BY <1>1, <1>2, <1>3, <1>4 DEF IInv

\* Every step keeps the databases alike.
LEMMA NextIInv == IInv /\ [Next]_vars => IInv'
<1> SUFFICES ASSUME IInv, [Next]_vars PROVE IInv'
  OBVIOUS
<1>1. CASE Tick
  BY <1>1, TickStep
<1>2. CASE \E r \in crdb.reservations, s \in Statuses : UpdateReservation(r, s)
  BY <1>2, UpdateReservationStep
<1>3. CASE \E e \in crdb.outbox_events : MarkOutboxPublished(e) \/ IncrementOutboxAttempts(e)
  BY <1>3, MarkOutboxPublishedStep, IncrementOutboxAttemptsStep
<1>4. CASE \E r \in crdb.external_records : MatchRecord(r)
  BY <1>4, MatchRecordStep
<1>5. CASE \E d \in crdb.discrepancies : ResolveDiscrepancy(d)
  BY <1>5, ResolveDiscrepancyStep
<1>6. ASSUME NEW id \in Ids, NEW a \in Accounts, NEW t \in Filters, CreateReservation(id, a, t)
      PROVE  IInv'
  BY <1>6, CreateReservationStep
<1>7. ASSUME NEW id \in Ids, NEW s \in {"ecb", "desk"}, NEW v \in 1 .. 2, NEW t \in Instants,
             PutFXRate(id, s, v, t)
      PROVE  IInv'
  BY <1>7, PutFXRateStep
<1>8. ASSUME NEW id \in Ids, NEW a \in AccountRows, InsertSnapshot(id, a) PROVE IInv'
  BY <1>8, InsertSnapshotStep
<1>9. ASSUME NEW id \in Ids, NEW a \in Accounts, NEW b \in Accounts, NEW x \in 1 .. 2,
             PostJournal(id, a, b, x)
      PROVE  IInv'
  BY <1>9, PostJournalStep
<1>10. ASSUME NEW id \in Ids, InsertOutbox(id) PROVE IInv'
  BY <1>10, InsertOutboxStep
<1>11. ASSUME NEW id \in Ids, NEW ref \in {"r1", "r2"}, NEW t \in Instants,
              IngestRecord(id, ref, t)
       PROVE  IInv'
  BY <1>11, IngestRecordStep
<1>12. ASSUME NEW id \in Ids, NEW b \in {"b1", "b2"}, OpenDiscrepancy(id, b) PROVE IInv'
  BY <1>12, OpenDiscrepancyStep
<1>13. CASE UNCHANGED vars
  <2>1. UNCHANGED <<crdb, sqlite, dynamo, rounded, puts, now>>
    BY <1>13 DEF vars
  <2>2. TypeInv'
    BY <2>1 DEF IInv, TypeInv, FiniteTables
  <2>3. SameTables'
    BY <2>1 DEF IInv, SameTables, SameRows, FiniteTables
  <2>4. SameInstants' /\ RatesUpToDate'
    BY <2>1 DEF IInv, SameInstants, RatesUpToDate
  <2> QED BY <2>2, <2>3, <2>4 DEF IInv
<1>14. CASE Next
  BY <1>14, <1>1, <1>2, <1>3, <1>4, <1>5, <1>6, <1>7, <1>8, <1>9, <1>10, <1>11, <1>12 DEF Next
<1> QED BY <1>13, <1>14

\* The invariant holds in every state.
LEMMA IInvAlways == Spec => []IInv
BY InitIInv, NextIInv, PTL DEF Spec

-----------------------------------------------------------------------------
(* The owner's index of DynamoDB.                                          *)

\* A page that has room for every row holds every row.
LEMMA CompletePage ==
    ASSUME NEW S, IsFiniteSet(S), NEW R, NEW n \in Nat, Cardinality(S) <= n,
           NEW q \in PageBy(S, R, n)
    PROVE  {q[i] : i \in DOMAIN q} = S
<1>1. PICK p \in SetToSeqs(S) : q = Limit(p, n)
  BY Zenon DEF PageBy
<1>2. /\ p \in Seq(S) /\ Len(p) = Cardinality(S) /\ Cardinality(S) \in Nat
      /\ \A x \in S : \E i \in 1 .. Cardinality(S) : p[i] = x
  BY OrderingFacts
<1>3. q = SubSeq(p, 1, Len(p))
  BY <1>1, <1>2 DEF Limit
<1>4. DOMAIN q = 1 .. Len(p) /\ \A i \in 1 .. Len(p) : q[i] = p[i] /\ p[i] \in S
  BY <1>2, <1>3
<1> QED BY <1>2, <1>4

\* The item of a reservation: whose it is, and which indexes it is in.
LEMMA ReservationItems ==
    ASSUME NEW x \in ReservationRow
    PROVE  /\ ReservationItem[x].id = x.id /\ ReservationItem[x].status = x.status
           /\ ReservationItem[x].expires_at = x.expires_at
           /\ ReservationItem[x].created_at = x.created_at
           /\ ReservationItem[x].gsi1 <=> x.status \in {"HELD", "PARTIAL"} /\ x.expires_at # -1
           /\ ReservationItem[x].gsi2 <=> x.status \in {"HELD", "PARTIAL"}
           /\ \A o : ReservationItem[x].owner = o
                       <=> \E a \in AccountRows : a.id = x.source_account_id /\ a.owner = o
<1>1. ReservationItem[x] = Dynamo!reservationToItem(x)
  BY DEF ReservationItem
<1>2. /\ ReservationItem[x].id = x.id /\ ReservationItem[x].status = x.status
      /\ ReservationItem[x].expires_at = x.expires_at
      /\ ReservationItem[x].created_at = x.created_at
      /\ ReservationItem[x].owner = Dynamo!parseAccountOwner(x.source_account_id)
  BY <1>1 DEF Dynamo!reservationToItem
<1>3. ReservationItem[x].gsi1 <=> x.status \in {"HELD", "PARTIAL"} /\ x.expires_at # -1
  <2>1. Dynamo!reservationToItem(x).gsi1
          = (x.status \in {"HELD", "PARTIAL"} /\ x.expires_at # -1)
    BY Zenon DEF Dynamo!reservationToItem, Dynamo!reservationActive, Dynamo!NoTime
  <2> QED BY <1>1, <2>1, Zenon
<1>4. ReservationItem[x].gsi2 <=> x.status \in {"HELD", "PARTIAL"}
  <2>1. Dynamo!reservationToItem(x).gsi2 = (x.status \in {"HELD", "PARTIAL"})
    BY Zenon DEF Dynamo!reservationToItem, Dynamo!reservationActive
  <2> QED BY <1>1, <2>1, Zenon
<1>5. PICK a \in AccountRows : a.id = x.source_account_id
  BY DEF ReservationRow, Accounts
<1>6. PICK b \in AccountRows : /\ b.id = x.source_account_id
                               /\ Dynamo!parseAccountOwner(x.source_account_id) = b.owner
  BY <1>5, Zenon DEF Dynamo!parseAccountOwner
<1>7. \A o : ReservationItem[x].owner = o
               <=> \E c \in AccountRows : c.id = x.source_account_id /\ c.owner = o
  BY <1>2, <1>6, AccountRowsAssumption
<1> QED BY <1>2, <1>3, <1>4, <1>7

\* An owner's reservations of a status in CockroachDB; the owner's index of
\* DynamoDB, and the items of that status in it.
OwnersRows(o, s) ==
    {r \in crdb.reservations :
        /\ r.status = s
        /\ \E a \in AccountRows : a.id = r.source_account_id /\ a.owner = o}
OwnersIndex(o) == {i \in dynamo.reservations : i.gsi2 /\ i.owner = o}
OwnersItems(o, s) == {i \in OwnersIndex(o) : i.status = s}

\* They are the same reservations, and none but open ones.
LEMMA OwnersReservations ==
    ASSUME IInv, NEW o, NEW s \in {"HELD", "PARTIAL"}
    PROVE  LET M == OwnersRows(o, s)
               G == OwnersIndex(o)
               H == OwnersItems(o, s)
           IN  /\ {i.id : i \in H} = {r.id : r \in M}
               /\ \A x \in M : Crdb!rowToReservation(x) = x
               /\ IsFiniteSet(M) /\ IsFiniteSet(G) /\ IsFiniteSet(H)
               /\ M = {r \in ActiveOf(o) : r.status = s}
               /\ Cardinality(G) <= Cardinality(ActiveOf(o))
               /\ Cardinality(H) <= Cardinality(M)
               /\ Cardinality(M) \in Nat /\ Cardinality(G) \in Nat /\ Cardinality(H) \in Nat
               /\ Cardinality(ActiveOf(o)) \in Nat
<1> DEFINE A == crdb.reservations
           B == ActiveOf(o)
           M == OwnersRows(o, s)
           G == OwnersIndex(o)
           H == OwnersItems(o, s)
<1>1. A \in SUBSET ReservationRow /\ IsFiniteSet(A)
  BY DEF IInv, TypeInv, SqlTables, FiniteTables
<1>2. dynamo.reservations = {ReservationItem[x] : x \in A}
  BY DEF IInv, SameInstants
<1>3. /\ B \subseteq A /\ M \subseteq B
      /\ \A x \in A : x \in M <=> x \in B /\ x.status = s
      /\ \A x \in A : x \in B <=> /\ x.status \in {"HELD", "PARTIAL"}
                                  /\ \E a \in AccountRows : /\ a.id = x.source_account_id
                                                            /\ a.owner = o
  BY DEF ActiveOf, OwnersRows
<1>4. \A x \in A : (ReservationItem[x].gsi2 /\ ReservationItem[x].owner = o) <=> x \in B
  BY <1>1, <1>3, ReservationItems, SMTT(30)
<1>5. \A x \in A : ReservationItem[x].status = x.status /\ ReservationItem[x].id = x.id
  BY <1>1, ReservationItems
<1>6. /\ G = {i \in dynamo.reservations : i.gsi2 /\ i.owner = o}
      /\ H = {i \in G : i.status = s}
  BY DEF OwnersIndex, OwnersItems
<1> HIDE DEF A, B, M, G, H
<1>7. G = {ReservationItem[x] : x \in B}
  BY <1>6, <1>2, <1>3, <1>4 DEF A
<1>8. H = {ReservationItem[x] : x \in M}
  BY <1>6, <1>3, <1>5, <1>7
<1>9. /\ IsFiniteSet(B) /\ IsFiniteSet(M)
      /\ Cardinality(M) <= Cardinality(B)
  BY <1>1, <1>3, FS_Subset
<1>10. IsFiniteSet(G) /\ Cardinality(G) <= Cardinality(B)
  BY <1>7, <1>9, FiniteImage
<1>11. IsFiniteSet(H) /\ Cardinality(H) <= Cardinality(M)
  BY <1>8, <1>9, FiniteImage
<1>12. /\ Cardinality(M) \in Nat /\ Cardinality(G) \in Nat /\ Cardinality(H) \in Nat
       /\ Cardinality(B) \in Nat
  BY <1>9, <1>10, <1>11, FS_CardinalityType
<1>13. {i.id : i \in H} = {r.id : r \in M}
  BY <1>3, <1>5, <1>8
<1>14. \A x \in M : Crdb!rowToReservation(x) = x
  BY <1>1, <1>3, ReservationRows
<1>15. M = {r \in B : r.status = s}
  BY <1>3
<1> QED BY <1>9, <1>10, <1>11, <1>12, <1>13, <1>14, <1>15 DEF B, M, G, H

\* A page, and DynamoDB's three pages, are numbers of rows.
LEMMA WalletPages == \A k \in Limits : WalletPage(k) \in Nat /\ 3 * WalletPage(k) \in Nat
BY BoundsAssumption DEF WalletPage

\* An absent owner, or status.
Absent == ""

\* What GetWallet lists: an owner's reservations of a status, as CockroachDB
\* and DynamoDB list them, as long as they fit in a page and all the open ones
\* in three.
LEMMA OwnersReservationsAgree ==
    ASSUME IInv, NEW o \in Owners, o # Absent, NEW s \in {"HELD", "PARTIAL"},
           NEW k \in Limits,
           Cardinality(ActiveOf(o)) <= 3 * WalletPage(k),
           Cardinality({r \in ActiveOf(o) : r.status = s}) <= WalletPage(k),
           NEW p \in Crdb!ListReservations(crdb, o, s, k),
           NEW q \in Dynamo!ListReservations(dynamo, o, s, k)
    PROVE  {p[i].id : i \in DOMAIN p} = ToSet(q)
<1> DEFINE A == crdb.reservations
           M == OwnersRows(o, s)
           G == OwnersIndex(o)
           H == OwnersItems(o, s)
           n == WalletPage(k)
           S == {r \in A : \E a \in AccountRows : /\ a.id = r.source_account_id
                                                  /\ a.owner = o \/ o = Absent
                                                  /\ r.status = s \/ s = Absent}
           R == {t \in S \X S : \/ t[1].created_at > t[2].created_at
                                \/ t[1].created_at = t[2].created_at /\ t[1].id > t[2].id}
           O == {t \in G \X G : Dynamo!Older(t[1], t[2])}
           F(f) == {i \in Dynamo!ToSet(f) : s = Absent \/ i.status = s}
           Q(f) == {t \in F(f) \X F(f) : Dynamo!Older(t[1], t[2])}
           found == PageBy(G, O, 3 * n)
<1>1. s # Absent
  BY Zenon DEF Absent
<1>2. Crdb!ListReservations(crdb, o, s, k)
        = {[i \in DOMAIN g |-> Crdb!rowToReservation(g[i])] : g \in PageBy(S, R, n)}
  BY OnePage, ZenonT(60)
     DEF Crdb!ListReservations, Crdb!listReservations, Crdb!MapPage, Crdb!Page, Absent,
         WalletPage
<1>3. Dynamo!ListReservations(dynamo, o, s, k)
        = {[i \in DOMAIN g |-> g[i].id] : g \in UNION {PageBy(F(f), Q(f), n) : f \in found}}
  <2>1. Dynamo!ListReservations(dynamo, o, s, k)
          = {[i \in DOMAIN g |-> g[i].id] :
                g \in UNION {Dynamo!PageBy(F(f), Q(f), n) : f \in Dynamo!PageBy(G, O, 3 * n)}}
    BY <1>1, Zenon
       DEF Dynamo!ListReservations, Dynamo!MapPage, Dynamo!Page, Absent, OwnersIndex, WalletPage
  <2> HIDE DEF F, Q, G, O, n
  <2>2. \A f : Dynamo!PageBy(F(f), Q(f), n) = PageBy(F(f), Q(f), n)
    BY OnePage
  <2>3. Dynamo!PageBy(G, O, 3 * n) = found
    BY OnePage
  <2>4. UNION {Dynamo!PageBy(F(f), Q(f), n) : f \in Dynamo!PageBy(G, O, 3 * n)}
          = UNION {PageBy(F(f), Q(f), n) : f \in found}
    BY <2>2, <2>3
  <2> QED BY <2>1, <2>4, Zenon
<1>4. S = M
  BY <1>1 DEF OwnersRows
<1>5. n \in Nat /\ 3 * n \in Nat
  BY WalletPages
<1>6. /\ {i.id : i \in H} = {r.id : r \in M}
      /\ \A x \in M : Crdb!rowToReservation(x) = x
      /\ IsFiniteSet(M) /\ IsFiniteSet(G) /\ IsFiniteSet(H)
      /\ M = {r \in ActiveOf(o) : r.status = s}
      /\ Cardinality(G) <= Cardinality(ActiveOf(o))
      /\ Cardinality(H) <= Cardinality(M)
      /\ Cardinality(M) \in Nat /\ Cardinality(G) \in Nat /\ Cardinality(H) \in Nat
      /\ Cardinality(ActiveOf(o)) \in Nat
  BY OwnersReservations
<1>7. \A f : {f[i] : i \in DOMAIN f} = G => F(f) = H
  BY <1>1 DEF Dynamo!ToSet, OwnersItems
<1>a. Cardinality(M) <= n /\ Cardinality(ActiveOf(o)) <= 3 * n
  BY <1>6
<1> HIDE DEF S, R, O, F, Q, M, G, H, n
<1>8. /\ Cardinality(M) <= n /\ Cardinality(G) <= 3 * n /\ Cardinality(H) <= n
      /\ n \in Nat /\ 3 * n \in Nat
  BY <1>5, <1>6, <1>a
<1>9. {p[i].id : i \in DOMAIN p} = {r.id : r \in M}
  <2>1. PICK g \in PageBy(S, R, n) : p = [i \in DOMAIN g |-> Crdb!rowToReservation(g[i])]
    BY <1>2
  <2>2. {g[i] : i \in DOMAIN g} = M
    BY <1>4, <1>6, <1>8, CompletePage
  <2>3. DOMAIN p = DOMAIN g /\ \A i \in DOMAIN g : p[i] = g[i]
    BY <1>6, <2>1, <2>2
  <2> QED BY <2>2, <2>3
<1>10. ToSet(q) = {i.id : i \in H}
  <2>1. PICK f \in found : \E g \in PageBy(F(f), Q(f), n) : q = [i \in DOMAIN g |-> g[i].id]
    BY <1>3
  <2>2. PICK g \in PageBy(F(f), Q(f), n) : q = [i \in DOMAIN g |-> g[i].id]
    BY <2>1
  <2>3. {f[i] : i \in DOMAIN f} = G
    BY <1>6, <1>8, CompletePage
  <2>4. F(f) = H
    BY <1>7, <2>3
  <2>5. {g[i] : i \in DOMAIN g} = H
    BY <1>6, <1>8, <2>4, CompletePage
  <2> QED BY <2>2, <2>5 DEF ToSet
<1> QED BY <1>6, <1>9, <1>10

\* The same for every owner, status and limit.
LEMMA OwnersListsAgree ==
    ASSUME IInv
    PROVE  \A o \in Owners \ {Absent}, s \in {"HELD", "PARTIAL"}, n \in Limits :
              (/\ Cardinality(ActiveOf(o)) <= 3 * WalletPage(n)
               /\ Cardinality({r \in ActiveOf(o) : r.status = s}) <= WalletPage(n)) =>
                  \A p \in Crdb!ListReservations(crdb, o, s, n),
                     q \in Dynamo!ListReservations(dynamo, o, s, n) :
                        {p[i].id : i \in DOMAIN p} = ToSet(q)
<1> TAKE o \in Owners \ {Absent}, s \in {"HELD", "PARTIAL"}, n \in Limits
<1>1. HAVE /\ Cardinality(ActiveOf(o)) <= 3 * WalletPage(n)
           /\ Cardinality({r \in ActiveOf(o) : r.status = s}) <= WalletPage(n)
<1> TAKE p \in Crdb!ListReservations(crdb, o, s, n), q \in Dynamo!ListReservations(dynamo, o, s, n)
<1>2. o \in Owners /\ o # Absent
  OBVIOUS
<1> QED BY <1>1, <1>2, OwnersReservationsAgree

\* In a state of the invariant every query of the Store gives the same answers
\* on SQLite and on the CockroachDB of whole units.
LEMMA IInvStoresAgree == IInv => StoresAgree
<1> SUFFICES ASSUME IInv PROVE StoresAgree
  OBVIOUS
<1>1. SameTables
  BY DEF IInv
<1>2. ReservationsAgree
  <2>1. \A t \in Instants, n \in Limits :
           Sqlite!ListExpiredReservations(sqlite, t, n)
             = Crdb!ListExpiredReservations(rounded, Round(t), n)
    BY <1>1, ExpiredAgree, Zenon
  <2>2. \A o \in Owners \cup {""}, s \in Statuses \cup {""}, n \in Limits :
           Sqlite!ListReservations(sqlite, o, s, n) = Crdb!ListReservations(rounded, o, s, n)
    BY <1>1, ReservationListsAgree, Zenon
  <2>3. \A o \in Owners \ {""}, s \in {"HELD", "PARTIAL"}, n \in Limits :
           (/\ Cardinality(ActiveOf(o)) <= 3 * WalletPage(n)
            /\ Cardinality({r \in ActiveOf(o) : r.status = s}) <= WalletPage(n)) =>
               \A p \in Crdb!ListReservations(crdb, o, s, n),
                  q \in Dynamo!ListReservations(dynamo, o, s, n) :
                     {p[i].id : i \in DOMAIN p} = ToSet(q)
    BY OwnersListsAgree, Zenon DEF Absent
  <2> QED BY <2>1, <2>2, <2>3, Zenon DEF ReservationsAgree
<1>3. RatesAgree
  BY <1>1, RatesAgreeAt, RateListsAgree, ZenonT(60) DEF RatesAgree
<1>4. SnapshotsAgree
  BY <1>1, SnapshotsAgreeBefore, TenantListsAgree, PrunesAgree, Zenon DEF SnapshotsAgree
<1>5. EntriesAgree
  BY <1>1, ActivityAgrees, PeriodSumsAgree, JournalSumsAgree, JournalListsAgree, ZenonT(60)
     DEF EntriesAgree
<1>6. ReconAgrees
  BY <1>1, RecordListsAgree, DiscrepancyListsAgree, Zenon DEF ReconAgrees
<1>7. \A n \in Limits : Sqlite!PendingOutbox(sqlite, n) = Crdb!PendingOutbox(rounded, n)
  BY <1>1, PendingAgree, Zenon
<1> QED BY <1>2, <1>3, <1>4, <1>5, <1>6, <1>7, Zenon DEF StoresAgree

\* The code is written once per database and means the same: at all times every
\* query of the Store gives on SQLite the answer that CockroachDB would give if
\* it knew whole milliseconds only (but for the last digits of REAL sums, which
\* add the same entries), and the open reservations of an owner are the same on
\* DynamoDB as long as they fit in the pages that it reads.
THEOREM StoresAgreeCorrect == Spec => []StoresAgree
BY IInvAlways, IInvStoresAgree, PTL

-----------------------------------------------------------------------------
(* Answers up to the resolution of the backend.                            *)

\* A page of a backend's reservations B, which f makes of CockroachDB's rows.
\* The page is timely when the backend's filter and order are right up to u.
TimelySelection(f, S, R, t, u) ==
    LET A == crdb.reservations
    IN  /\ \A x \in A : f[x].id = x.id
        /\ S \subseteq {f[x] : x \in A}
        /\ \A x \in A : f[x] \in S => Due(x, t + u - 1)
        /\ \A x \in A : Due(x, t - u) => f[x] \in S
        /\ \A x, y \in A : (f[x] \in S /\ f[y] \in S /\ <<f[x], f[y]>> \notin R)
                              => y.expires_at < x.expires_at + u

\* PageSize is a number.
LEMMA PageSizes == \A n \in Limits : PageSize(n) \in Nat
BY BoundsAssumption DEF PageSize

\* The ids on such a page pass for an answer of ListExpiredReservations.
LEMMA TimelyPage ==
    ASSUME IInv, NEW f, NEW S, NEW R, NEW t, NEW u, TimelySelection(f, S, R, t, u),
           NEW n \in Limits, NEW q \in PageBy(S, R, PageSize(n))
    PROVE  ExpiryIsTimely([i \in DOMAIN q |-> q[i].id], t, n, u)
<1> DEFINE A == crdb.reservations
           list == [i \in DOMAIN q |-> q[i].id]
           row(id) == CHOOSE r \in A : r.id = id
           listed == {row(id) : id \in ToSet(list)}
<1>1. IsFiniteSet(A) /\ OneRowPerId(A)
  BY DEF IInv, TypeInv, FiniteTables, SameInstants
<1>2. /\ \A x \in A : f[x].id = x.id
      /\ S \subseteq {f[x] : x \in A}
      /\ \A x \in A : f[x] \in S => Due(x, t + u - 1)
      /\ \A x \in A : Due(x, t - u) => f[x] \in S
      /\ \A x, y \in A : (f[x] \in S /\ f[y] \in S /\ <<f[x], f[y]>> \notin R)
                            => y.expires_at < x.expires_at + u
  BY Zenon DEF TimelySelection
<1>3. IsFiniteSet(S)
  <2>1. IsFiniteSet({f[x] : x \in A})
    BY <1>1, FiniteImage
  <2> QED BY <1>2, <2>1, FS_Subset
<1>4. /\ Len(q) \in Nat /\ DOMAIN q = 1 .. Len(q)
      /\ \A i \in DOMAIN q : q[i] \in S
      /\ \A x \in S : \/ \E i \in DOMAIN q : q[i] = x
                      \/ /\ Len(q) = PageSize(n)
                         /\ \A i \in DOMAIN q : <<x, q[i]>> \notin R
  BY <1>3, PageFacts, PageSizes
<1>5. DOMAIN list = DOMAIN q /\ Len(list) = Len(q) /\ \A i \in DOMAIN q : list[i] = q[i].id
  BY <1>4
<1>6. \A x \in A : row(x.id) = x
  BY <1>1 DEF OneRowPerId
<1>7. ToSet(list) = {q[i].id : i \in DOMAIN q}
  BY <1>5 DEF ToSet
<1> HIDE DEF A, list, row
<1>8. \A r \in listed : r \in A /\ \E i \in DOMAIN q : q[i] = f[r]
  <2> SUFFICES ASSUME NEW i \in DOMAIN q
               PROVE  row(q[i].id) \in A /\ q[i] = f[row(q[i].id)]
    BY <1>7
  <2>1. PICK x \in A : q[i] = f[x]
    BY <1>2, <1>4
  <2> QED BY <1>2, <1>6, <2>1
<1>9. ASSUME NEW r \in A, NEW i \in DOMAIN q, q[i] = f[r] PROVE r \in listed
  <2>1. q[i].id = r.id
    BY <1>2, <1>9
  <2> QED BY <1>6, <1>7, <2>1
<1> HIDE DEF listed
<1>10. ASSUME NEW r \in listed PROVE Due(r, t + u - 1)
  BY <1>2, <1>4, <1>8
<1>11. ASSUME NEW r \in A \ listed, Due(r, t - u)
       PROVE  Len(list) = PageSize(n) /\ \A s \in listed : s.expires_at < r.expires_at + u
  <2>1. f[r] \in S
    BY <1>2, <1>11
  <2>2. Len(q) = PageSize(n) /\ \A i \in DOMAIN q : <<f[r], q[i]>> \notin R
    BY <1>4, <1>9, <2>1
  <2>3. ASSUME NEW s \in listed PROVE s.expires_at < r.expires_at + u
    <3>1. PICK i \in DOMAIN q : q[i] = f[s]
      BY <1>8
    <3> QED BY <1>2, <1>4, <1>8, <2>1, <2>2, <3>1
  <2> QED BY <1>5, <2>2, <2>3
<1> QED BY <1>10, <1>11, Zenon DEF ExpiryIsTimely, A, list, row, listed

\* The rows of CockroachDB, as they are.
SameReservation == [x \in ReservationRow |-> x]

\* ListExpiredReservations of CockroachDB.
LEMMA CrdbExpiryTimely ==
    ASSUME IInv, NEW t \in Instants, NEW n \in Limits,
           NEW l \in Crdb!ListExpiredReservations(crdb, t, n)
    PROVE  ExpiryIsTimely(l, t, n, 1)
<1> DEFINE A == crdb.reservations
           S == {r \in A : /\ r.status \in {"HELD", "PARTIAL"}
                           /\ r.expires_at # -1
                           /\ r.expires_at <= t}
           R == {p \in S \X S : p[1].expires_at < p[2].expires_at}
           k == IF n <= 0 THEN 100 ELSE n
<1>1. Crdb!ListExpiredReservations(crdb, t, n)
        = {[i \in DOMAIN q |-> q[i].id] : q \in PageBy(S, R, k)}
  BY OnePage, ZenonT(60)
     DEF Crdb!ListExpiredReservations, Crdb!listExpiredReservations, Crdb!MapPage, Crdb!Page,
         Crdb!NoTime
<1>2. \A x \in A : /\ x \in ReservationRow /\ x.expires_at \in Int
                   /\ SameReservation[x] = x
  BY DEF IInv, TypeInv, SqlTables, ReservationRow, Stamps, NoTime, SameReservation
<1>3. t \in Int
  BY BoundsAssumption DEF Instants
<1>4. TimelySelection(SameReservation, S, R, t, 1)
  BY <1>2, <1>3 DEF TimelySelection, Due, NoTime
<1> HIDE DEF S, R
<1>5. \A q \in PageBy(S, R, PageSize(n)) : ExpiryIsTimely([i \in DOMAIN q |-> q[i].id], t, n, 1)
  BY <1>4, TimelyPage
<1> QED BY <1>1, <1>5, Zenon DEF PageSize

\* ListExpiredReservations of SQLite.
LEMMA SqliteExpiryTimely ==
    ASSUME IInv, NEW t \in Instants, NEW n \in Limits,
           NEW l \in Sqlite!ListExpiredReservations(sqlite, t, n)
    PROVE  ExpiryIsTimely(l, t, n, Unit)
<1> DEFINE A == crdb.reservations
           B == sqlite.reservations
           v == Sqlite!sqliteTimeFormat(t)
           S == {r \in B : /\ r.status = "HELD" \/ r.status = "PARTIAL"
                           /\ r.expires_at # -1
                           /\ r.expires_at <= v}
           R == {p \in S \X S : p[1].expires_at < p[2].expires_at}
           k == IF n <= 0 THEN 100 ELSE n
           f == FormatReservation
<1>1. Sqlite!ListExpiredReservations(sqlite, t, n)
        = {[i \in DOMAIN q |-> q[i].id] : q \in PageBy(S, R, k)}
  BY OnePage, ZenonT(60)
     DEF Sqlite!ListExpiredReservations, Sqlite!listExpiredReservations, Sqlite!MapPage,
         Sqlite!Page, Sqlite!NoTime
<1>2. A \in SUBSET ReservationRow /\ B = {f[x] : x \in A}
  BY DEF IInv, TypeInv, SqlTables, SameInstants
<1>3. t \in Nat /\ v = t \div Unit /\ v \in Nat
  BY BoundsAssumption, FormatThenParse DEF Instants, Stamps
<1>4. ASSUME NEW x \in A
      PROVE  /\ f[x].id = x.id /\ f[x].status = x.status /\ f[x] \in B
             /\ x.expires_at \in Nat \/ x.expires_at = -1
             /\ x.expires_at = -1 <=> f[x].expires_at = -1
             /\ x.expires_at \in Nat => f[x].expires_at = x.expires_at \div Unit
             /\ x.expires_at \in Nat => x.expires_at \div Unit \in Nat
  <2>1. x \in ReservationRow /\ x.expires_at \in Stamps
    BY <1>2 DEF ReservationRow
  <2>2. x.expires_at \in Nat \/ x.expires_at = -1
    BY <2>1 DEF Stamps, NoTime
  <2> QED BY <1>2, <2>1, <2>2, ReservationTexts, FormatThenParse
<1>5. \A x \in A : f[x] \in S <=> /\ x.status \in {"HELD", "PARTIAL"}
                                  /\ x.expires_at # -1
                                  /\ f[x].expires_at <= v
  BY <1>4
<1>6. \A x, y \in A : (f[x] \in S /\ f[y] \in S)
                        => (<<f[x], f[y]>> \in R <=> f[x].expires_at < f[y].expires_at)
  OBVIOUS
<1>7. S \subseteq {f[x] : x \in A}
  BY <1>2
<1> HIDE DEF S, R, A, B, v, f
<1>8. TimelySelection(f, S, R, t, Unit)
  <2>1. ASSUME NEW x \in A, f[x] \in S PROVE Due(x, t + Unit - 1)
    <3>1. x.expires_at \in Nat /\ x.expires_at \div Unit <= t \div Unit
      BY <1>3, <1>4, <1>5, <2>1
    <3>2. x.expires_at < t + Unit
      BY <1>3, <3>1, UnitsOfInstants
    <3>3. x.expires_at <= t + Unit - 1
      BY <1>3, <3>1, <3>2, UnitAssumption
    <3> QED BY <1>5, <2>1, <3>3 DEF Due, NoTime
  <2>2. ASSUME NEW x \in A, Due(x, t - Unit) PROVE f[x] \in S
    <3>1. x.expires_at \in Nat /\ x.status \in {"HELD", "PARTIAL"} /\ x.expires_at # -1
      BY <1>4, <2>2 DEF Due, NoTime
    <3>2. x.expires_at + Unit <= t
      BY <1>3, <2>2, <3>1, UnitAssumption DEF Due
    <3>3. x.expires_at \div Unit < t \div Unit
      BY <1>3, <3>1, <3>2, UnitsOfInstants
    <3> QED BY <1>3, <1>4, <1>5, <3>1, <3>3
  <2>3. ASSUME NEW x \in A, NEW y \in A, f[x] \in S, f[y] \in S, <<f[x], f[y]>> \notin R
        PROVE  y.expires_at < x.expires_at + Unit
    <3>1. /\ x.expires_at \in Nat /\ y.expires_at \in Nat
          /\ y.expires_at \div Unit <= x.expires_at \div Unit
      BY <1>4, <1>5, <1>6, <2>3
    <3> QED BY <3>1, UnitsOfInstants
  <2> QED BY <1>4, <1>7, <2>1, <2>2, <2>3 DEF TimelySelection, A
<1>9. \A q \in PageBy(S, R, PageSize(n)) : ExpiryIsTimely([i \in DOMAIN q |-> q[i].id], t, n, Unit)
  BY <1>8, TimelyPage
<1> QED BY <1>1, <1>9, Zenon DEF PageSize

\* The order of the texts of instants is that of their seconds, and within a
\* second the texts are at most a second apart.
LEMMA TextsInOrder ==
    ASSUME NEW a \in Nat, NEW b \in Nat
    PROVE  /\ Dynamo!TextBefore(a, b) => a < b + Unit
           /\ a + Unit <= b => Dynamo!TextBefore(a, b)
           /\ ~ Dynamo!TextBefore(a, b) => b < a + Unit
<1>1. a \div Unit \in Nat /\ b \div Unit \in Nat
  BY UnitOf
<1>2. Dynamo!TextBefore(a, b) => a \div Unit <= b \div Unit
  BY <1>1 DEF Dynamo!TextBefore
<1>3. a \div Unit < b \div Unit => Dynamo!TextBefore(a, b)
  BY DEF Dynamo!TextBefore
<1>4. /\ a \div Unit <= b \div Unit => a < b + Unit
      /\ b \div Unit <= a \div Unit => b < a + Unit
      /\ a + Unit <= b => a \div Unit < b \div Unit
  BY UnitsOfInstants
<1> QED BY <1>1, <1>2, <1>3, <1>4

\* ListExpiredReservations of DynamoDB.
LEMMA DynamoExpiryTimely ==
    ASSUME IInv, NEW t \in Instants, NEW n \in Limits,
           NEW l \in Dynamo!ListExpiredReservations(dynamo, t, n)
    PROVE  ExpiryIsTimely(l, t, n, Unit)
<1> DEFINE A == crdb.reservations
           B == dynamo.reservations
           S == {i \in B : i.gsi1 /\ Dynamo!TextBefore(i.expires_at, t)}
           R == {p \in S \X S :
                    Dynamo!KeyBefore(p[1].expires_at, p[1].id, p[2].expires_at, p[2].id)}
           k == IF n <= 0 THEN 100 ELSE n
           f == ReservationItem
<1>1. Dynamo!ListExpiredReservations(dynamo, t, n)
        = {[i \in DOMAIN q |-> q[i].id] : q \in PageBy(S, R, k)}
  BY OnePage, ZenonT(60) DEF Dynamo!ListExpiredReservations, Dynamo!MapPage, Dynamo!Page
<1>2. A \in SUBSET ReservationRow /\ B = {f[x] : x \in A}
  BY DEF IInv, TypeInv, SqlTables, SameInstants
<1>3. t \in Nat
  BY BoundsAssumption DEF Instants
<1>4. ASSUME NEW x \in A
      PROVE  /\ f[x].id = x.id /\ f[x] \in B /\ f[x].expires_at = x.expires_at
             /\ f[x].gsi1 <=> x.status \in {"HELD", "PARTIAL"} /\ x.expires_at # -1
             /\ x.expires_at # -1 => x.expires_at \in Nat
  <2>1. x \in ReservationRow /\ x.expires_at \in Stamps
    BY <1>2 DEF ReservationRow
  <2> QED BY <1>2, <2>1, ReservationItems DEF Stamps, NoTime
<1>5. \A x \in A : f[x] \in S <=> /\ x.status \in {"HELD", "PARTIAL"}
                                  /\ x.expires_at # -1
                                  /\ Dynamo!TextBefore(x.expires_at, t)
  BY <1>4
<1>6. \A x, y \in A : (f[x] \in S /\ f[y] \in S /\ Dynamo!TextBefore(x.expires_at, y.expires_at))
                        => <<f[x], f[y]>> \in R
  BY <1>4 DEF Dynamo!KeyBefore
<1>7. S \subseteq {f[x] : x \in A}
  BY <1>2
<1> HIDE DEF S, R, A, B, f
<1>8. TimelySelection(f, S, R, t, Unit)
  <2>1. ASSUME NEW x \in A, f[x] \in S PROVE Due(x, t + Unit - 1)
    <3>1. x.expires_at \in Nat /\ x.expires_at < t + Unit
      BY <1>3, <1>4, <1>5, <2>1, TextsInOrder
    <3>2. x.expires_at <= t + Unit - 1
      BY <1>3, <3>1, UnitAssumption
    <3> QED BY <1>5, <2>1, <3>2 DEF Due, NoTime
  <2>2. ASSUME NEW x \in A, Due(x, t - Unit) PROVE f[x] \in S
    <3>1. x.expires_at \in Nat /\ x.status \in {"HELD", "PARTIAL"} /\ x.expires_at # -1
      BY <1>4, <2>2 DEF Due, NoTime
    <3>2. x.expires_at + Unit <= t
      BY <1>3, <2>2, <3>1, UnitAssumption DEF Due
    <3>3. Dynamo!TextBefore(x.expires_at, t)
      BY <1>3, <3>1, <3>2, TextsInOrder
    <3> QED BY <1>5, <3>1, <3>3
  <2>3. ASSUME NEW x \in A, NEW y \in A, f[x] \in S, f[y] \in S, <<f[x], f[y]>> \notin R
        PROVE  y.expires_at < x.expires_at + Unit
    <3>1. /\ x.expires_at \in Nat /\ y.expires_at \in Nat
          /\ ~ Dynamo!TextBefore(x.expires_at, y.expires_at)
      BY <1>4, <1>5, <1>6, <2>3
    <3> QED BY <3>1, TextsInOrder
  <2>4. \A x \in A : f[x].id = x.id
    BY <1>4, SMTT(30)
  <2> QED BY <1>7, <2>1, <2>2, <2>3, <2>4 DEF TimelySelection, A
<1>9. \A q \in PageBy(S, R, PageSize(n)) : ExpiryIsTimely([i \in DOMAIN q |-> q[i].id], t, n, Unit)
  BY <1>8, TimelyPage
<1> QED BY <1>1, <1>9, Zenon DEF PageSize

\* A backend's pending events S, which f makes of CockroachDB's rows, in an
\* order that is right up to u.
OrderedSelection(f, S, R, u) ==
    LET A == crdb.outbox_events
    IN  /\ \A x \in A : f[x].id = x.id
        /\ S \subseteq {f[x] : x \in A}
        /\ \A x \in A : f[x] \in S <=> x.publish_state = "PENDING"
        /\ \A x, y \in A : (f[x] \in S /\ f[y] \in S /\ <<f[x], f[y]>> \notin R)
                              => y.created_at < x.created_at + u

\* The ids on a page of such events pass for an answer of PendingOutbox.
LEMMA OrderedPage ==
    ASSUME IInv, NEW f, NEW S, NEW R, NEW u, OrderedSelection(f, S, R, u),
           NEW n \in Limits, NEW q \in PageBy(S, R, PageSize(n))
    PROVE  OldestFirst([i \in DOMAIN q |-> q[i].id], n, u)
<1> DEFINE A == crdb.outbox_events
           list == [i \in DOMAIN q |-> q[i].id]
           at(id) == (CHOOSE e \in A : e.id = id).created_at
           pending == {e.id : e \in {g \in A : g.publish_state = "PENDING"}}
<1>1. IsFiniteSet(A) /\ OneRowPerId(A)
  BY DEF IInv, TypeInv, FiniteTables, SameInstants
<1>2. /\ \A x \in A : f[x].id = x.id
      /\ S \subseteq {f[x] : x \in A}
      /\ \A x \in A : f[x] \in S <=> x.publish_state = "PENDING"
      /\ \A x, y \in A : (f[x] \in S /\ f[y] \in S /\ <<f[x], f[y]>> \notin R)
                            => y.created_at < x.created_at + u
  BY Zenon DEF OrderedSelection
<1>3. IsFiniteSet(S)
  <2>1. IsFiniteSet({f[x] : x \in A})
    BY <1>1, FiniteImage
  <2> QED BY <1>2, <2>1, FS_Subset
<1>4. /\ Len(q) \in Nat /\ DOMAIN q = 1 .. Len(q)
      /\ \A i \in DOMAIN q : q[i] \in S
      /\ \A i, j \in DOMAIN q : i < j => <<q[j], q[i]>> \notin R
      /\ \A x \in S : \/ \E i \in DOMAIN q : q[i] = x
                      \/ /\ Len(q) = PageSize(n)
                         /\ \A i \in DOMAIN q : <<x, q[i]>> \notin R
  BY <1>3, PageFacts, PageSizes
<1>5. DOMAIN list = DOMAIN q /\ Len(list) = Len(q) /\ \A i \in DOMAIN q : list[i] = q[i].id
  BY <1>4
<1>6. \A x \in A : at(x.id) = x.created_at
  <2> SUFFICES ASSUME NEW x \in A PROVE (CHOOSE e \in A : e.id = x.id) = x
    OBVIOUS
  <2> QED BY <1>1 DEF OneRowPerId
<1>7. ToSet(list) = {q[i].id : i \in DOMAIN q}
  BY <1>5 DEF ToSet
<1>8. \A id \in pending : \E x \in A : x.id = id /\ x.publish_state = "PENDING"
  OBVIOUS
<1>9. \A x \in A : x.publish_state = "PENDING" => x.id \in pending
  OBVIOUS
<1> HIDE DEF A, list, at, pending
<1>10. \A i \in DOMAIN q : \E x \in A : q[i] = f[x] /\ list[i] = x.id /\ at(list[i]) = x.created_at
  <2> SUFFICES ASSUME NEW i \in DOMAIN q
               PROVE  \E x \in A : q[i] = f[x] /\ list[i] = x.id /\ at(list[i]) = x.created_at
    OBVIOUS
  <2>1. PICK x \in A : q[i] = f[x]
    BY <1>2, <1>4
  <2>2. list[i] = x.id
    BY <1>2, <1>5, <2>1
  <2> QED BY <1>6, <2>1, <2>2
<1>11. ToSet(list) \subseteq pending
  <2> SUFFICES ASSUME NEW i \in DOMAIN q PROVE q[i].id \in pending
    BY <1>7
  <2>1. PICK x \in A : q[i] = f[x]
    BY <1>10
  <2> QED BY <1>2, <1>4, <1>9, <2>1
<1>12. ASSUME NEW i \in DOMAIN list, NEW j \in DOMAIN list, i < j
       PROVE  at(list[i]) < at(list[j]) + u
  <2>1. PICK x \in A : q[i] = f[x] /\ at(list[i]) = x.created_at
    BY <1>5, <1>10
  <2>2. PICK y \in A : q[j] = f[y] /\ at(list[j]) = y.created_at
    BY <1>5, <1>10
  <2>3. f[x] \in S /\ f[y] \in S /\ <<f[y], f[x]>> \notin R
    BY <1>4, <1>5, <1>12, <2>1, <2>2
  <2> QED BY <1>2, <2>1, <2>2, <2>3
<1>13. ASSUME NEW id \in pending \ ToSet(list)
       PROVE  Len(list) = PageSize(n) /\ \A i \in DOMAIN list : at(list[i]) < at(id) + u
  <2>1. PICK y \in A : y.id = id /\ y.publish_state = "PENDING"
    BY <1>8
  <2>2. f[y] \in S /\ f[y].id = id /\ at(id) = y.created_at
    BY <1>2, <1>6, <2>1
  <2>3. ~ \E i \in DOMAIN q : q[i] = f[y]
    BY <1>7, <1>13, <2>2
  <2>4. Len(q) = PageSize(n) /\ \A i \in DOMAIN q : <<f[y], q[i]>> \notin R
    BY <1>4, <2>2, <2>3
  <2>5. ASSUME NEW i \in DOMAIN list PROVE at(list[i]) < at(id) + u
    <3>1. PICK x \in A : q[i] = f[x] /\ at(list[i]) = x.created_at
      BY <1>5, <1>10
    <3>2. f[x] \in S /\ <<f[y], f[x]>> \notin R
      BY <1>4, <1>5, <2>4, <3>1
    <3> QED BY <1>2, <2>2, <3>1, <3>2
  <2> QED BY <1>5, <2>4, <2>5
<1> QED BY <1>11, <1>12, <1>13, Zenon DEF OldestFirst, A, list, at, pending

\* The rows of CockroachDB, as they are.
SameEvent == [x \in EventRow |-> x]

\* PendingOutbox of CockroachDB.
LEMMA CrdbOldestFirst ==
    ASSUME IInv, NEW n \in Limits, NEW l \in Crdb!PendingOutbox(crdb, n)
    PROVE  OldestFirst(l, n, 1)
<1> DEFINE A == crdb.outbox_events
           S == {e \in A : e.publish_state = "PENDING"}
           R == {p \in S \X S : p[1].created_at < p[2].created_at}
           k == IF n <= 0 THEN 100 ELSE n
<1>1. Crdb!PendingOutbox(crdb, n) = {[i \in DOMAIN q |-> q[i].id] : q \in PageBy(S, R, k)}
  BY OnePage, ZenonT(60) DEF Crdb!PendingOutbox, Crdb!listPendingOutbox, Crdb!MapPage, Crdb!Page
<1>2. \A x \in A : x.created_at \in Nat /\ SameEvent[x] = x
  BY DEF IInv, TypeInv, SqlTables, SameInstants, Dated, SameEvent
<1>3. OrderedSelection(SameEvent, S, R, 1)
  BY <1>2 DEF OrderedSelection
<1> HIDE DEF S, R
<1>4. \A q \in PageBy(S, R, PageSize(n)) : OldestFirst([i \in DOMAIN q |-> q[i].id], n, 1)
  BY <1>3, OrderedPage
<1> QED BY <1>1, <1>4, Zenon DEF PageSize

\* PendingOutbox of SQLite.
LEMMA SqliteOldestFirst ==
    ASSUME IInv, NEW n \in Limits, NEW l \in Sqlite!PendingOutbox(sqlite, n)
    PROVE  OldestFirst(l, n, Unit)
<1> DEFINE A == crdb.outbox_events
           B == sqlite.outbox_events
           S == {e \in B : e.publish_state = "PENDING"}
           R == {p \in S \X S : p[1].created_at < p[2].created_at}
           k == IF n <= 0 THEN 100 ELSE n
           f == FormatEvent
<1>1. Sqlite!PendingOutbox(sqlite, n) = {[i \in DOMAIN q |-> q[i].id] : q \in PageBy(S, R, k)}
  BY OnePage, ZenonT(60)
     DEF Sqlite!PendingOutbox, Sqlite!listPendingOutbox, Sqlite!MapPage, Sqlite!Page
<1>2. A \in SUBSET EventRow /\ B = {f[x] : x \in A} /\ \A x \in A : x.created_at \in Nat
  BY DEF IInv, TypeInv, SqlTables, SameInstants, Dated
<1>3. ASSUME NEW x \in A
      PROVE  /\ f[x].id = x.id /\ f[x].publish_state = x.publish_state /\ f[x] \in B
             /\ f[x].created_at = x.created_at \div Unit
             /\ x.created_at \in Nat /\ x.created_at \div Unit \in Nat
  <2>1. x \in EventRow /\ x.created_at \in Nat /\ x.created_at \in Stamps
    BY <1>2 DEF Stamps
  <2> QED BY <1>2, <2>1, EventTexts, FormatThenParse
<1>4. \A x \in A : f[x] \in S <=> x.publish_state = "PENDING"
  BY <1>3
<1>5. \A x, y \in A : (f[x] \in S /\ f[y] \in S)
                        => (<<f[x], f[y]>> \in R <=> f[x].created_at < f[y].created_at)
  OBVIOUS
<1>6. S \subseteq {f[x] : x \in A} /\ \A x \in A : f[x].id = x.id
  BY <1>2, <1>3
<1> HIDE DEF S, R, A, B, f
<1>7. ASSUME NEW x \in A, NEW y \in A, f[x] \in S, f[y] \in S, <<f[x], f[y]>> \notin R
      PROVE  y.created_at < x.created_at + Unit
  <2>1. y.created_at \div Unit <= x.created_at \div Unit
    BY <1>3, <1>5, <1>7
  <2> QED BY <1>3, <2>1, UnitsOfInstants
<1>8. OrderedSelection(f, S, R, Unit)
  BY <1>4, <1>6, <1>7 DEF OrderedSelection, A
<1>9. \A q \in PageBy(S, R, PageSize(n)) : OldestFirst([i \in DOMAIN q |-> q[i].id], n, Unit)
  BY <1>8, OrderedPage
<1> QED BY <1>1, <1>9, Zenon DEF PageSize

\* The item of an event.
LEMMA EventItems ==
    ASSUME NEW x \in EventRow
    PROVE  /\ EventItem[x].id = x.id /\ EventItem[x].created_at = x.created_at
           /\ EventItem[x].gsi1 <=> x.publish_state = "PENDING"
<1> DEFINE i == [id |-> x.id, created_at |-> x.created_at,
                 gsi1 |-> x.publish_state = "PENDING", attempts |-> x.attempts]
<1>1. EventItem[x] = i
  BY DEF EventItem
<1>2. i.id = x.id /\ i.created_at = x.created_at
  OBVIOUS
<1>3. i.gsi1 = (x.publish_state = "PENDING")
  BY Zenon
<1> HIDE DEF i
<1> QED BY <1>1, <1>2, <1>3, Zenon

\* PendingOutbox of DynamoDB.
LEMMA DynamoOldestFirst ==
    ASSUME IInv, NEW n \in Limits, NEW l \in Dynamo!PendingOutbox(dynamo, n)
    PROVE  OldestFirst(l, n, Unit)
<1> DEFINE A == crdb.outbox_events
           B == dynamo.outbox
           S == {i \in B : i.gsi1}
           R == {p \in S \X S : Dynamo!Older(p[1], p[2])}
           k == IF n <= 0 THEN 100 ELSE n
           f == EventItem
<1>1. Dynamo!PendingOutbox(dynamo, n) = {[i \in DOMAIN q |-> q[i].id] : q \in PageBy(S, R, k)}
  BY OnePage, ZenonT(60) DEF Dynamo!PendingOutbox, Dynamo!MapPage, Dynamo!Page
<1>2. A \in SUBSET EventRow /\ B = {f[x] : x \in A} /\ \A x \in A : x.created_at \in Nat
  BY DEF IInv, TypeInv, SqlTables, SameInstants, Dated
<1>3. ASSUME NEW x \in A
      PROVE  /\ f[x].id = x.id /\ f[x] \in B /\ f[x].created_at = x.created_at
             /\ f[x].gsi1 <=> x.publish_state = "PENDING"
             /\ x.created_at \in Nat
  BY <1>2, EventItems
<1>4. \A x \in A : f[x] \in S <=> x.publish_state = "PENDING"
  BY <1>3
<1>5. \A x, y \in A : (f[x] \in S /\ f[y] \in S /\ Dynamo!TextBefore(x.created_at, y.created_at))
                        => <<f[x], f[y]>> \in R
  BY <1>3 DEF Dynamo!KeyBefore, Dynamo!Older
<1>6. S \subseteq {f[x] : x \in A} /\ \A x \in A : f[x].id = x.id
  BY <1>2, <1>3
<1> HIDE DEF S, R, A, B, f
<1>7. ASSUME NEW x \in A, NEW y \in A, f[x] \in S, f[y] \in S, <<f[x], f[y]>> \notin R
      PROVE  y.created_at < x.created_at + Unit
  BY <1>3, <1>5, <1>7, TextsInOrder
<1>8. OrderedSelection(f, S, R, Unit)
  BY <1>4, <1>6, <1>7 DEF OrderedSelection, A
<1>9. \A q \in PageBy(S, R, PageSize(n)) : OldestFirst([i \in DOMAIN q |-> q[i].id], n, Unit)
  BY <1>8, OrderedPage
<1> QED BY <1>1, <1>9, Zenon DEF PageSize

\* The texts of instants are in order, up to u.
InOrder(f, u) ==
    \A a, b \in Nat : /\ f[a] \in Nat
                      /\ a <= b => f[a] <= f[b]
                      /\ f[a] <= f[b] => a < b + u

\* A page of one row: a first row, if there is any.
LEMMA FirstRow ==
    ASSUME NEW S, IsFiniteSet(S), NEW R, NEW q \in PageBy(S, R, 1)
    PROVE  /\ Len(q) \in Nat /\ Len(q) <= 1 /\ DOMAIN q = 1 .. Len(q)
           /\ \A i \in DOMAIN q : q[i] \in S
           /\ \A x \in S : \/ \E i \in DOMAIN q : q[i] = x
                           \/ Len(q) = 1 /\ \A i \in DOMAIN q : <<x, q[i]>> \notin R
BY PageFacts

\* The newest rate of an up-to-date table is a rate in force.
LEMMA RatePage ==
    ASSUME NEW T, T \in SUBSET RateRow, IsFiniteSet(T), puts \in Seq(Put),
           NEW f, NEW u, InOrder(f, u), UpToDate(T, f, puts),
           NEW t \in Nat, NEW S, NEW R,
           \A x \in T : x \in S <=> x.effective_at <= f[t],
           \A x \in S : x \in T,
           \A x, y \in S : x.effective_at > y.effective_at => <<x, y>> \in R,
           NEW q \in PageBy(S, R, 1), NEW page, page = [i \in DOMAIN q |-> page[i]],
           \A i \in DOMAIN q : page[i].rate = q[i].rate /\ page[i].source = q[i].source
    PROVE  RateIsInForce(page, t, u)
<1> DEFINE lastPut(i) == \A k \in DOMAIN puts : (k > i /\ puts[k].source = puts[i].source)
                                                  => puts[k].effective_at # puts[i].effective_at
<1>1. IsFiniteSet(S)
  BY FS_Subset
<1>2. /\ Len(q) \in Nat /\ Len(q) <= 1 /\ DOMAIN q = 1 .. Len(q)
      /\ \A i \in DOMAIN q : q[i] \in S
      /\ \A x \in S : \/ \E i \in DOMAIN q : q[i] = x
                      \/ Len(q) = 1 /\ \A i \in DOMAIN q : <<x, q[i]>> \notin R
  BY <1>1, FirstRow, Zenon
<1>3. \A i \in DOMAIN puts : puts[i] \in Put /\ puts[i].effective_at \in Nat
  <2>1. \A i \in DOMAIN puts : puts[i] \in Put
    OBVIOUS
  <2> QED BY <2>1, BoundsAssumption DEF Put, Instants
<1>4. ASSUME NEW k \in DOMAIN puts, puts[k].effective_at <= t
      PROVE  \E x \in S : x.effective_at = f[puts[k].effective_at]
  <2>1. PICK x \in T : x.effective_at = f[puts[k].effective_at]
    BY Zenon DEF UpToDate
  <2>2. f[puts[k].effective_at] <= f[t]
    BY <1>3, <1>4 DEF InOrder
  <2> QED BY <2>1, <2>2
<1>5. CASE page = <<>>
  <2>1. DOMAIN q = {}
    BY <1>5
  <2>2. \A x : x \notin S
    BY <1>2, <2>1
  <2>3. \A i \in DOMAIN puts : puts[i].effective_at > t
    BY <1>3, <1>4, <2>2
  <2> QED BY <1>5, <2>3, Zenon DEF RateIsInForce
<1>6. CASE page # <<>>
  <2>1. Len(q) = 1 /\ DOMAIN q = {1}
    <3>1. DOMAIN page = {} => page = <<>>
      OBVIOUS
    <3> QED BY <1>2, <1>6, <3>1
  <2>2. q[1] \in S /\ q[1] \in T /\ page[1].rate = q[1].rate /\ page[1].source = q[1].source
    BY <1>2, <2>1
  <2>3. PICK i \in DOMAIN puts :
           /\ puts[i].source = q[1].source /\ puts[i].rate = q[1].rate
           /\ q[1].effective_at = f[puts[i].effective_at]
           /\ \A k \in DOMAIN puts :
                 (k > i /\ puts[k].source = puts[i].source)
                   => f[puts[k].effective_at] # f[puts[i].effective_at]
    BY <2>2, Zenon DEF UpToDate
  <2>4. lastPut(i)
    BY <2>3
  <2>5. puts[i].effective_at < t + u
    <3>1. f[puts[i].effective_at] <= f[t]
      BY <2>2, <2>3
    <3> QED BY <1>3, <3>1 DEF InOrder
  <2>6. ASSUME NEW k \in DOMAIN puts, puts[k].effective_at <= t
        PROVE  puts[k].effective_at < puts[i].effective_at + u
    <3>1. PICK x \in S : x.effective_at = f[puts[k].effective_at]
      BY <1>4, <2>6
    <3>2. x = q[1] \/ <<x, q[1]>> \notin R
      BY <1>2, <2>1
    <3>3. ~ (x.effective_at > q[1].effective_at)
      <4>1. x.effective_at \in Nat
        BY <1>3, <3>1 DEF InOrder
      <4> QED BY <2>2, <3>2, <4>1
    <3>4. f[puts[k].effective_at] <= f[puts[i].effective_at]
      <4>1. f[puts[k].effective_at] \in Nat /\ f[puts[i].effective_at] \in Nat
        BY <1>3 DEF InOrder
      <4> QED BY <2>3, <3>1, <3>3, <4>1
    <3> QED BY <1>3, <3>4 DEF InOrder
  <2>7. puts[i].rate = page[1].rate /\ puts[i].source = page[1].source
    BY <2>2, <2>3
  <2> QED BY <1>6, <2>4, <2>5, <2>6, <2>7, Zenon DEF RateIsInForce
<1> QED BY <1>5, <1>6

\* GetFXRateAt of CockroachDB.
LEMMA CrdbRateInForce ==
    ASSUME IInv, NEW t \in Instants, NEW p \in Crdb!GetFXRateAt(crdb, "EUR", t)
    PROVE  RateIsInForce(p, t, 1)
<1> DEFINE T == crdb.fx_rates
           S == {r \in T : r.base = "EUR" /\ r.effective_at <= t}
           R == {z \in S \X S : Crdb!NewestRate(z[1], z[2])}
<1>1. Crdb!GetFXRateAt(crdb, "EUR", t)
        = {[i \in DOMAIN q |-> Crdb!rowToFXRate(q[i])] : q \in PageBy(S, R, 1)}
  BY OnePage, Zenon DEF Crdb!GetFXRateAt, Crdb!getFXRateAt, Crdb!MapPage, Crdb!Page
<1>2. /\ T \in SUBSET RateRow /\ IsFiniteSet(T) /\ puts \in Seq(Put) /\ UpToDate(T, Kept, puts)
  BY DEF IInv, TypeInv, SqlTables, FiniteTables, RatesUpToDate
<1>3. InOrder(Kept, 1)
  BY DEF InOrder, Kept
<1>4. t \in Nat /\ Kept[t] = t
  BY BoundsAssumption DEF Instants, Kept
<1>5. /\ \A x \in T : x \in S <=> x.effective_at <= Kept[t]
      /\ \A x \in S : x \in T
      /\ \A x, y \in S : x.effective_at > y.effective_at => <<x, y>> \in R
  BY <1>2, <1>4 DEF RateRow, Crdb!NewestRate
<1>6. \A x \in T : Crdb!rowToFXRate(x) = x
  BY <1>2, RateRows
<1> HIDE DEF S, R, T
<1>7. PICK q \in PageBy(S, R, 1) : p = [i \in DOMAIN q |-> Crdb!rowToFXRate(q[i])]
  BY <1>1, Zenon
<1>8. \A i \in DOMAIN q : q[i] \in T
  <2>1. IsFiniteSet(S)
    BY <1>2, <1>5, FS_Subset
  <2> QED BY <1>5, <2>1, PageFacts
<1>9. /\ p = [i \in DOMAIN q |-> p[i]]
      /\ \A i \in DOMAIN q : p[i].rate = q[i].rate /\ p[i].source = q[i].source
  BY <1>6, <1>7, <1>8
<1> QED BY <1>2, <1>3, <1>4, <1>5, <1>9, RatePage

\* GetFXRateAt of SQLite.
LEMMA SqliteRateInForce ==
    ASSUME IInv, NEW t \in Instants, NEW p \in Sqlite!GetFXRateAt(sqlite, "EUR", t)
    PROVE  RateIsInForce(p, t, Unit)
<1> DEFINE T == sqlite.fx_rates
           v == Sqlite!sqliteTimeFormat(t)
           S == {r \in T : r.base = "EUR" /\ r.effective_at <= v}
           R == {z \in S \X S : Sqlite!NewestRate(z[1], z[2])}
<1>1. Sqlite!GetFXRateAt(sqlite, "EUR", t)
        = {[i \in DOMAIN q |-> Sqlite!rowToFXRate(q[i])] : q \in PageBy(S, R, 1)}
  BY OnePage, Zenon DEF Sqlite!GetFXRateAt, Sqlite!getFXRateAt, Sqlite!MapPage, Sqlite!Page
<1>2. /\ T \in SUBSET RateRow /\ IsFiniteSet(T) /\ puts \in Seq(Put) /\ UpToDate(T, Cut, puts)
  BY DEF IInv, SameTables, SqlTables, FiniteTables, RatesUpToDate
<1>3. InOrder(Cut, Unit)
  <2>1. \A a \in Nat : Cut[a] = a \div Unit /\ a \div Unit \in Nat
    BY UnitOf DEF Cut
  <2> QED BY <2>1, UnitsOfInstants DEF InOrder
<1>4. t \in Nat /\ Cut[t] = v
  BY BoundsAssumption, FormatThenParse DEF Instants, Stamps, Cut
<1>5. /\ \A x \in T : x \in S <=> x.effective_at <= Cut[t]
      /\ \A x \in S : x \in T
      /\ \A x, y \in S : x.effective_at > y.effective_at => <<x, y>> \in R
  BY <1>2, <1>4 DEF RateRow, Sqlite!NewestRate
<1>6. \A x \in T : Sqlite!rowToFXRate(x).rate = x.rate /\ Sqlite!rowToFXRate(x).source = x.source
  BY <1>2 DEF RateRow, Sqlite!rowToFXRate
<1> HIDE DEF S, R, T, v
<1>7. PICK q \in PageBy(S, R, 1) : p = [i \in DOMAIN q |-> Sqlite!rowToFXRate(q[i])]
  BY <1>1, Zenon
<1>8. \A i \in DOMAIN q : q[i] \in T
  <2>1. IsFiniteSet(S)
    BY <1>2, <1>5, FS_Subset
  <2> QED BY <1>5, <2>1, PageFacts
<1>9. /\ p = [i \in DOMAIN q |-> p[i]]
      /\ \A i \in DOMAIN q : p[i].rate = q[i].rate /\ p[i].source = q[i].source
  BY <1>6, <1>7, <1>8
<1> QED BY <1>2, <1>3, <1>4, <1>5, <1>9, RatePage

\* The invariant makes every backend right up to its resolution.
LEMMA IInvRight == IInv => RightUpToResolution
BY CrdbExpiryTimely, SqliteExpiryTimely, DynamoExpiryTimely, CrdbRateInForce, SqliteRateInForce,
   CrdbOldestFirst, SqliteOldestFirst, DynamoOldestFirst, Zenon DEF RightUpToResolution

\* What a backend does to instants shifts its answers by less than one of its
\* own units, however coarse the unit and whatever the page size: expiry is
\* neither early nor late by more, an exchange gets a rate in force as it was
\* last put, and events leave in the order they came.
THEOREM RightUpToResolutionCorrect == Spec => []RightUpToResolution
BY IInvAlways, IInvRight, PTL
=============================================================================
