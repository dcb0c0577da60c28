--------------------------- MODULE LedgerTheorems ---------------------------
(***************************************************************************)
(* What the operators of Ledger compute, for every set of accounts and     *)
(* requests: a request adds nothing to an account it does not name, a      *)
(* history's totals grow by what is posted, and a request that             *)
(* Journal.Validate accepts, on accounts of the entries' currencies, adds  *)
(* as much to the debits of each currency as to its credits.               *)
(***************************************************************************)
EXTENDS Ledger, SumTheorems

Sides == {"DEBIT", "CREDIT"}

AmountAt(r) == [p \in Places(r) |-> EntryAt(r, p).amount]

\* The entries of one side of an account.
PlacesOf(r, a, side) ==
    {p \in Places(r) : EntryAt(r, p).account = a /\ EntryAt(r, p).direction = side}

\* DebitOf and CreditOf, by side.
SideOf(r, a, side) == SumFunctionOnSet(AmountAt(r), PlacesOf(r, a, side))

\* The same for one step of the request and one currency.
StepSide(es, ccy, side) ==
    Total(es, LAMBDA e : e.currency = ccy /\ e.direction = side)

\* The table after a request has been posted (executeFlowInTx).
Adds(r, book, new) ==
    \A a \in Accounts : /\ new[a].debits = book[a].debits + DebitOf(r, a)
                        /\ new[a].credits = book[a].credits + CreditOf(r, a)

-----------------------------------------------------------------------------
(* The entries of a request.                                               *)

\* DebitOf and CreditOf (the two accumulators of executeFlowInTx) are the
\* same sum over two sides.
LEMMA SidesAre ==
    ASSUME NEW r, NEW a
    PROVE  DebitOf(r, a) = SideOf(r, a, "DEBIT") /\ CreditOf(r, a) = SideOf(r, a, "CREDIT")
BY DEF DebitOf, CreditOf, RequestTotal, SideOf, AmountAt, PlacesOf

\* The steps of a request (ExecuteFlowRequest) and their entries.
LEMMA StepShape ==
    ASSUME NEW r \in Requests
    PROVE  /\ r.steps \in Seq([event : STRING, entries : Seq(EntryType)])
           /\ \A i \in DOMAIN r.steps : r.steps[i].entries \in Seq(EntryType)
<1>1. r \in [key : STRING, steps : Seq([event : STRING, entries : Seq(EntryType)])]
  BY RequestShape
<1>2. r.steps \in Seq([event : STRING, entries : Seq(EntryType)])
  BY <1>1
<1>3. ASSUME NEW T, NEW s \in Seq(T), NEW i \in DOMAIN s PROVE s[i] \in T
  OBVIOUS
<1>4. \A i \in DOMAIN r.steps : r.steps[i] \in [event : STRING, entries : Seq(EntryType)]
  BY <1>2, <1>3
<1> QED BY <1>2, <1>4

\* The places of a sequence are finitely many.
LEMMA DomainFinite ==
    ASSUME NEW X, NEW s \in Seq(X)
    PROVE  DOMAIN s = 1 .. Len(s) /\ IsFiniteSet(DOMAIN s) /\ Len(s) \in Nat
<1>1. DOMAIN s = 1 .. Len(s) /\ Len(s) \in Nat
  OBVIOUS
<1> QED BY <1>1, FS_Interval

\* A request has finitely many entries, all well formed (NewEntry).
LEMMA PlacesFinite ==
    ASSUME NEW r \in Requests
    PROVE  IsFiniteSet(Places(r)) /\ \A p \in Places(r) : EntryAt(r, p) \in EntryType
<1> DEFINE D == DOMAIN r.steps
           f == [i \in D |-> {i} \X DOMAIN r.steps[i].entries]
           U == {f[i] : i \in D}
<1>1. IsFiniteSet(D) /\ \A i \in D : IsFiniteSet(DOMAIN r.steps[i].entries)
  BY StepShape, DomainFinite
<1>2. \A i \in D : IsFiniteSet(f[i])
  <2> SUFFICES ASSUME NEW i \in D PROVE IsFiniteSet({i} \X DOMAIN r.steps[i].entries)
    OBVIOUS
  <2>1. IsFiniteSet({i})
    BY FS_Singleton
  <2> QED BY <1>1, <2>1, FS_Product
<1>3. f \in Surjection(D, U)
  BY DEF Surjection
<1>4. IsFiniteSet(U) /\ \A T \in U : IsFiniteSet(T)
  <2> HIDE DEF f
  <2>1. \A T \in U : IsFiniteSet(T)
    BY <1>2
  <2> HIDE DEF U
  <2> QED BY <1>1, <1>3, <2>1, FS_Surjection
<1>5. Places(r) = UNION U
  BY DEF Places
<1>6. IsFiniteSet(Places(r))
  <2> HIDE DEF U
  <2> QED BY <1>4, <1>5, FS_UNION
<1>7. ASSUME NEW p \in Places(r) PROVE EntryAt(r, p) \in EntryType
  <2>1. PICK i \in D : p \in {i} \X DOMAIN r.steps[i].entries
    BY DEF Places
  <2>2. p[1] = i /\ p[2] \in DOMAIN r.steps[i].entries
    BY <2>1
  <2>3. r.steps[i].entries \in Seq(EntryType)
    BY StepShape
  <2> QED BY <2>2, <2>3 DEF EntryAt
<1> QED BY <1>6, <1>7

\* The entries, as a set and by place.
LEMMA EntriesAre ==
    ASSUME NEW r \in Requests
    PROVE  EntrySet(r) = {EntryAt(r, p) : p \in Places(r)}
<1>1. ASSUME NEW p \in Places(r) PROVE EntryAt(r, p) \in EntrySet(r)
  <2>1. PICK i \in DOMAIN r.steps : p \in {i} \X DOMAIN r.steps[i].entries
    BY DEF Places
  <2>2. p[1] = i /\ p[2] \in DOMAIN r.steps[i].entries
    BY <2>1
  <2> QED BY <2>2 DEF EntryAt, EntrySet, Range
<1>2. ASSUME NEW e \in EntrySet(r) PROVE \E p \in Places(r) : e = EntryAt(r, p)
  <2>1. PICK i \in DOMAIN r.steps : e \in Range(r.steps[i].entries)
    BY DEF EntrySet
  <2>2. PICK k \in DOMAIN r.steps[i].entries : e = r.steps[i].entries[k]
    BY <2>1 DEF Range
  <2>3. <<i, k>> \in Places(r) /\ EntryAt(r, <<i, k>>) = e
    BY <2>2 DEF Places, EntryAt
  <2> QED BY <2>3
<1> QED BY <1>1, <1>2

\* The accounts that executeFlowInTx locks are accounts; amounts are
\* integers.
LEMMA NamedAccounts ==
    ASSUME NEW r \in Requests
    PROVE  AccountsOf(r) \subseteq Accounts
BY EntriesAre, PlacesFinite DEF AccountsOf, EntryType

\* Amounts are integers, and positive ones where ParseAmount took them.
LEMMA AmountsAre ==
    ASSUME NEW r \in Requests
    PROVE  /\ \A p \in Places(r) : AmountAt(r)[p] = EntryAt(r, p).amount
           /\ \A p \in Places(r) : AmountAt(r)[p] \in Int
           /\ Parses(r) => \A p \in Places(r) : AmountAt(r)[p] \in Nat
BY EntriesAre, PlacesFinite DEF AmountAt, EntryType, Parses

\* What a request adds to one side of an account is an integer, a natural
\* number once its amounts parse, and nothing when it does not name the
\* account.
LEMMA SideType ==
    ASSUME NEW r \in Requests, NEW a, NEW side
    PROVE  /\ IsFiniteSet(PlacesOf(r, a, side))
           /\ SideOf(r, a, side) \in Int
           /\ Parses(r) => SideOf(r, a, side) \in Nat
           /\ a \notin AccountsOf(r) => SideOf(r, a, side) = 0
<1>1. PlacesOf(r, a, side) \subseteq Places(r)
  BY DEF PlacesOf
<1>2. IsFiniteSet(PlacesOf(r, a, side))
  BY <1>1, PlacesFinite, FS_Subset
<1>3. SideOf(r, a, side) \in Int
  BY <1>1, <1>2, AmountsAre, SumInt DEF SideOf
<1>4. Parses(r) => SideOf(r, a, side) \in Nat
  BY <1>1, <1>2, AmountsAre, SumNat DEF SideOf
<1>5. a \notin AccountsOf(r) => PlacesOf(r, a, side) = {}
  BY EntriesAre DEF PlacesOf, AccountsOf
<1>6. a \notin AccountsOf(r) => SideOf(r, a, side) = 0
  BY <1>5, SumEmpty DEF SideOf
<1> QED BY <1>2, <1>3, <1>4, <1>6

\* The two accumulators of executeFlowInTx.
LEMMA RequestTotals ==
    ASSUME NEW r \in Requests
    PROVE  /\ AccountsOf(r) \subseteq Accounts
           /\ \A a : DebitOf(r, a) \in Int /\ CreditOf(r, a) \in Int
           /\ Parses(r) => \A a : DebitOf(r, a) \in Nat /\ CreditOf(r, a) \in Nat
           /\ \A a : a \notin AccountsOf(r) => DebitOf(r, a) = 0 /\ CreditOf(r, a) = 0
BY NamedAccounts, SideType, SidesAre

-----------------------------------------------------------------------------
(* A valid request is balanced in every currency.                          *)

\* The entries of a currency and a side.
InSide(r, ccy, side) ==
    {p \in Places(r) : EntryAt(r, p).currency = ccy /\ EntryAt(r, p).direction = side}

\* Counted by account: the accounts of the currency receive all of it, since
\* the flow is refused unless every account carries its entries' currency.
LEMMA SideByAccount ==
    ASSUME NEW r \in Requests, \A a \in AccountsOf(r) : CurrencyMatches(r, a),
           NEW ccy, NEW side
    PROVE  SumFunctionOnSet(AmountAt(r), InSide(r, ccy, side))
             = SumFunctionOnSet([a \in Accounts |-> SideOf(r, a, side)], InCurrency(ccy))
<1> DEFINE S == InSide(r, ccy, side)
           f == AmountAt(r)
           J == InCurrency(ccy)
           p == [x \in Places(r) |-> EntryAt(r, x).account]
           g == [a \in Accounts |-> SideOf(r, a, side)]
<1>1. IsFiniteSet(S) /\ (\A x \in S : f[x] \in Int)
  <2>1. S \subseteq Places(r)
    BY DEF InSide
  <2> QED BY <2>1, PlacesFinite, AmountsAre, FS_Subset
<1>2. IsFiniteSet(J) /\ J \subseteq Accounts
  <2>1. J \subseteq Accounts
    BY DEF InCurrency
  <2> QED BY <2>1, AccountsAssumption, FS_Subset
<1>3. \A x \in Places(r) : /\ p[x] \in Accounts
                           /\ EntryAt(r, x).currency = Info[p[x]].currency
  BY PlacesFinite, EntriesAre DEF AccountsOf, CurrencyMatches, EntryType
<1>4. \A x \in S : p[x] \in J
  BY <1>3 DEF InSide, InCurrency
<1>5. \A i \in J : g[i] = SumFunctionOnSet(f, {x \in S : p[x] = i})
  <2> SUFFICES ASSUME NEW i \in J
               PROVE  g[i] = SumFunctionOnSet(f, {x \in S : p[x] = i})
    OBVIOUS
  <2>1. {x \in S : p[x] = i} = PlacesOf(r, i, side)
    BY <1>3 DEF InSide, InCurrency, PlacesOf
  <2>2. g[i] = SumFunctionOnSet(f, PlacesOf(r, i, side))
    BY <1>2 DEF SideOf
  <2> HIDE DEF S, f, p, g, J
  <2> QED BY <2>1, <2>2, Zenon
<1> HIDE DEF S, f, J, p, g
<1>6. GroupedBy(p, f, S, g, J)
  BY <1>4, <1>5, Zenon DEF GroupedBy
<1>7. SumFunctionOnSet(f, S) = SumFunctionOnSet(g, J)
  BY <1>1, <1>2, <1>6, SumGroups
<1> QED BY <1>7 DEF S, f, J, g

\* Counted by step: the totals that Journal.Validate compares.
LEMMA SideByStep ==
    ASSUME NEW r \in Requests, NEW ccy, NEW side
    PROVE  SumFunctionOnSet(AmountAt(r), InSide(r, ccy, side))
             = SumFunctionOnSet([i \in DOMAIN r.steps |-> StepSide(r.steps[i].entries, ccy, side)],
                                DOMAIN r.steps)
<1> DEFINE S == InSide(r, ccy, side)
           f == AmountAt(r)
           J == DOMAIN r.steps
           p == [x \in Places(r) |-> x[1]]
           g == [i \in J |-> StepSide(r.steps[i].entries, ccy, side)]
<1>1. IsFiniteSet(S) /\ (\A x \in S : f[x] \in Int)
  <2>1. S \subseteq Places(r)
    BY DEF InSide
  <2> QED BY <2>1, PlacesFinite, AmountsAre, FS_Subset
<1>2. IsFiniteSet(J)
  BY StepShape, DomainFinite
<1>3. \A x \in S : p[x] \in J
  BY DEF InSide, Places
<1>4. \A i \in J : g[i] = SumFunctionOnSet(f, {x \in S : p[x] = i})
  <2> SUFFICES ASSUME NEW i \in J
               PROVE  g[i] = SumFunctionOnSet(f, {x \in S : p[x] = i})
    OBVIOUS
  <2> DEFINE es == r.steps[i].entries
             K == {k \in DOMAIN es : es[k].currency = ccy /\ es[k].direction = side}
             h == [k \in DOMAIN es |-> es[k].amount]
             q == [k \in DOMAIN es |-> <<i, k>>]
             Fibre == {x \in S : p[x] = i}
  <2>1. \A k \in DOMAIN es : <<i, k>> \in Places(r) /\ EntryAt(r, <<i, k>>) = es[k]
    BY DEF Places, EntryAt
  <2>2. IsFiniteSet(K)
    <3>1. IsFiniteSet(DOMAIN es)
      BY StepShape, DomainFinite
    <3> QED BY <3>1, FS_Subset
  <2>3. \A k, l \in K : q[k] = q[l] => k = l
    OBVIOUS
  <2>4. \A k \in K : f[q[k]] = h[k] /\ h[k] \in Int
    BY <2>1, AmountsAre
  <2>5. {q[k] : k \in K} = Fibre
    <3>1. ASSUME NEW k \in K PROVE q[k] \in Fibre
      BY <2>1 DEF InSide
    <3>2. ASSUME NEW x \in Fibre PROVE \E k \in K : x = q[k]
      <4>1. x \in Places(r) /\ x[1] = i
        BY DEF InSide
      <4>2. PICK j \in J : x \in {j} \X DOMAIN r.steps[j].entries
        BY <4>1 DEF Places
      <4>3. x = <<i, x[2]>> /\ x[2] \in DOMAIN es
        BY <4>1, <4>2
      <4>4. EntryAt(r, x) = es[x[2]]
        BY <4>1 DEF EntryAt
      <4>5. x[2] \in K
        BY <4>3, <4>4 DEF InSide
      <4> QED BY <4>3, <4>5
    <3> QED BY <3>1, <3>2
  <2>6. g[i] = SumFunctionOnSet(h, K)
    BY DEF StepSide, Total
  <2> HIDE DEF K, h, q, Fibre, f, g
  <2>7. SumFunctionOnSet(f, {q[k] : k \in K}) = SumFunctionOnSet(h, K)
    BY <2>2, <2>3, <2>4, SumRename
  <2>8. g[i] = SumFunctionOnSet(f, Fibre)
    BY <2>5, <2>6, <2>7, Zenon
  <2> QED BY <2>8, Zenon DEF Fibre
<1> HIDE DEF S, f, J, p, g
<1>5. GroupedBy(p, f, S, g, J)
  BY <1>3, <1>4, Zenon DEF GroupedBy
<1>6. SumFunctionOnSet(f, S) = SumFunctionOnSet(g, J)
  BY <1>1, <1>2, <1>5, SumGroups
<1> QED BY <1>6 DEF S, f, J, g

\* Journal.Validate: the two sides of a step agree in every currency, named
\* by the step or not.
LEMMA ValidStep ==
    ASSUME NEW step, Validate(step), NEW ccy
    PROVE  StepSide(step.entries, ccy, "DEBIT") = StepSide(step.entries, ccy, "CREDIT")
<1> DEFINE es == step.entries
           K(side) == {i \in DOMAIN es : es[i].currency = ccy /\ es[i].direction = side}
           f == [i \in DOMAIN es |-> es[i].amount]
<1>1. CASE ccy \in CurrenciesOf(es)
  BY <1>1 DEF Validate, StepSide
<1>2. CASE ccy \notin CurrenciesOf(es)
  <2>1. K("DEBIT") = {} /\ K("CREDIT") = {}
    BY <1>2 DEF CurrenciesOf
  <2>2. /\ StepSide(es, ccy, "DEBIT") = SumFunctionOnSet(f, K("DEBIT"))
        /\ StepSide(es, ccy, "CREDIT") = SumFunctionOnSet(f, K("CREDIT"))
    BY DEF StepSide, Total
  <2> HIDE DEF K, f
  <2> QED BY <2>1, <2>2, SumEmpty
<1> QED BY <1>1, <1>2

\* A request that passes the checks of executeFlowInTx adds as much to the
\* debits of each currency as to its credits.
LEMMA ValidIsBalanced ==
    ASSUME NEW r \in Requests, Valid(r),
           \A a \in AccountsOf(r) : CurrencyMatches(r, a), NEW ccy
    PROVE  SumFunctionOnSet([a \in Accounts |-> DebitOf(r, a)], InCurrency(ccy))
             = SumFunctionOnSet([a \in Accounts |-> CreditOf(r, a)], InCurrency(ccy))
<1> DEFINE d == [a \in Accounts |-> SideOf(r, a, "DEBIT")]
           c == [a \in Accounts |-> SideOf(r, a, "CREDIT")]
           sd == [i \in DOMAIN r.steps |-> StepSide(r.steps[i].entries, ccy, "DEBIT")]
           sc == [i \in DOMAIN r.steps |-> StepSide(r.steps[i].entries, ccy, "CREDIT")]
<1>1. /\ [a \in Accounts |-> DebitOf(r, a)] = d
      /\ [a \in Accounts |-> CreditOf(r, a)] = c
  BY SidesAre
<1>2. sd = sc
  BY ValidStep DEF Valid
<1>3. SumFunctionOnSet(d, InCurrency(ccy)) = SumFunctionOnSet(sd, DOMAIN r.steps)
  BY SideByAccount, SideByStep
<1>4. SumFunctionOnSet(c, InCurrency(ccy)) = SumFunctionOnSet(sc, DOMAIN r.steps)
  BY SideByAccount, SideByStep
<1> HIDE DEF d, c, sd, sc
<1> QED BY <1>1, <1>2, <1>3, <1>4

-----------------------------------------------------------------------------
(* Histories.                                                              *)

\* The totals of a history are integers, and zero for an empty one.
LEMMA PostedType ==
    ASSUME NEW posted \in Seq(Requests), NEW a
    PROVE  PostedDebits(posted, a) \in Int /\ PostedCredits(posted, a) \in Int
<1>1. IsFiniteSet(DOMAIN posted)
  BY DomainFinite
<1>2. \A i \in DOMAIN posted : posted[i] \in Requests
  OBVIOUS
<1>3. \A i \in DOMAIN posted : /\ DebitOf(posted[i], a) \in Int
                               /\ CreditOf(posted[i], a) \in Int
  BY <1>2, RequestTotals
<1> QED BY <1>1, <1>3, SumInt DEF PostedDebits, PostedCredits

\* Before anything is posted every total is zero.
LEMMA PostedEmpty ==
    ASSUME NEW a
    PROVE  PostedDebits(<<>>, a) = 0 /\ PostedCredits(<<>>, a) = 0
<1>1. DOMAIN <<>> = {}
  OBVIOUS
<1> DEFINE d == [i \in DOMAIN <<>> |-> DebitOf(<<>>[i], a)]
           c == [i \in DOMAIN <<>> |-> CreditOf(<<>>[i], a)]
<1>2. PostedDebits(<<>>, a) = SumFunctionOnSet(d, DOMAIN <<>>)
  BY DEF PostedDebits
<1>3. PostedCredits(<<>>, a) = SumFunctionOnSet(c, DOMAIN <<>>)
  BY DEF PostedCredits
<1> HIDE DEF d, c
<1> QED BY <1>1, <1>2, <1>3, SumEmpty

\* Posting a request adds its totals to those of the history.
LEMMA PostedAppend ==
    ASSUME NEW posted \in Seq(Requests), NEW r \in Requests, NEW a
    PROVE  /\ PostedDebits(Append(posted, r), a) = PostedDebits(posted, a) + DebitOf(r, a)
           /\ PostedCredits(Append(posted, r), a) = PostedCredits(posted, a) + CreditOf(r, a)
<1> DEFINE n == Len(posted)
           m == n + 1
           D == DOMAIN posted
           all == Append(posted, r)
           d == [i \in DOMAIN posted |-> DebitOf(posted[i], a)]
           c == [i \in DOMAIN posted |-> CreditOf(posted[i], a)]
           e == [i \in DOMAIN all |-> DebitOf(all[i], a)]
           k == [i \in DOMAIN all |-> CreditOf(all[i], a)]
<1>1. /\ D = 1 .. n /\ IsFiniteSet(D) /\ n \in Nat
      /\ DOMAIN all = D \cup {m} /\ m \notin D
      /\ all[m] = r /\ \A i \in D : all[i] = posted[i]
  BY DomainFinite
<1>2. \A i \in D : posted[i] \in Requests
  OBVIOUS
<1>3. /\ \A i \in D : e[i] = d[i] /\ k[i] = c[i]
      /\ \A i \in D \cup {m} : e[i] \in Int /\ k[i] \in Int
      /\ e[m] = DebitOf(r, a) /\ k[m] = CreditOf(r, a)
  BY <1>1, <1>2, RequestTotals
<1>4. /\ PostedDebits(all, a) = SumFunctionOnSet(e, DOMAIN all)
      /\ PostedCredits(all, a) = SumFunctionOnSet(k, DOMAIN all)
      /\ PostedDebits(posted, a) = SumFunctionOnSet(d, D)
      /\ PostedCredits(posted, a) = SumFunctionOnSet(c, D)
  BY DEF PostedDebits, PostedCredits
<1> HIDE DEF n, m, D, all, d, c, e, k
<1>5. /\ IsFiniteSet(D) /\ m \notin D
      /\ \A i \in D \cup {m} : e[i] \in Int
      /\ \A i \in D \cup {m} : k[i] \in Int
  BY <1>1, <1>3
<1>8. /\ SumFunctionOnSet(e, D \cup {m}) = SumFunctionOnSet(e, D) + e[m]
      /\ SumFunctionOnSet(k, D \cup {m}) = SumFunctionOnSet(k, D) + k[m]
  BY <1>5, SumAdd, Zenon
<1>6. /\ SumFunctionOnSet(e, D) = SumFunctionOnSet(d, D)
      /\ SumFunctionOnSet(k, D) = SumFunctionOnSet(c, D)
  BY <1>1, <1>3, SumSame
<1>7. /\ PostedDebits(all, a) = SumFunctionOnSet(e, D \cup {m})
      /\ PostedCredits(all, a) = SumFunctionOnSet(k, D \cup {m})
  BY <1>1, <1>4, Zenon
<1> QED BY <1>3, <1>4, <1>6, <1>7, <1>8 DEF all

\* A prefix of a history stays one when a request is posted.
LEMMA PrefixAppend ==
    ASSUME NEW X, NEW s \in Seq(X), NEW x \in X, NEW n \in 0 .. Len(s)
    PROVE  SubSeq(Append(s, x), 1, n) = SubSeq(s, 1, n) /\ SubSeq(s, 1, n) \in Seq(X)
OBVIOUS

\* A sequence is its own longest prefix.
LEMMA WholePrefix ==
    ASSUME NEW X, NEW s \in Seq(X)
    PROVE  SubSeq(s, 1, Len(s)) = s
OBVIOUS

-----------------------------------------------------------------------------
(* The books.                                                              *)

\* Rewriting the rows of the named accounts (UpdateBalance) adds the request
\* to the table.
LEMMA RewriteAdds ==
    ASSUME NEW r \in Requests, NEW book, NEW new,
           \A a \in Accounts : book[a].debits \in Int /\ book[a].credits \in Int,
           \A a \in Accounts :
              IF a \in AccountsOf(r)
              THEN /\ new[a].debits = book[a].debits + DebitOf(r, a)
                   /\ new[a].credits = book[a].credits + CreditOf(r, a)
              ELSE new[a] = book[a]
    PROVE  Adds(r, book, new)
<1> SUFFICES ASSUME NEW a \in Accounts
             PROVE  /\ new[a].debits = book[a].debits + DebitOf(r, a)
                    /\ new[a].credits = book[a].credits + CreditOf(r, a)
  BY DEF Adds
<1>1. CASE a \in AccountsOf(r)
  BY <1>1
<1>2. CASE a \notin AccountsOf(r)
  BY <1>2, RequestTotals
<1> QED BY <1>1, <1>2

\* The table still shows what the history adds up to.
LEMMA MatchStep ==
    ASSUME NEW posted \in Seq(Requests), NEW r \in Requests, NEW book, NEW new,
           BooksMatch(book, posted), Adds(r, book, new)
    PROVE  BooksMatch(new, Append(posted, r))
BY PostedAppend DEF BooksMatch, Adds

\* The books still balance after a flow that passed the checks.
LEMMA BalanceStep ==
    ASSUME NEW r \in Requests, Valid(r),
           \A a \in AccountsOf(r) : CurrencyMatches(r, a),
           NEW book, NEW new, BooksBalance(book), Adds(r, book, new),
           \A a \in Accounts : book[a].debits \in Int /\ book[a].credits \in Int
    PROVE  BooksBalance(new)
<1> SUFFICES ASSUME NEW ccy \in {Info[a].currency : a \in Accounts}
             PROVE  SumFunctionOnSet([a \in Accounts |-> new[a].debits], InCurrency(ccy))
                      = SumFunctionOnSet([a \in Accounts |-> new[a].credits], InCurrency(ccy))
  BY DEF BooksBalance
<1> DEFINE d == [a \in Accounts |-> book[a].debits]
           c == [a \in Accounts |-> book[a].credits]
           dr == [a \in Accounts |-> DebitOf(r, a)]
           cr == [a \in Accounts |-> CreditOf(r, a)]
           nd == [a \in Accounts |-> new[a].debits]
           nc == [a \in Accounts |-> new[a].credits]
           S == InCurrency(ccy)
<1>1. S \subseteq Accounts /\ IsFiniteSet(S)
  <2>1. S \subseteq Accounts
    BY DEF InCurrency
  <2> QED BY <2>1, AccountsAssumption, FS_Subset
<1>2. \A a \in S : /\ d[a] \in Int /\ dr[a] \in Int /\ nd[a] = d[a] + dr[a]
                   /\ c[a] \in Int /\ cr[a] \in Int /\ nc[a] = c[a] + cr[a]
  BY <1>1, RequestTotals DEF Adds
<1>3. SumFunctionOnSet(d, S) = SumFunctionOnSet(c, S)
  BY DEF BooksBalance
<1>4. SumFunctionOnSet(dr, S) = SumFunctionOnSet(cr, S)
  BY ValidIsBalanced
<1> HIDE DEF d, c, dr, cr, nd, nc, S
<1>5. /\ SumFunctionOnSet(nd, S) = SumFunctionOnSet(d, S) + SumFunctionOnSet(dr, S)
      /\ SumFunctionOnSet(nc, S) = SumFunctionOnSet(c, S) + SumFunctionOnSet(cr, S)
  BY <1>1, <1>2, SumPlus
<1>6. SumFunctionOnSet(nd, S) = SumFunctionOnSet(nc, S)
  BY <1>3, <1>4, <1>5
<1> QED BY <1>6 DEF nd, nc, S

\* The books of an empty table.
LEMMA EmptyBooks ==
    ASSUME NEW book, \A a \in Accounts : book[a].debits = 0 /\ book[a].credits = 0
    PROVE  BooksMatch(book, <<>>) /\ BooksBalance(book)
<1>1. BooksMatch(book, <<>>)
  BY PostedEmpty DEF BooksMatch
<1>2. [a \in Accounts |-> book[a].debits] = [a \in Accounts |-> book[a].credits]
  OBVIOUS
<1>3. BooksBalance(book)
  BY <1>2, Zenon DEF BooksBalance
<1> QED BY <1>1, <1>3
=============================================================================
