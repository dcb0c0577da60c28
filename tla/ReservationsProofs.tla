------------------------- MODULE ReservationsProofs -------------------------
(***************************************************************************)
(* Theorems about Reservations, for any reservations, amounts and keys,    *)
(* and, unless one says otherwise, for both kinds of outbox: what they say *)
(* of a row holds on the SQL backends and on DynamoDB.                     *)
(*                                                                         *)
(* The types, Conservation and StatusMatchesAmounts are inductive together *)
(* and not one by one: that a partial row still has something outstanding  *)
(* rests on the status, and the status on the amounts.                     *)
(*                                                                         *)
(* The second part is about money (BooksInvariant): what the reserved      *)
(* account holds is the sum of the posted flows and covers the open rows.  *)
(* The third is about the schedulers and GetWallet beside the handlers.    *)
(***************************************************************************)
EXTENDS Wallet, SumTheorems, TLAPS

\* What the rows of a step look like: r gets a new row, the others keep theirs.
RowStep(r, new) == res' = [res EXCEPT ![r] = new]

-----------------------------------------------------------------------------
(* Types.                                                                  *)

\* The derived idempotency keys are all different kinds of FlowKeys.
LEMMA KeysAreFlowKeys ==
    ASSUME NEW r \in Res
    PROVE  /\ <<"create", r, "">> \in FlowKeys
           /\ <<"expire", r, "">> \in FlowKeys
           /\ \A k \in Keys : <<"commit", r, k>> \in FlowKeys /\ <<"release", r, k>> \in FlowKeys
BY DEF FlowKeys

\* executeFlowInTx under a derived key keeps balances natural.
LEMMA InnerFlowType ==
    ASSUME RTypeOK, NEW key \in FlowKeys, NEW from \in AccountNames, NEW to \in AccountNames,
           from # to, NEW amount \in Nat, InnerFlow(key, from, to, amount)
    PROVE  /\ balance' \in [AccountNames -> Nat]
           /\ journals' \subseteq [key : FlowKeys, amount : Nat]
<1>1. CASE key \in JournalKeys
  BY <1>1 DEF InnerFlow, RTypeOK
<1>2. CASE key \notin JournalKeys
  <2>1. /\ balance[from] >= amount
        /\ balance' = [balance EXCEPT ![from] = @ - amount, ![to] = @ + amount]
        /\ journals' = journals \cup {[key |-> key, amount |-> amount]}
    BY <1>2 DEF InnerFlow
  <2>2. balance[from] \in Nat /\ balance[to] \in Nat
    BY DEF RTypeOK
  <2>3. balance[from] - amount \in Nat /\ balance[to] + amount \in Nat
    BY <2>1, <2>2
  <2>4. balance' \in [AccountNames -> Nat]
    BY <2>1, <2>3 DEF RTypeOK
  <2> QED BY <2>1, <2>4 DEF RTypeOK
<1> QED BY <1>1, <1>2

\* Inserting an event keeps the counters natural.
LEMMA OutboxType ==
    ASSUME RTypeOK, NEW key \in FlowKeys, InsertOutbox(key)
    PROVE  outbox' \in [FlowKeys -> Nat]
BY DEF RTypeOK, InsertOutbox

\* A row and what it must look like.
RowOK(r, row) ==
    /\ row \in ReservationRow
    /\ row.status # "NONE" =>
          /\ row.outstanding + row.committed + row.released = Original[r]
          /\ row.status \in {"COMMITTED", "RELEASED", "EXPIRED"} <=> row.outstanding = 0
          /\ row.status = "HELD" <=> row.outstanding = Original[r]
          /\ row.status = "COMMITTED" => row.committed > 0
          /\ row.status \in {"RELEASED", "EXPIRED"} => row.released > 0

\* The invariant, row by row.
LEMMA RInvRows == LifecycleInvariant <=> RTypeOK /\ \A r \in Res : RowOK(r, res[r])
BY DEF LifecycleInvariant, RTypeOK, Conservation, StatusMatchesAmounts, RowOK, Exists, Closed

\* The row of a commit or a release of at most what is outstanding.
LEMMA AfterTakeOK ==
    ASSUME NEW r \in Res, NEW old, RowOK(r, old), old.status \in {"HELD", "PARTIAL"},
           NEW amount \in Nat \ {0}, amount <= old.outstanding
    PROVE  /\ RowOK(r, AfterCommit(old, amount, "COMMITTED"))
           /\ RowOK(r, AfterRelease(old, amount, "RELEASED"))
<1>1. old.outstanding \in Nat /\ old.committed \in Nat /\ old.released \in Nat /\ Original[r] \in Nat
  BY OriginalAssumption DEF RowOK, ReservationRow
<1>2. old.outstanding + old.committed + old.released = Original[r]
  BY DEF RowOK
<1>3. old.outstanding - amount \in Nat /\ old.outstanding - amount < Original[r]
  BY <1>1, <1>2
<1>4. RowOK(r, AfterCommit(old, amount, "COMMITTED"))
  <2> DEFINE new == AfterCommit(old, amount, "COMMITTED")
  <2>1. /\ new.outstanding = old.outstanding - amount
        /\ new.committed = old.committed + amount
        /\ new.released = old.released
        /\ new.status = IF old.outstanding - amount = 0 THEN "COMMITTED" ELSE "PARTIAL"
        /\ new \in ReservationRow
    BY <1>1, <1>3 DEF AfterCommit, NextStatus, ReservationRow, Statuses
  <2> HIDE DEF new
  <2>2. RowOK(r, new)
    BY <1>1, <1>2, <1>3, <2>1 DEF RowOK
  <2> QED BY <2>2 DEF new
<1>5. RowOK(r, AfterRelease(old, amount, "RELEASED"))
  <2> DEFINE new == AfterRelease(old, amount, "RELEASED")
  <2>1. /\ new.outstanding = old.outstanding - amount
        /\ new.committed = old.committed
        /\ new.released = old.released + amount
        /\ new.status = IF old.outstanding - amount = 0 THEN "RELEASED" ELSE "PARTIAL"
        /\ new \in ReservationRow
    BY <1>1, <1>3 DEF AfterRelease, NextStatus, ReservationRow, Statuses
  <2> HIDE DEF new
  <2>2. RowOK(r, new)
    BY <1>1, <1>2, <1>3, <2>1 DEF RowOK
  <2> QED BY <2>2 DEF new
<1> QED BY <1>4, <1>5

\* The row of an expiry, which takes all that is outstanding.
LEMMA AfterExpireOK ==
    ASSUME NEW r \in Res, NEW old, RowOK(r, old), old.status \in {"HELD", "PARTIAL"},
           old.outstanding # 0
    PROVE  RowOK(r, AfterRelease(old, old.outstanding, "EXPIRED"))
<1>1. /\ old.outstanding \in Nat /\ old.committed \in Nat /\ old.released \in Nat
      /\ Original[r] \in Nat \ {0}
  BY OriginalAssumption DEF RowOK, ReservationRow
<1>2. old.outstanding + old.committed + old.released = Original[r]
  BY DEF RowOK
<1> DEFINE new == AfterRelease(old, old.outstanding, "EXPIRED")
<1>3. /\ new.outstanding = 0
      /\ new.committed = old.committed
      /\ new.released = old.released + old.outstanding
      /\ new.status = "EXPIRED"
      /\ new \in ReservationRow
  BY <1>1 DEF AfterRelease, NextStatus, ReservationRow, Statuses
<1> HIDE DEF new
<1>4. RowOK(r, new)
  BY <1>1, <1>2, <1>3 DEF RowOK
<1> QED BY <1>4 DEF new

\* The rows after a step that gives r a good row.
LEMMA RowStepOK ==
    ASSUME LifecycleInvariant, NEW r \in Res, NEW new, RowOK(r, new), res' = [res EXCEPT ![r] = new],
           balance' \in [AccountNames -> Nat], journals' \subseteq [key : FlowKeys, amount : Nat],
           outbox' \in [FlowKeys -> Nat], now' = now
    PROVE  LifecycleInvariant'
<1>1. \A x \in Res : RowOK(x, res[x])
  BY RInvRows
<1>2. res \in [Res -> ReservationRow] /\ new \in ReservationRow /\ now \in Nat
  BY DEF LifecycleInvariant, RTypeOK, RowOK
<1>3. RTypeOK'
  BY <1>2 DEF RTypeOK
<1>4. \A x \in Res : RowOK(x, res'[x])
  BY <1>1, <1>2
<1> QED
  BY <1>3, <1>4 DEF LifecycleInvariant, RTypeOK, Conservation, StatusMatchesAmounts, RowOK, Exists, Closed

-----------------------------------------------------------------------------
(* The theorems.                                                           *)

\* There are no reservations at the start.
LEMMA InitRInv == RInit => LifecycleInvariant
<1> SUFFICES ASSUME RInit PROVE LifecycleInvariant
  OBVIOUS
<1>1. NoRow \in ReservationRow
  BY DEF NoRow, ReservationRow
<1>2. RTypeOK
  BY <1>1, FundsAssumption DEF RInit, RTypeOK, AccountNames
<1> QED
  BY <1>2 DEF RInit, LifecycleInvariant, Conservation, StatusMatchesAmounts, Exists, NoRow

\* Every handler, and the clock, keeps the invariant.
LEMMA NextRInv == LifecycleInvariant /\ [RNext]_rvars => LifecycleInvariant'
<1> SUFFICES ASSUME LifecycleInvariant, [RNext]_rvars PROVE LifecycleInvariant'
  OBVIOUS
<1>t. RTypeOK /\ \A r \in Res : RowOK(r, res[r])
  BY RInvRows DEF LifecycleInvariant
<1>1. CASE UNCHANGED rvars
  BY <1>1 DEF rvars, LifecycleInvariant, RTypeOK, Conservation, StatusMatchesAmounts, Exists
<1>2. ASSUME NEW r \in Res, CreateReservation(r) PROVE LifecycleInvariant'
  <2> DEFINE new == [status |-> "HELD", outstanding |-> Original[r], committed |-> 0, released |-> 0]
  <2>1. Original[r] \in Nat \ {0}
    BY OriginalAssumption
  <2>2. RowOK(r, new)
    BY <2>1 DEF RowOK, ReservationRow, Statuses
  <2>3. balance' \in [AccountNames -> Nat] /\ journals' \subseteq [key : FlowKeys, amount : Nat]
    BY <1>2, <1>t, <2>1, InnerFlowType, KeysAreFlowKeys DEF CreateReservation, AccountNames
  <2>4. outbox' \in [FlowKeys -> Nat]
    BY <1>2, <1>t, OutboxType, KeysAreFlowKeys DEF CreateReservation
  <2> QED BY <1>2, <2>2, <2>3, <2>4, RowStepOK DEF CreateReservation
<1>3. ASSUME NEW r \in Res, NEW k \in Keys, NEW amount \in Amounts,
             CommitReservation(r, k, amount)
      PROVE  LifecycleInvariant'
  <2>1. amount \in Nat \ {0} /\ amount <= res[r].outstanding /\ res[r].status \in {"HELD", "PARTIAL"}
    BY <1>3, AmountsAssumption DEF CommitReservation, MayTake, Active
  <2>2. RowOK(r, AfterCommit(res[r], amount, "COMMITTED"))
    BY <1>t, <2>1, AfterTakeOK
  <2>3. balance' \in [AccountNames -> Nat] /\ journals' \subseteq [key : FlowKeys, amount : Nat]
    BY <1>3, <1>t, <2>1, InnerFlowType, KeysAreFlowKeys DEF CommitReservation, AccountNames
  <2>4. outbox' \in [FlowKeys -> Nat]
    BY <1>3, <1>t, OutboxType, KeysAreFlowKeys DEF CommitReservation
  <2> QED BY <1>3, <2>2, <2>3, <2>4, RowStepOK DEF CommitReservation
<1>4. ASSUME NEW r \in Res, NEW k \in Keys, NEW amount \in Amounts,
             ReleaseReservation(r, k, amount)
      PROVE  LifecycleInvariant'
  <2>1. amount \in Nat \ {0} /\ amount <= res[r].outstanding /\ res[r].status \in {"HELD", "PARTIAL"}
    BY <1>4, AmountsAssumption DEF ReleaseReservation, MayTake, Active
  <2>2. RowOK(r, AfterRelease(res[r], amount, "RELEASED"))
    BY <1>t, <2>1, AfterTakeOK
  <2>3. balance' \in [AccountNames -> Nat] /\ journals' \subseteq [key : FlowKeys, amount : Nat]
    BY <1>4, <1>t, <2>1, InnerFlowType, KeysAreFlowKeys DEF ReleaseReservation, AccountNames
  <2>4. outbox' \in [FlowKeys -> Nat]
    BY <1>4, <1>t, OutboxType, KeysAreFlowKeys DEF ReleaseReservation
  <2> QED BY <1>4, <2>2, <2>3, <2>4, RowStepOK DEF ReleaseReservation
<1>5. ASSUME NEW r \in Res, ExpireReservation(r) PROVE LifecycleInvariant'
  <2>1. /\ res[r].outstanding # 0 /\ res[r].status \in {"HELD", "PARTIAL"}
        /\ res[r].outstanding \in Nat
    BY <1>5, <1>t DEF ExpireReservation, MayExpire, Active, RTypeOK, ReservationRow
  <2>2. RowOK(r, AfterRelease(res[r], res[r].outstanding, "EXPIRED"))
    BY <1>t, <2>1, AfterExpireOK
  <2>3. balance' \in [AccountNames -> Nat] /\ journals' \subseteq [key : FlowKeys, amount : Nat]
    BY <1>5, <1>t, <2>1, InnerFlowType, KeysAreFlowKeys DEF ExpireReservation, AccountNames
  <2>4. outbox' \in [FlowKeys -> Nat]
    BY <1>5, <1>t, OutboxType, KeysAreFlowKeys DEF ExpireReservation
  <2> QED BY <1>5, <2>2, <2>3, <2>4, RowStepOK DEF ExpireReservation
<1>6. CASE Tick
  BY <1>6 DEF Tick, LifecycleInvariant, RTypeOK, Conservation, StatusMatchesAmounts, Exists
<1> QED
  BY <1>1, <1>2, <1>3, <1>4, <1>5, <1>6 DEF RNext, Caller

\* Through every order of partial commits, releases, expiries and retries a
\* row's amounts add up to the original and its status says what they are,
\* whether or not the outbox key is unique.
THEOREM LifecycleCorrect == RSpec => []LifecycleInvariant
<1> QED
  BY InitRInv, NextRInv, PTL DEF RSpec, LifecycleInvariant

\* A closed reservation never changes again and no row loses ground, on any
\* backend (the closed checks under LockReservation).
THEOREM ClosedIsFinalCorrect == RSpec => ClosedIsFinal
<1> DEFINE A == \A r \in Res :
                  /\ Closed(res[r].status) => res'[r] = res[r]
                  /\ Exists(r) => /\ res'[r].status \notin {"NONE"}
                                  /\ res'[r].outstanding <= res[r].outstanding
<1>1. LifecycleInvariant /\ [RNext]_rvars => [A]_rvars
  <2> SUFFICES ASSUME LifecycleInvariant, [RNext]_rvars PROVE A
    OBVIOUS
  <2>t. res \in [Res -> ReservationRow] /\ \A x \in Res : res[x].outstanding \in Nat
    BY DEF LifecycleInvariant, RTypeOK, ReservationRow
  <2>1. CASE res' = res
    BY <2>1, <2>t DEF Exists
  <2>2. ASSUME NEW r \in Res, NEW new, RowStep(r, new),
               ~ Exists(r) \/ (Active(r) /\ new.status # "NONE"
                               /\ new.outstanding <= res[r].outstanding)
        PROVE  A
    <3> SUFFICES ASSUME NEW x \in Res
                 PROVE  /\ Closed(res[x].status) => res'[x] = res[x]
                        /\ Exists(x) => /\ res'[x].status \notin {"NONE"}
                                        /\ res'[x].outstanding <= res[x].outstanding
      OBVIOUS
    <3>1. CASE x = r
      BY <2>2, <2>t, <3>1 DEF RowStep, Exists, Active, Closed
    <3>2. CASE x # r
      BY <2>2, <2>t, <3>2 DEF RowStep, Exists
    <3> QED BY <3>1, <3>2
  <2>3. ASSUME NEW r \in Res, CreateReservation(r) PROVE A
    BY <2>2, <2>3 DEF CreateReservation, RowStep
  <2>4. ASSUME NEW r \in Res, NEW amount \in Nat, amount <= res[r].outstanding
        PROVE  /\ AfterCommit(res[r], amount, "COMMITTED").status # "NONE"
               /\ AfterRelease(res[r], amount, "RELEASED").status # "NONE"
               /\ AfterRelease(res[r], amount, "EXPIRED").status # "NONE"
               /\ AfterCommit(res[r], amount, "COMMITTED").outstanding <= res[r].outstanding
               /\ AfterRelease(res[r], amount, "RELEASED").outstanding <= res[r].outstanding
               /\ AfterRelease(res[r], amount, "EXPIRED").outstanding <= res[r].outstanding
    BY <2>4, <2>t DEF AfterCommit, AfterRelease, NextStatus
  <2>5. ASSUME NEW r \in Res, NEW k \in Keys, NEW amount \in Amounts,
               CommitReservation(r, k, amount)
        PROVE  A
    <3>1. amount \in Nat /\ amount <= res[r].outstanding /\ Active(r)
      BY <2>5, AmountsAssumption DEF CommitReservation, MayTake
    <3>2. RowStep(r, AfterCommit(res[r], amount, "COMMITTED"))
      BY <2>5 DEF CommitReservation, RowStep
    <3> QED BY <2>2, <2>4, <3>1, <3>2
  <2>6. ASSUME NEW r \in Res, NEW k \in Keys, NEW amount \in Amounts,
               ReleaseReservation(r, k, amount)
        PROVE  A
    <3>1. amount \in Nat /\ amount <= res[r].outstanding /\ Active(r)
      BY <2>6, AmountsAssumption DEF ReleaseReservation, MayTake
    <3>2. RowStep(r, AfterRelease(res[r], amount, "RELEASED"))
      BY <2>6 DEF ReleaseReservation, RowStep
    <3> QED BY <2>2, <2>4, <3>1, <3>2
  <2>7. ASSUME NEW r \in Res, ExpireReservation(r) PROVE A
    <3>0. Active(r)
      BY <2>7 DEF ExpireReservation, MayExpire
    <3>1. res[r].outstanding \in Nat /\ res[r].outstanding <= res[r].outstanding
      BY <2>t
    <3>2. RowStep(r, AfterRelease(res[r], res[r].outstanding, "EXPIRED"))
      BY <2>7 DEF ExpireReservation, RowStep
    <3> QED BY <2>2, <2>4, <3>0, <3>1, <3>2
  <2> QED
    BY <2>1, <2>3, <2>5, <2>6, <2>7 DEF RNext, Caller, Tick, rvars
<1>2. []LifecycleInvariant /\ [][RNext]_rvars => [][A]_rvars
  BY <1>1, PTL
<1>3. RSpec => []LifecycleInvariant
  BY InitRInv, NextRInv, PTL DEF RSpec
<1> QED
  BY <1>2, <1>3, PTL DEF RSpec, ClosedIsFinal

\* Where the outbox key is unique (the SQL backends), a transition is told to
\* the outbox exactly when it moved money: the retry of a posted transition
\* inserts its event a second time and is rolled back as a whole.
THEOREM OutboxCorrect ==
    ASSUME UniqueOutbox PROVE RSpec => []OutboxMatchesJournals
<1>1. RInit => OutboxMatchesJournals
  BY DEF RInit, OutboxMatchesJournals, JournalKeys
<1>2. RTypeOK /\ OutboxMatchesJournals /\ [RNext]_rvars => OutboxMatchesJournals'
  <2> SUFFICES ASSUME RTypeOK, OutboxMatchesJournals, [RNext]_rvars
               PROVE  OutboxMatchesJournals'
    OBVIOUS
  <2>1. CASE UNCHANGED <<journals, outbox>>
    BY <2>1 DEF OutboxMatchesJournals, JournalKeys
  <2>2. ASSUME NEW key \in FlowKeys, NEW from, NEW to, NEW amount,
               InnerFlow(key, from, to, amount), InsertOutbox(key)
        PROVE  OutboxMatchesJournals'
    <3>0. outbox[key] = 0
      BY <2>2, Zenon DEF InsertOutbox
    <3>1. outbox[key] = 0 /\ outbox' = [outbox EXCEPT ![key] = 1]
      BY <2>2, <3>0 DEF InsertOutbox
    <3>2. key \notin JournalKeys
      BY <3>1 DEF OutboxMatchesJournals
    <3>3. journals' = journals \cup {[key |-> key, amount |-> amount]}
      BY <2>2, <3>2 DEF InnerFlow
    <3>4. JournalKeys' = JournalKeys \cup {key}
      <4> DEFINE new == [key |-> key, amount |-> amount]
      <4>1. journals' = journals \cup {new} /\ new.key = key
        BY <3>3
      <4> HIDE DEF new
      <4> QED BY <4>1, Zenon DEF JournalKeys
    <3> QED BY <3>1, <3>4 DEF OutboxMatchesJournals, RTypeOK
  <2>3. ASSUME NEW r \in Res, CreateReservation(r) \/ ExpireReservation(r)
        PROVE  OutboxMatchesJournals'
    BY <2>2, <2>3, KeysAreFlowKeys DEF CreateReservation, ExpireReservation
  <2>4. ASSUME NEW r \in Res, NEW k \in Keys, NEW amount \in Amounts,
               CommitReservation(r, k, amount) \/ ReleaseReservation(r, k, amount)
        PROVE  OutboxMatchesJournals'
    BY <2>2, <2>4, KeysAreFlowKeys DEF CommitReservation, ReleaseReservation
  <2> QED
    BY <2>1, <2>3, <2>4 DEF RNext, Caller, Tick, rvars
<1>3. LifecycleInvariant => RTypeOK
  BY DEF LifecycleInvariant
<1> QED
  BY <1>1, <1>2, <1>3, LifecycleCorrect, PTL DEF RSpec
-----------------------------------------------------------------------------
(* Money.                                                                  *)

\* What a commit, a release or an expiry does: it takes part of what is
\* outstanding from the row and, unless its flow was posted before, from the
\* reserved account.
TakeStep(r, kind, k, to, amount, new) ==
    /\ Active(r) /\ amount <= res[r].outstanding
    /\ <<kind, r, k>> \in FlowKeys
    /\ InnerFlow(<<kind, r, k>>, "reserved", to, amount)
    /\ InsertOutbox(<<kind, r, k>>)
    /\ RowStep(r, new)
    /\ new.status \notin {"NONE", "HELD"}
    /\ new.outstanding = res[r].outstanding - amount
    /\ new.committed = res[r].committed + (IF kind = "commit" THEN amount ELSE 0)
    /\ new.released = res[r].released + (IF kind = "commit" THEN 0 ELSE amount)

Kinds == {"commit", "release", "expire"}

\* CreateReservation, and the three ways to take, are all that happens.
LEMMA StepsAre ==
    ASSUME LifecycleInvariant, [RNext]_rvars
    PROVE  \/ UNCHANGED <<res, balance, journals, outbox>>
           \/ \E r \in Res : CreateReservation(r)
           \/ \E r \in Res, kind \in Kinds, to \in {"source", "destination"}, amount \in Nat :
                 \E k, new : TakeStep(r, kind, k, to, amount, new)
<1> DEFINE Take == \E r \in Res, kind \in Kinds, to \in {"source", "destination"}, amount \in Nat :
                      \E k, new : TakeStep(r, kind, k, to, amount, new)
<1>t. /\ res \in [Res -> ReservationRow]
      /\ \A r \in Res : /\ res[r].outstanding \in Nat
                        /\ res[r].committed \in Nat
                        /\ res[r].released \in Nat
  BY DEF LifecycleInvariant, RTypeOK, ReservationRow
<1>1. ASSUME NEW r \in Res, NEW k \in Keys, NEW amount \in Amounts,
             CommitReservation(r, k, amount)
      PROVE  Take
  <2>1. amount \in Nat
    BY AmountsAssumption
  <2> DEFINE new == AfterCommit(res[r], amount, "COMMITTED")
  <2>2. /\ new.status \notin {"NONE", "HELD"} /\ new.outstanding = res[r].outstanding - amount
        /\ new.committed = res[r].committed + amount /\ new.released = res[r].released + 0
    BY <1>t, <2>1 DEF AfterCommit, NextStatus
  <2>3. /\ Active(r) /\ amount <= res[r].outstanding
        /\ InnerFlow(<<"commit", r, k>>, "reserved", "destination", amount)
        /\ InsertOutbox(<<"commit", r, k>>)
        /\ RowStep(r, new)
    BY <1>1, <1>t DEF CommitReservation, MayTake, RowStep
  <2> HIDE DEF new
  <2>4. TakeStep(r, "commit", k, "destination", amount, new)
    BY <2>2, <2>3, KeysAreFlowKeys DEF TakeStep
  <2> QED BY <2>1, <2>4 DEF Kinds
<1>2. ASSUME NEW r \in Res, NEW k \in Keys, NEW amount \in Amounts,
             ReleaseReservation(r, k, amount)
      PROVE  Take
  <2>1. amount \in Nat
    BY AmountsAssumption
  <2> DEFINE new == AfterRelease(res[r], amount, "RELEASED")
  <2>2. /\ new.status \notin {"NONE", "HELD"} /\ new.outstanding = res[r].outstanding - amount
        /\ new.committed = res[r].committed + 0 /\ new.released = res[r].released + amount
    BY <1>t, <2>1 DEF AfterRelease, NextStatus
  <2>3. /\ Active(r) /\ amount <= res[r].outstanding
        /\ InnerFlow(<<"release", r, k>>, "reserved", "source", amount)
        /\ InsertOutbox(<<"release", r, k>>)
        /\ RowStep(r, new)
    BY <1>2, <1>t DEF ReleaseReservation, MayTake, RowStep
  <2> HIDE DEF new
  <2>4. TakeStep(r, "release", k, "source", amount, new)
    BY <2>2, <2>3, KeysAreFlowKeys DEF TakeStep
  <2> QED BY <2>1, <2>4 DEF Kinds
<1>3. ASSUME NEW r \in Res, ExpireReservation(r)
      PROVE  Take
  <2> DEFINE amount == res[r].outstanding
  <2>1. amount \in Nat
    BY <1>t
  <2> DEFINE new == AfterRelease(res[r], amount, "EXPIRED")
  <2>2. /\ new.status \notin {"NONE", "HELD"} /\ new.outstanding = res[r].outstanding - amount
        /\ new.committed = res[r].committed + 0 /\ new.released = res[r].released + amount
    BY <1>t, <2>1 DEF AfterRelease, NextStatus
  <2>3. /\ Active(r)
        /\ InnerFlow(<<"expire", r, "">>, "reserved", "source", amount)
        /\ InsertOutbox(<<"expire", r, "">>)
        /\ RowStep(r, new)
    BY <1>3, Zenon DEF ExpireReservation, MayExpire, RowStep
  <2>5. amount <= res[r].outstanding
    BY <2>1
  <2> HIDE DEF new, amount
  <2>4. TakeStep(r, "expire", "", "source", amount, new)
    BY <2>2, <2>3, <2>5, KeysAreFlowKeys DEF TakeStep
  <2> QED BY <2>1, <2>4 DEF Kinds
<1> QED BY <1>1, <1>2, <1>3 DEF RNext, Caller, Tick, rvars

\* The total of the rows follows the row that changes.
LEMMA OutstandingStep ==
    ASSUME RTypeOK, NEW r \in Res, NEW new, RowStep(r, new), new.outstanding \in Nat
    PROVE  /\ Outstanding \in Nat
           /\ Outstanding' = Outstanding - res[r].outstanding + new.outstanding
<1> DEFINE f == [x \in Res |-> res[x].outstanding]
           g == [x \in Res |-> res'[x].outstanding]
<1>1. /\ \A x \in Res : f[x] \in Nat /\ g[x] \in Nat
      /\ \A x \in Res \ {r} : f[x] = g[x]
      /\ f[r] = res[r].outstanding /\ g[r] = new.outstanding
  BY DEF RTypeOK, ReservationRow, RowStep
<1>2. Outstanding = SumFunctionOnSet(f, Res) /\ Outstanding' = SumFunctionOnSet(g, Res)
  BY DEF Outstanding
<1> HIDE DEF f, g
<1>3. IsFiniteSet(Res)
  BY ResAssumption
<1>4. SumFunctionOnSet(f, Res) \in Nat
  BY <1>1, <1>3, SumNat
<1>5. SumFunctionOnSet(g, Res) = SumFunctionOnSet(f, Res) - f[r] + g[r]
  <2>1. \A x \in Res : f[x] \in Int /\ g[x] \in Int
    BY <1>1
  <2> QED BY <1>1, <1>3, <2>1, SumChange
<1> QED BY <1>1, <1>2, <1>4, <1>5

\* What else the sums rest on: only finitely many flows were posted, there is
\* nothing in the row of a reservation that does not exist, and a reservation
\* whose create flow was posted exists (CreateReservation inserts the row in
\* the same transaction), so the flow of a new one is never taken for a replay.
BooksInvariant ==
    /\ IsFiniteSet(journals)
    /\ \A r \in Res : ~ Exists(r) => res[r] = NoRow
    /\ \A r \in Res : <<"create", r, "">> \in JournalKeys => Exists(r)
    /\ ReservationsCovered
    /\ ReservedMatchesJournals

\* The account at the other end of a transfer is no part of the reserved one,
\* and the new journal is counted once.
LEMMA FlowStep ==
    ASSUME RTypeOK, BooksInvariant, NEW key \in FlowKeys,
           NEW from \in AccountNames, NEW to \in AccountNames, from # to, NEW amount \in Nat,
           InnerFlow(key, from, to, amount), key \notin JournalKeys,
           (from = "reserved" /\ key[1] # "create") \/ (to = "reserved" /\ key[1] = "create")
    PROVE  /\ journals' = journals \cup {[key |-> key, amount |-> amount]}
           /\ [key |-> key, amount |-> amount] \notin journals
           /\ IsFiniteSet(journals')
           /\ JournalKeys' = JournalKeys \cup {key}
           /\ balance'["reserved"] = IF key[1] = "create" THEN balance["reserved"] + amount
                                                        ELSE balance["reserved"] - amount
           /\ ReservedMatchesJournals'
<1> DEFINE new == [key |-> key, amount |-> amount]
<1>1. /\ balance' = [balance EXCEPT ![from] = @ - amount, ![to] = @ + amount]
      /\ journals' = journals \cup {new}
  BY DEF InnerFlow
<1>2. new.key = key /\ new.amount = amount
  OBVIOUS
<1>3. new \notin journals /\ JournalKeys' = JournalKeys \cup {key}
  <2> HIDE DEF new
  <2> QED BY <1>1, <1>2, Zenon DEF JournalKeys
<1>4. IsFiniteSet(journals) /\ IsFiniteSet(journals')
  <2> HIDE DEF new
  <2> QED BY <1>1, FS_AddElement DEF BooksInvariant
<1>5. balance \in [AccountNames -> Nat] /\ "reserved" \in AccountNames
  BY DEF RTypeOK, AccountNames
<1>6. balance'["reserved"] = IF key[1] = "create" THEN balance["reserved"] + amount
                                               ELSE balance["reserved"] - amount
  BY <1>1, <1>5
<1>7. ReservedMatchesJournals'
  <2> DEFINE f == [j \in journals |-> IntoReserved(j)]
             g == [j \in journals' |-> IntoReserved(j)]
  <2>1. \A j \in journals : f[j] = IntoReserved(j) /\ f[j] \in Int /\ f[j] = g[j]
    BY <1>1 DEF RTypeOK, IntoReserved
  <2>2. g[new] = IF key[1] = "create" THEN amount ELSE 0 - amount
    BY <1>1, <1>2 DEF IntoReserved
  <2>3. balance["reserved"] = SumFunctionOnSet(f, journals)
    BY DEF BooksInvariant, ReservedMatchesJournals
  <2>4. ReservedMatchesJournals' <=> balance'["reserved"] = SumFunctionOnSet(g, journals')
    BY DEF ReservedMatchesJournals, IntoReserved
  <2> HIDE DEF f, g, new
  <2>5. SumFunctionOnSet(g, journals \cup {new}) = SumFunctionOnSet(f, journals) + g[new]
    <3>1. g[new] \in Int
      BY <2>2
    <3> QED BY <1>3, <1>4, <2>1, <3>1, SumGrows
  <2> QED BY <1>1, <1>5, <1>6, <2>2, <2>3, <2>4, <2>5
<1> QED BY <1>1, <1>3, <1>4, <1>6, <1>7

\* The books of the reserved account, kept by every step.
LEMMA BooksStep ==
    LifecycleInvariant /\ BooksInvariant /\ [RNext]_rvars => BooksInvariant'
<1> SUFFICES ASSUME LifecycleInvariant, BooksInvariant, [RNext]_rvars PROVE BooksInvariant'
  OBVIOUS
<1>t. /\ RTypeOK /\ res \in [Res -> ReservationRow]
      /\ balance["reserved"] \in Nat /\ AccountNames = {"source", "reserved", "destination"}
  BY DEF LifecycleInvariant, RTypeOK, AccountNames
<1>1. CASE UNCHANGED <<res, balance, journals, outbox>>
  BY <1>1 DEF BooksInvariant, Exists, JournalKeys, ReservationsCovered, Outstanding,
              ReservedMatchesJournals, IntoReserved
<1>2. ASSUME NEW r \in Res, CreateReservation(r) PROVE BooksInvariant'
  <2> DEFINE key == <<"create", r, "">>
             new == [status |-> "HELD", outstanding |-> Original[r], committed |-> 0, released |-> 0]
  <2>1. /\ RowStep(r, new) /\ ~ Exists(r)
        /\ InnerFlow(key, "source", "reserved", Original[r])
    BY <1>2 DEF CreateReservation, RowStep
  <2>2. new.outstanding = Original[r] /\ Original[r] \in Nat /\ new.status = "HELD"
    BY OriginalAssumption
  <2>3. key \notin JournalKeys /\ key \in FlowKeys /\ key[1] = "create"
    BY <2>1, KeysAreFlowKeys DEF BooksInvariant
  <2>4. res[r].outstanding = 0
    <3>1. res[r] = NoRow
      BY <2>1 DEF BooksInvariant
    <3> QED BY <3>1 DEF NoRow
  <2> HIDE DEF new
  <2>5. /\ IsFiniteSet(journals') /\ JournalKeys' = JournalKeys \cup {key}
        /\ balance'["reserved"] = balance["reserved"] + Original[r]
        /\ ReservedMatchesJournals'
    <3> HIDE DEF key
    <3>1. "source" \in AccountNames /\ "reserved" \in AccountNames
      BY <1>t
    <3> QED BY <1>t, <2>1, <2>2, <2>3, <3>1, FlowStep
  <2>6. ReservationsCovered'
    <3>1. balance["reserved"] >= Outstanding
      BY DEF BooksInvariant, ReservationsCovered
    <3>2. Outstanding \in Nat /\ Outstanding' = Outstanding - res[r].outstanding + new.outstanding
      BY <1>t, <2>1, <2>2, OutstandingStep
    <3>3. balance'["reserved"] >= Outstanding'
      <4>1. balance'["reserved"] = balance["reserved"] + Original[r]
        BY <2>5
      <4> QED BY <1>t, <2>2, <2>4, <3>1, <3>2, <4>1
    <3> QED BY <3>3 DEF ReservationsCovered
  <2>7. \A x \in Res : res'[x] = IF x = r THEN new ELSE res[x]
    BY <1>t, <2>1 DEF RowStep
  <2>8. \A x \in Res : /\ res'[x].status = "NONE" => res'[x] = NoRow
                       /\ <<"create", x, "">> \in JournalKeys' => res'[x].status # "NONE"
    <3> TAKE x \in Res
    <3>1. CASE x = r
      BY <2>2, <2>7, <3>1 DEF Exists
    <3>2. CASE x # r
      BY <2>5, <2>7, <3>2 DEF Exists, BooksInvariant
    <3> QED BY <3>1, <3>2
  <2> QED BY <2>5, <2>6, <2>8 DEF BooksInvariant, Exists
<1>3. ASSUME NEW r \in Res, NEW kind \in Kinds, NEW to \in {"source", "destination"},
             NEW amount \in Nat, NEW k, NEW new, TakeStep(r, kind, k, to, amount, new)
      PROVE  BooksInvariant'
  <2> DEFINE key == <<kind, r, k>>
  <2>1. /\ RowStep(r, new) /\ Exists(r) /\ new.status # "NONE"
        /\ InnerFlow(key, "reserved", to, amount)
        /\ key \in FlowKeys /\ key[1] = kind /\ kind # "create"
        /\ new.outstanding = res[r].outstanding - amount
        /\ amount <= res[r].outstanding
    BY <1>3 DEF TakeStep, Active, Exists, Kinds
  <2>2. res[r].outstanding \in Nat /\ new.outstanding \in Nat
    BY <1>t, <2>1 DEF ReservationRow
  <2>3. Outstanding \in Nat /\ Outstanding' = Outstanding - amount
    BY <1>t, <2>1, <2>2, OutstandingStep
  <2>4. /\ IsFiniteSet(journals') /\ ReservedMatchesJournals'
        /\ JournalKeys' \subseteq JournalKeys \cup {key}
        /\ balance'["reserved"] \in {balance["reserved"], balance["reserved"] - amount}
    <3> HIDE DEF key
    <3>1. CASE key \in JournalKeys
      <4>1. balance' = balance /\ journals' = journals
        BY <2>1, <3>1 DEF InnerFlow
      <4> QED BY <4>1 DEF BooksInvariant, JournalKeys, ReservedMatchesJournals, IntoReserved
    <3>2. CASE key \notin JournalKeys
      <4>1. "reserved" \in AccountNames /\ to \in AccountNames /\ "reserved" # to
        BY <1>t
      <4> QED BY <1>t, <2>1, <3>2, <4>1, FlowStep
    <3> QED BY <3>1, <3>2
  <2>6. ReservationsCovered'
    <3>1. balance["reserved"] >= Outstanding
      BY DEF BooksInvariant, ReservationsCovered
    <3>2. balance'["reserved"] >= Outstanding'
      BY <1>t, <2>3, <2>4, <3>1
    <3> QED BY <3>2 DEF ReservationsCovered
  <2>7. \A x \in Res : res'[x] = IF x = r THEN new ELSE res[x]
    BY <1>t, <2>1 DEF RowStep
  <2>8. \A x \in Res : /\ res'[x].status = "NONE" => res'[x] = NoRow
                       /\ <<"create", x, "">> \in JournalKeys' => res'[x].status # "NONE"
    <3> TAKE x \in Res
    <3>1. CASE x = r
      BY <2>1, <2>7, <3>1 DEF Exists
    <3>2. CASE x # r
      BY <2>1, <2>4, <2>7, <3>2 DEF Exists, BooksInvariant
    <3> QED BY <3>1, <3>2
  <2> QED BY <2>4, <2>6, <2>8 DEF BooksInvariant, Exists
<1> QED BY <1>1, <1>2, <1>3, StepsAre

\* There is nothing to cover at the start.
LEMMA InitBooks == RInit => BooksInvariant
<1> SUFFICES ASSUME RInit PROVE BooksInvariant
  OBVIOUS
<1>1. Outstanding = 0
  <2> DEFINE f == [r \in Res |-> res[r].outstanding]
  <2>1. \A r \in Res : f[r] = 0
    BY DEF RInit, NoRow
  <2>2. Outstanding = SumFunctionOnSet(f, Res)
    BY DEF Outstanding
  <2> HIDE DEF f
  <2> QED BY <2>1, <2>2, SumZero, ResAssumption
<1>2. balance["reserved"] = 0 /\ journals = {}
  BY DEF RInit, AccountNames
<1>3. SumFunctionOnSet([j \in journals |-> IntoReserved(j)], journals) = 0
  <2> DEFINE f == [j \in journals |-> IntoReserved(j)]
  <2> HIDE DEF f
  <2>1. SumFunctionOnSet(f, journals) = 0
    BY <1>2, SumEmpty
  <2> QED BY <2>1 DEF f
<1>4. IsFiniteSet(journals)
  BY <1>2, FS_EmptySet
<1> QED
  BY <1>1, <1>2, <1>3, <1>4
     DEF BooksInvariant, RInit, Exists, JournalKeys, ReservationsCovered, ReservedMatchesJournals

\* On every backend the reserved account covers the open reservations and
\* holds what the posted inner flows add up to, each counted once: no commit
\* that the checks under LockReservation allow fails for want of funds.
THEOREM ReservationsCoveredCorrect ==
    RSpec => [](ReservationsCovered /\ ReservedMatchesJournals)
<1>1. BooksInvariant => ReservationsCovered /\ ReservedMatchesJournals
  BY DEF BooksInvariant
<1> QED
  BY <1>1, InitBooks, BooksStep, LifecycleCorrect, PTL DEF RSpec

\* A posted flow adds its amount to what moved for its reservation and kind,
\* and to nothing else.
LEMMA MovedStep ==
    ASSUME RTypeOK, IsFiniteSet(journals), NEW key \in FlowKeys, NEW amount \in Nat,
           [key |-> key, amount |-> amount] \notin journals,
           journals' = journals \cup {[key |-> key, amount |-> amount]},
           NEW r, NEW kinds
    PROVE  /\ Moved(r, kinds) \in Nat
           /\ Moved(r, kinds)' = IF key[2] = r /\ key[1] \in kinds
                                 THEN Moved(r, kinds) + amount ELSE Moved(r, kinds)
<1> DEFINE new == [key |-> key, amount |-> amount]
           f == [j \in journals |-> j.amount]
           g == [j \in journals' |-> j.amount]
           S == {j \in journals : j.key[2] = r /\ j.key[1] \in kinds}
           T == {j \in journals' : j.key[2] = r /\ j.key[1] \in kinds}
<1>1. new.key = key /\ new.amount = amount /\ new \notin journals /\ journals' = journals \cup {new}
  OBVIOUS
<1>2. Moved(r, kinds) = SumFunctionOnSet(f, S) /\ Moved(r, kinds)' = SumFunctionOnSet(g, T)
  BY DEF Moved
<1>3. S \subseteq journals /\ IsFiniteSet(S)
  BY FS_Subset
<1> HIDE DEF new
<1>4. \A j \in S : f[j] \in Nat /\ f[j] \in Int /\ f[j] = g[j]
  BY <1>1, <1>3 DEF RTypeOK
<1>5. g[new] = amount
  BY <1>1
<1>6. T = IF key[2] = r /\ key[1] \in kinds THEN S \cup {new} ELSE S
  BY <1>1
<1>7. new \notin S
  BY <1>1
<1> HIDE DEF f, g, S, T
<1>8. SumFunctionOnSet(f, S) \in Nat
  BY <1>3, <1>4, SumNat
<1>9. CASE key[2] = r /\ key[1] \in kinds
  <2>1. g[new] \in Int
    BY <1>5
  <2>2. SumFunctionOnSet(g, S \cup {new}) = SumFunctionOnSet(f, S) + g[new]
    BY <1>3, <1>4, <1>7, <2>1, SumGrows
  <2>3. T = S \cup {new}
    BY <1>6, <1>9
  <2> QED BY <1>2, <1>5, <1>8, <1>9, <2>2, <2>3
<1>10. CASE ~ (key[2] = r /\ key[1] \in kinds)
  <2>1. SumFunctionOnSet(f, S) = SumFunctionOnSet(g, S)
    BY <1>3, <1>4, SumSame
  <2>2. T = S
    BY <1>6, <1>10
  <2> QED BY <1>2, <1>8, <1>10, <2>1, <2>2
<1> QED BY <1>9, <1>10

\* Where the outbox key is unique, a transition that commits was not posted
\* before: a second event would have rolled it back.
LEMMA NoSilentReplay ==
    ASSUME UniqueOutbox, OutboxMatchesJournals, NEW key \in FlowKeys, InsertOutbox(key)
    PROVE  key \notin JournalKeys
<1>1. outbox[key] = 0
  BY Zenon DEF InsertOutbox
<1> QED BY <1>1 DEF OutboxMatchesJournals

\* The rows, the reserved account and the journals, kept in step.
LEMMA RowsTellJournals ==
    ASSUME UniqueOutbox
    PROVE  /\ LifecycleInvariant /\ BooksInvariant /\ OutboxMatchesJournals
           /\ NothingStranded /\ AmountsMatchJournals /\ [RNext]_rvars
           => NothingStranded' /\ AmountsMatchJournals'
<1> SUFFICES ASSUME LifecycleInvariant, BooksInvariant, OutboxMatchesJournals,
                    NothingStranded, AmountsMatchJournals, [RNext]_rvars
             PROVE  NothingStranded' /\ AmountsMatchJournals'
  OBVIOUS
<1>t. /\ RTypeOK /\ res \in [Res -> ReservationRow] /\ IsFiniteSet(journals)
      /\ balance["reserved"] \in Nat /\ AccountNames = {"source", "reserved", "destination"}
      /\ balance["reserved"] = Outstanding
  BY DEF LifecycleInvariant, RTypeOK, AccountNames, BooksInvariant, NothingStranded
<1>m. \A x \in Res : /\ res[x].committed = Moved(x, {"commit"})
                     /\ res[x].released = Moved(x, {"release", "expire"})
  BY DEF AmountsMatchJournals
<1>1. CASE UNCHANGED <<res, balance, journals, outbox>>
  BY <1>1 DEF NothingStranded, AmountsMatchJournals, Outstanding, Moved
<1>2. ASSUME NEW r \in Res, CreateReservation(r)
      PROVE  NothingStranded' /\ AmountsMatchJournals'
  <2> DEFINE key == <<"create", r, "">>
             new == [status |-> "HELD", outstanding |-> Original[r], committed |-> 0, released |-> 0]
  <2>1. /\ RowStep(r, new) /\ ~ Exists(r)
        /\ InnerFlow(key, "source", "reserved", Original[r]) /\ InsertOutbox(key)
    BY <1>2 DEF CreateReservation, RowStep
  <2>2. /\ new.outstanding = Original[r] /\ Original[r] \in Nat
        /\ new.committed = 0 /\ new.released = 0
    BY OriginalAssumption
  <2>3. key \in FlowKeys /\ key[1] = "create"
    BY KeysAreFlowKeys
  <2>4. res[r].outstanding = 0 /\ res[r].committed = 0 /\ res[r].released = 0
    <3>1. res[r] = NoRow
      BY <2>1 DEF BooksInvariant
    <3> QED BY <3>1 DEF NoRow
  <2> HIDE DEF new, key
  <2>5. key \notin JournalKeys
    BY <2>1, <2>3, NoSilentReplay
  <2>6. /\ journals' = journals \cup {[key |-> key, amount |-> Original[r]]}
        /\ [key |-> key, amount |-> Original[r]] \notin journals
        /\ balance'["reserved"] = balance["reserved"] + Original[r]
    <3>1. "source" \in AccountNames /\ "reserved" \in AccountNames
      BY <1>t
    <3> QED BY <1>t, <2>1, <2>2, <2>3, <2>5, <3>1, FlowStep
  <2>7. NothingStranded'
    <3>1. Outstanding \in Nat /\ Outstanding' = Outstanding - res[r].outstanding + new.outstanding
      BY <1>t, <2>1, <2>2, OutstandingStep
    <3>2. balance'["reserved"] = Outstanding'
      BY <1>t, <2>2, <2>4, <2>6, <3>1
    <3> QED BY <3>2 DEF NothingStranded
  <2>8. \A x \in Res : /\ res'[x].committed = res[x].committed
                       /\ res'[x].released = res[x].released
    BY <1>t, <2>1, <2>2, <2>4 DEF RowStep
  <2>9. \A x, kinds : "create" \notin kinds => Moved(x, kinds)' = Moved(x, kinds)
    BY <1>t, <2>2, <2>3, <2>6, MovedStep
  <2>10. \A x \in Res : /\ res'[x].committed = Moved(x, {"commit"})'
                        /\ res'[x].released = Moved(x, {"release", "expire"})'
    BY <1>m, <2>8, <2>9
  <2> QED BY <2>7, <2>10 DEF AmountsMatchJournals
<1>3. ASSUME NEW r \in Res, NEW kind \in Kinds, NEW to \in {"source", "destination"},
             NEW amount \in Nat, NEW k, NEW new, TakeStep(r, kind, k, to, amount, new)
      PROVE  NothingStranded' /\ AmountsMatchJournals'
  <2> DEFINE key == <<kind, r, k>>
  <2>1. /\ RowStep(r, new) /\ InnerFlow(key, "reserved", to, amount) /\ InsertOutbox(key)
        /\ key \in FlowKeys /\ key[1] = kind /\ key[2] = r /\ kind # "create"
        /\ new.outstanding = res[r].outstanding - amount
        /\ amount <= res[r].outstanding
        /\ new.committed = res[r].committed + (IF kind = "commit" THEN amount ELSE 0)
        /\ new.released = res[r].released + (IF kind = "commit" THEN 0 ELSE amount)
    BY <1>3 DEF TakeStep, Kinds
  <2>2. res[r].outstanding \in Nat /\ new.outstanding \in Nat
    BY <1>t, <2>1 DEF ReservationRow
  <2> HIDE DEF key
  <2>5. key \notin JournalKeys
    BY <2>1, NoSilentReplay
  <2>6. /\ journals' = journals \cup {[key |-> key, amount |-> amount]}
        /\ [key |-> key, amount |-> amount] \notin journals
        /\ balance'["reserved"] = balance["reserved"] - amount
    <3>1. "reserved" \in AccountNames /\ to \in AccountNames /\ "reserved" # to
      BY <1>t
    <3> QED BY <1>t, <2>1, <2>5, <3>1, FlowStep
  <2>7. NothingStranded'
    <3>1. Outstanding \in Nat /\ Outstanding' = Outstanding - res[r].outstanding + new.outstanding
      BY <1>t, <2>1, <2>2, OutstandingStep
    <3>2. balance'["reserved"] = Outstanding'
      BY <1>t, <2>1, <2>2, <2>6, <3>1
    <3> QED BY <3>2 DEF NothingStranded
  <2>8. \A x, kinds : /\ Moved(x, kinds) \in Nat
                      /\ Moved(x, kinds)' = IF r = x /\ kind \in kinds
                                            THEN Moved(x, kinds) + amount ELSE Moved(x, kinds)
    BY <1>t, <2>1, <2>6, MovedStep
  <2>9. \A x \in Res : res'[x] = IF x = r THEN new ELSE res[x]
    BY <1>t, <2>1 DEF RowStep
  <2>10. kind = "commit" \/ kind \in {"release", "expire"}
    BY DEF Kinds
  <2>11. ASSUME NEW x \in Res
         PROVE  /\ res'[x].committed = Moved(x, {"commit"})'
                /\ res'[x].released = Moved(x, {"release", "expire"})'
    <3>1. CASE x = r
      BY <1>m, <2>1, <2>8, <2>9, <2>10, <3>1
    <3>2. CASE x # r
      BY <1>m, <2>8, <2>9, <3>2
    <3> QED BY <3>1, <3>2
  <2> QED BY <2>7, <2>11 DEF AmountsMatchJournals
<1> QED BY <1>1, <1>2, <1>3, StepsAre

\* At the start nothing is outstanding and nothing has moved.
LEMMA InitRows == RInit => NothingStranded /\ AmountsMatchJournals
<1> SUFFICES ASSUME RInit PROVE NothingStranded /\ AmountsMatchJournals
  OBVIOUS
<1>1. balance["reserved"] = 0 /\ journals = {}
  BY DEF RInit, AccountNames
<1>2. Outstanding = 0
  <2> DEFINE f == [r \in Res |-> res[r].outstanding]
  <2>1. \A r \in Res : f[r] = 0
    BY DEF RInit, NoRow
  <2>2. Outstanding = SumFunctionOnSet(f, Res)
    BY DEF Outstanding
  <2> HIDE DEF f
  <2> QED BY <2>1, <2>2, SumZero, ResAssumption
<1>3. ASSUME NEW r, NEW kinds PROVE Moved(r, kinds) = 0
  <2> DEFINE f == [j \in journals |-> j.amount]
             S == {j \in journals : j.key[2] = r /\ j.key[1] \in kinds}
  <2>1. S = {} /\ Moved(r, kinds) = SumFunctionOnSet(f, S)
    BY <1>1 DEF Moved
  <2> HIDE DEF f, S
  <2> QED BY <2>1, SumEmpty
<1>4. \A r \in Res : res[r].committed = 0 /\ res[r].released = 0
  BY DEF RInit, NoRow
<1> QED BY <1>1, <1>2, <1>3, <1>4 DEF NothingStranded, AmountsMatchJournals

\* On the SQL backends the reserved account holds exactly what the open
\* reservations need: nothing is stranded there by any mix of commits,
\* releases, expiries and retries.
THEOREM NothingStrandedCorrect ==
    ASSUME UniqueOutbox PROVE RSpec => []NothingStranded
<1> QED
  BY InitRInv, NextRInv, InitBooks, BooksStep, OutboxCorrect, InitRows, RowsTellJournals, PTL
     DEF RSpec

\* On the SQL backends the committed and released amounts of a row are the
\* sums of the commit, release and expire flows posted for it, so the row and
\* the books never tell different stories.
THEOREM AmountsMatchJournalsCorrect ==
    ASSUME UniqueOutbox PROVE RSpec => []AmountsMatchJournals
<1> QED
  BY InitRInv, NextRInv, InitBooks, BooksStep, OutboxCorrect, InitRows, RowsTellJournals, PTL
     DEF RSpec

\* On the SQL backends the rows, the events and the journals of reservations
\* stay in step, whatever is resent.
THEOREM RowsAndEventsCorrect ==
    ASSUME UniqueOutbox PROVE RSpec => []RowsAndEventsMatchJournals
<1> QED
  BY AmountsMatchJournalsCorrect, OutboxCorrect, PTL DEF RowsAndEventsMatchJournals

-----------------------------------------------------------------------------
(* The schedulers and the wallet.                                          *)

\* Finitely many expiry times have an earliest one.
LEMMA EarliestDue ==
    ASSUME NEW D, IsFiniteSet(D)
    PROVE  (\A x \in D : x \in Nat) /\ D # {} => \E m \in D : \A x \in D : m <= x
<1>0. SUFFICES ASSUME \A x \in D : x \in Nat, D # {} PROVE \E m \in D : \A x \in D : m <= x
  OBVIOUS
<1> DEFINE UpTo(x) == {y \in D : y <= x}
           T == {UpTo(x) : x \in D}
<1>1. T \subseteq SUBSET D /\ T # {}
  BY <1>0
<1> HIDE DEF T
<1>2. PICK X \in T : \A Y \in T : Y \subseteq X => Y = X
  BY <1>1, LeastSubset
<1>3. PICK m \in D : X = UpTo(m)
  BY <1>2 DEF T
<1>4. ASSUME NEW x \in D, ~ (m <= x) PROVE FALSE
  <2>1. UpTo(x) \in T
    BY DEF T
  <2>2. x < m /\ \A y \in D : y <= x => y <= m
    BY <1>0, <1>4
  <2>3. UpTo(x) \subseteq X /\ m \in X /\ m \notin UpTo(x)
    BY <1>0, <1>3, <1>4, <2>2
  <2> QED BY <1>2, <2>1, <2>3
<1> QED BY <1>4

\* ListExpiredReservations returns something: rows in the order of expires_at,
\* as many as BatchN allows.
LEMMA BatchExists ==
    ASSUME NEW rows PROVE rows \subseteq Res => \E b : b \in Batches(rows)
<1>0. SUFFICES ASSUME rows \subseteq Res PROVE \E b : b \in Batches(rows)
  OBVIOUS
<1>1. IsFiniteSet(rows)
  BY <1>0, ResAssumption, FS_Subset
<1> DEFINE Good(b) == /\ Cardinality(b) <= BatchN
                      /\ \A x \in b, y \in rows \ b : x <= y
           T == {c \in SUBSET rows : Good(rows \ c)}
<1>2. T \subseteq SUBSET rows /\ T # {}
  <2>1. rows \ rows = {} /\ Cardinality({}) = 0
    BY FS_EmptySet
  <2>2. Good(rows \ rows)
    BY <2>1, BatchNAssumption
  <2>3. rows \in T
    BY <2>2
  <2> QED BY <2>3
<1>3. PICK c \in T : \A d \in T : d \subseteq c => d = c
  <2> HIDE DEF T
  <2> QED BY <1>1, <1>2, LeastSubset
<1> DEFINE b == rows \ c
<1>4. c \subseteq rows /\ b \subseteq rows /\ rows \ b = c /\ Good(b) /\ IsFiniteSet(b) /\ IsFiniteSet(c)
  BY <1>1, <1>3, FS_Subset
<1>5. ASSUME Cardinality(b) < BatchN, b # rows PROVE FALSE
  <2>1. c # {} /\ \A x \in c : x \in Nat
    BY <1>0, <1>4, <1>5, ResAssumption
  <2>2. PICK m \in c : \A x \in c : m <= x
    BY <1>4, <2>1, EarliestDue
  <2> DEFINE d == c \ {m}
  <2>3. rows \ d = b \cup {m} /\ m \notin b
    BY <1>4, <2>2
  <2>4. Cardinality(b \cup {m}) = Cardinality(b) + 1 /\ Cardinality(b) \in Nat
    <3> HIDE DEF b
    <3> QED BY <1>4, <2>3, FS_AddElement, FS_CardinalityType
  <2>5. Cardinality(b \cup {m}) <= BatchN
    BY <1>5, <2>4, BatchNAssumption
  <2>6. \A x \in b \cup {m}, y \in rows \ (b \cup {m}) : x <= y
    BY <1>4, <2>2
  <2>7. d \in T
    BY <1>4, <2>3, <2>5, <2>6
  <2> QED BY <1>3, <2>2, <2>7
<1>6. b \in Batches(rows)
  BY <1>4, <1>5 DEF Batches
<1> QED BY <1>6

\* What a scheduler still has on its list is due: it was when it was listed,
\* and the clock does not go back.
ListedAreDue ==
    /\ now \in Nat
    /\ batch \in [Schedulers -> SUBSET Res]
    /\ \A s \in Schedulers : \A r \in batch[s] : Due(r)

\* The lists stay lists of due rows.
LEMMA ListedStep == ListedAreDue /\ [ENext]_evars => ListedAreDue'
<1> SUFFICES ASSUME ListedAreDue, [ENext]_evars PROVE ListedAreDue'
  OBVIOUS
<1>r. \A r \in Res : r \in Nat
  BY ResAssumption
<1>1. CASE batch' = batch /\ (now' = now \/ now' = now + 1)
  BY <1>1, <1>r DEF ListedAreDue, Due
<1>2. ASSUME NEW s \in Schedulers, ListExpired(s) PROVE ListedAreDue'
  <2>1. Listable \subseteq Res /\ \A r \in Listable : Due(r)
    BY DEF Listable
  <2> DEFINE b == CHOOSE x \in Batches(Listable) : TRUE
  <2>2. b \in Batches(Listable)
    <3>1. \E x : x \in Batches(Listable)
      BY <2>1, BatchExists
    <3> QED BY <3>1
  <2>3. b \subseteq Listable
    BY <2>2 DEF Batches
  <2>4. batch' = [batch EXCEPT ![s] = b] /\ now' = now
    BY <1>2 DEF ListExpired
  <2> HIDE DEF b
  <2> QED BY <2>1, <2>3, <2>4 DEF ListedAreDue, Due
<1>3. ASSUME NEW s \in Schedulers, NEW r \in Res, batch' = [batch EXCEPT ![s] = @ \ {r}], now' = now
      PROVE  ListedAreDue'
  BY <1>3 DEF ListedAreDue, Due
<1>4. ASSUME NEW s \in Schedulers, NEW r \in Res, ExpireNext(s, r) PROVE ListedAreDue'
  BY <1>3, <1>4 DEF ExpireNext, ExpireReservation
<1>5. ASSUME NEW s \in Schedulers, NEW r \in Res, ExpireFails(s, r) PROVE ListedAreDue'
  BY <1>3, <1>5 DEF ExpireFails
<1>6. Caller => now' = now
  BY DEF Caller, CreateReservation, CommitReservation, ReleaseReservation
<1> QED
  BY <1>1, <1>2, <1>4, <1>5, <1>6 DEF ENext, SchedulerStep, Tick, evars

\* What a scheduler does to the rows is the lifecycle's expiry, or nothing.
LEMMA SchedulerRefines == ListedAreDue /\ [ENext]_evars => [RNext]_rvars
<1> SUFFICES ASSUME ListedAreDue, [ENext]_evars PROVE [RNext]_rvars
  OBVIOUS
<1>1. CASE UNCHANGED rvars
  BY <1>1
<1>2. ASSUME NEW s \in Schedulers, NEW r \in Res, ExpireNext(s, r) PROVE [RNext]_rvars
  <2>1. Due(r)
    BY <1>2 DEF ExpireNext, InListOrder, ListedAreDue
  <2>2. CASE MayExpire(r)
    BY <1>2, <2>1, <2>2 DEF ExpireNext, RNext
  <2>3. CASE ~ MayExpire(r)
    BY <1>2, <2>3 DEF ExpireNext, rvars
  <2> QED BY <2>2, <2>3
<1>3. CASE Caller \/ Tick
  BY <1>3 DEF RNext
<1> QED
  BY <1>1, <1>2, <1>3 DEF ENext, SchedulerStep, ListExpired, ExpireFails, evars, rvars

\* The wallet only reads.
LEMMA WalletReads ==
    /\ WInit => EInit /\ RInit /\ ListedAreDue
    /\ [WNext]_wvars => [ENext]_evars
<1>1. WInit => EInit /\ RInit
  BY DEF WInit, EInit
<1>2. WInit => ListedAreDue
  BY DEF WInit, EInit, RInit, ListedAreDue
<1>3. [WNext]_wvars => [ENext]_evars
  BY DEF WNext, Others, wvars, evars
<1> QED BY <1>1, <1>2, <1>3

\* Schedulers on any number of servers, with lists that overlap and go stale,
\* failed calls and a wallet reading beside them, do nothing but the
\* transitions of the lifecycle, so everything proved of it holds of them.
THEOREM SchedulersCorrect == WSpec => SchedulersFollowLifecycle
<1> QED
  BY WalletReads, ListedStep, SchedulerRefines, PTL DEF WSpec, SchedulersFollowLifecycle, RSpec

\* No step takes a reservation from PARTIAL back to HELD.
LEMMA NeverHeldAgain ==
    ASSUME LifecycleInvariant, [RNext]_rvars
    PROVE  \A x \in Res : res[x].status = "PARTIAL" => res'[x].status # "HELD"
<1>t. res \in [Res -> ReservationRow]
  BY DEF LifecycleInvariant, RTypeOK
<1>1. CASE res' = res
  BY <1>1
<1>2. ASSUME NEW r \in Res, CreateReservation(r)
      PROVE  \A x \in Res : res[x].status = "PARTIAL" => res'[x].status # "HELD"
  BY <1>2, <1>t DEF CreateReservation, Exists
<1>3. ASSUME NEW r \in Res, NEW kind, NEW k, NEW to, NEW amount, NEW new,
             TakeStep(r, kind, k, to, amount, new)
      PROVE  \A x \in Res : res[x].status = "PARTIAL" => res'[x].status # "HELD"
  BY <1>3, <1>t DEF TakeStep, RowStep
<1> QED BY <1>1, <1>2, <1>3, StepsAre

\* What GetWallet has found half way: a reservation that was open all along was
\* seen HELD in the first listing or is PARTIAL by now.
WalletSees ==
    /\ wpc \in {"idle", "first", "second"}
    /\ wpc # "idle" => \A r \in through : r \in Res /\ Active(r)
    /\ wpc = "second" => \A r \in through : r \in open \/ res[r].status = "PARTIAL"

\* It stays so whatever else is committed between the listings.
LEMMA WalletStep ==
    LifecycleInvariant /\ ListedAreDue /\ WalletSees /\ [WNext]_wvars => WalletSees'
<1> SUFFICES ASSUME LifecycleInvariant, ListedAreDue, WalletSees, [WNext]_wvars PROVE WalletSees'
  OBVIOUS
<1>1. CASE UNCHANGED wvars
  BY <1>1 DEF wvars, WalletSees, Active
<1>2. CASE Others
  <2>1. /\ \A x \in Res : res[x].status = "PARTIAL" => res'[x].status # "HELD"
    BY <1>2, SchedulerRefines, NeverHeldAgain DEF Others
  <2>2. /\ through' = {r \in through : res'[r].status \in {"HELD", "PARTIAL"}}
        /\ wpc' = wpc /\ open' = open
    BY <1>2 DEF Others
  <2> QED BY <2>1, <2>2 DEF WalletSees, Active
<1>3. CASE ReadBalances /\ UNCHANGED evars
  BY <1>3 DEF ReadBalances, evars, WalletSees, Active
<1>4. CASE ListOpen /\ UNCHANGED evars
  BY <1>4 DEF ListOpen, evars, WalletSees, Active, StatusOf
<1> QED BY <1>1, <1>2, <1>3, <1>4 DEF WNext

\* GetWallet misses no reservation that is open from its first read to its
\* last, however many commits, releases and expiries run between its two
\* listings (the order HELD, PARTIAL in wallet.go is what it rests on).
THEOREM OpenIsListedCorrect == WSpec => OpenIsListed
<1>1. WInit => WalletSees
  BY DEF WInit, WalletSees
<1>2. WalletSees /\ [WNext]_wvars
      => [(wpc = "second" /\ wpc' = "idle") => through \subseteq open']_wvars
  <2> SUFFICES ASSUME WalletSees, [WNext]_wvars, wpc = "second", wpc' = "idle"
               PROVE  through \subseteq open'
    OBVIOUS
  <2>1. ListOpen
    BY DEF WNext, Others, ReadBalances, wvars
  <2> QED BY <2>1 DEF ListOpen, WalletSees, StatusOf
<1>3. WSpec => []LifecycleInvariant
  BY SchedulersCorrect, LifecycleCorrect, PTL DEF SchedulersFollowLifecycle
<1> QED
  BY <1>1, <1>2, <1>3, WalletReads, ListedStep, WalletStep, PTL DEF WSpec, OpenIsListed
=============================================================================
