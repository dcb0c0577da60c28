---------------------------- MODULE Reservations ----------------------------
(***************************************************************************)
(* The reservation lifecycle (internal/service/*_reservation.go), one      *)
(* action per handler.  A handler runs in one transaction, so it is atomic *)
(* here: that is what SQLite (BEGIN IMMEDIATE, one connection) and         *)
(* CockroachDB (SERIALIZABLE) provide.  DynamoReservations shows in detail *)
(* that the optimistic backend provides it too.                            *)
(*                                                                         *)
(* The reservations share a source, a reserved and a destination account,  *)
(* open, of one currency and none of which may be overdrawn, so the checks *)
(* on the destination hold; every transition moves money between           *)
(* them with executeFlowInTx and then updates the reservation row and      *)
(* inserts an outbox event in the same transaction.  A handler that        *)
(* refuses rolls back and changes nothing.                                 *)
(***************************************************************************)
EXTENDS Integers, FiniteSets, Functions

CONSTANTS
    Res,           \* reservations, by idempotency key; the number is also expires_at
    Original,      \* Original[r]: the amount r is created with
    Keys,          \* idempotency keys callers use for commits and releases
    Amounts,       \* amounts they ask for
    Funds,         \* balance of the source account at the start
    UniqueOutbox   \* outbox_events.idempotency_key is UNIQUE (the SQL schemas)

ASSUME ResAssumption == Res \subseteq Nat \ {0} /\ IsFiniteSet(Res)
ASSUME OriginalAssumption == Original \in [Res -> Nat \ {0}]
ASSUME AmountsAssumption == Amounts \subseteq Nat \ {0}   \* ParseAmount
ASSUME FundsAssumption == Funds \in Nat
ASSUME UniqueOutboxAssumption == UniqueOutbox \in BOOLEAN

VARIABLES
    res,        \* the reservation rows
    balance,    \* balances of the three accounts
    journals,   \* inner flows posted: their idempotency keys and amounts
    outbox,     \* how many outbox events carry each idempotency key
    now         \* the clock, in units of expires_at

rvars == <<res, balance, journals, outbox, now>>

AccountNames == {"source", "reserved", "destination"}
Statuses == {"HELD", "PARTIAL", "COMMITTED", "RELEASED", "EXPIRED"}
Closed(status) == status \in {"COMMITTED", "RELEASED", "EXPIRED"}

NoRow == [status |-> "NONE", outstanding |-> 0, committed |-> 0, released |-> 0]
ReservationRow ==
    [status : Statuses \cup {"NONE"}, outstanding : Nat, committed : Nat, released : Nat]

\* The derived keys: <res>:create, <res>:commit:<key>, <res>:release:<key>,
\* <res>:expire.  Outbox keys are derived the same way.
FlowKeys ==
    {<<"create", r, "">> : r \in Res} \cup {<<"expire", r, "">> : r \in Res}
    \cup ({"commit", "release"} \X Res \X Keys)

Exists(r) == res[r].status # "NONE"
Active(r) == res[r].status \in {"HELD", "PARTIAL"}

JournalKeys == {j.key : j \in journals}

RInit ==
    /\ res = [r \in Res |-> NoRow]
    /\ balance = [a \in AccountNames |-> IF a = "source" THEN Funds ELSE 0]
    /\ journals = {}
    /\ outbox = [k \in FlowKeys |-> 0]
    /\ now = 0

-----------------------------------------------------------------------------
(* The two halves every handler shares.                                    *)

\* executeFlowInTx with the derived key: a flow already posted is replayed and
\* moves nothing; otherwise the money moves, unless "from" would go negative.
InnerFlow(key, from, to, amount) ==
    IF key \in JournalKeys
    THEN UNCHANGED <<balance, journals>>
    ELSE /\ balance[from] >= amount
         /\ balance' = [balance EXCEPT ![from] = @ - amount, ![to] = @ + amount]
         /\ journals' = journals \cup {[key |-> key, amount |-> amount]}

\* Mutant: a second event with the same key is accepted.
InsertAnyOutbox(key) == outbox' = [outbox EXCEPT ![key] = @ + 1]

\* InsertOutbox: a duplicate key violates the UNIQUE column and aborts the
\* whole transaction.  The DynamoDB item is keyed by a fresh id instead.
InsertOutbox(key) ==
    /\ UniqueOutbox => outbox[key] = 0
    /\ outbox' = [outbox EXCEPT ![key] = @ + 1]

-----------------------------------------------------------------------------
(* The handlers.                                                           *)

\* CreateReservation; an existing row is returned as it is.
CreateReservation(r) ==
    LET key == <<"create", r, "">>
    IN  /\ ~ Exists(r)
        /\ InnerFlow(key, "source", "reserved", Original[r])
        /\ res' = [res EXCEPT ![r] = [status |-> "HELD", outstanding |-> Original[r],
                                      committed |-> 0, released |-> 0]]
        /\ InsertOutbox(key)
        /\ UNCHANGED now

\* The mixed terminal rule: whichever transition uses up the rest names the
\* final status.
NextStatus(left, final) == IF left = 0 THEN final ELSE "PARTIAL"

\* The row after a commit or a release of part or all of what is outstanding.
AfterCommit(old, amount, final) ==
    LET left == old.outstanding - amount
    IN  [status |-> NextStatus(left, final), outstanding |-> left,
         committed |-> old.committed + amount, released |-> old.released]

\* Mutant: the released amount is replaced, not added to.
ReleaseOverwrites(old, amount, final) ==
    LET left == old.outstanding - amount
    IN  [status |-> NextStatus(left, final), outstanding |-> left,
         committed |-> old.committed, released |-> amount]

AfterRelease(old, amount, final) ==
    LET left == old.outstanding - amount
    IN  [status |-> NextStatus(left, final), outstanding |-> left,
         committed |-> old.committed, released |-> old.released + amount]

\* The checks under LockReservation: found, not closed, amount outstanding.
MayTake(r, amount) == Active(r) /\ amount <= res[r].outstanding

CommitReservation(r, k, amount) ==
    LET key == <<"commit", r, k>>
    IN  /\ MayTake(r, amount)
        /\ InnerFlow(key, "reserved", "destination", amount)
        /\ res' = [res EXCEPT ![r] = AfterCommit(@, amount, "COMMITTED")]
        /\ InsertOutbox(key)
        /\ UNCHANGED now

ReleaseReservation(r, k, amount) ==
    LET key == <<"release", r, k>>
    IN  /\ MayTake(r, amount)
        /\ InnerFlow(key, "reserved", "source", amount)
        /\ res' = [res EXCEPT ![r] = AfterRelease(@, amount, "RELEASED")]
        /\ InsertOutbox(key)
        /\ UNCHANGED now

\* Mutant: expiry does not look at the status again after the listing.
StillThere(r) == Exists(r)

\* ExpireReservation's own check: closed, or nothing outstanding, is a no-op.
MayExpire(r) == Active(r) /\ res[r].outstanding # 0

\* ExpireReservation, called by the scheduler for a listed reservation.
ExpireReservation(r) ==
    LET key == <<"expire", r, "">>
        amount == res[r].outstanding
    IN  /\ MayExpire(r)
        /\ InnerFlow(key, "reserved", "source", amount)
        /\ res' = [res EXCEPT ![r] = AfterRelease(@, amount, "EXPIRED")]
        /\ InsertOutbox(key)
        /\ UNCHANGED now

\* expires_at of one more reservation passes.
Tick ==
    /\ \E r \in Res : r > now
    /\ now' = now + 1
    /\ UNCHANGED <<res, balance, journals, outbox>>

Due(r) == r <= now

Caller ==
    \E r \in Res :
        \/ CreateReservation(r)
        \/ \E k \in Keys, amount \in Amounts :
              CommitReservation(r, k, amount) \/ ReleaseReservation(r, k, amount)

RNext == Caller \/ Tick \/ \E r \in Res : Due(r) /\ ExpireReservation(r)

RSpec == RInit /\ [][RNext]_rvars

-----------------------------------------------------------------------------
(* Correctness.                                                            *)

\* Rows, balances and counters hold values of their kind: no amount of a
\* reservation and no balance is ever negative.
RTypeOK ==
    /\ res \in [Res -> ReservationRow]
    /\ balance \in [AccountNames -> Nat]
    /\ journals \subseteq [key : FlowKeys, amount : Nat]
    /\ outbox \in [FlowKeys -> Nat]
    /\ now \in Nat

\* Conservation (Reservation.Validate, which no handler calls): outstanding,
\* committed and released add up to the original amount through every order
\* of partial commits, releases and expiry.
Conservation ==
    \A r \in Res : Exists(r) =>
        res[r].outstanding + res[r].committed + res[r].released = Original[r]

\* The status and the amounts agree: a reservation is closed exactly when
\* nothing is outstanding, HELD exactly while nothing was taken, and a
\* COMMITTED, RELEASED or EXPIRED row has an amount to show for its name.
StatusMatchesAmounts ==
    \A r \in Res : Exists(r) =>
        /\ Closed(res[r].status) <=> res[r].outstanding = 0
        /\ res[r].status = "HELD" <=> res[r].outstanding = Original[r]
        /\ res[r].status = "COMMITTED" => res[r].committed > 0
        /\ res[r].status \in {"RELEASED", "EXPIRED"} => res[r].released > 0

\* The inductive invariant of the lifecycle: that a partly used row still has
\* something outstanding rests on its status, the status on the amounts, and
\* that no amount goes negative on both.
LifecycleInvariant == RTypeOK /\ Conservation /\ StatusMatchesAmounts

\* What the reserved account has to hold.
Outstanding == SumFunctionOnSet([r \in Res |-> res[r].outstanding], Res)

\* The reserved account holds what the open reservations still need, so a
\* commit that MayTake allows never fails for want of funds (the inner flow of
\* commit_reservation.go).
ReservationsCovered == balance["reserved"] >= Outstanding

\* ... and holds nothing more: no funds are stranded there, whatever mix of
\* transitions and retries used the reservations up.
NothingStranded == balance["reserved"] = Outstanding

\* What a posted flow adds to the reserved account.
IntoReserved(j) == IF j.key[1] = "create" THEN j.amount ELSE 0 - j.amount

\* Each inner flow moves its money once: the reserved account holds what the
\* posted journals add up to, whatever was retried.
ReservedMatchesJournals ==
    balance["reserved"]
        = SumFunctionOnSet([j \in journals |-> IntoReserved(j)], journals)

\* What the posted flows of some kinds moved for r.
Moved(r, kinds) ==
    SumFunctionOnSet([j \in journals |-> j.amount],
                     {j \in journals : j.key[2] = r /\ j.key[1] \in kinds})

\* Each row tells what its journals moved: the committed amount is the sum of
\* the posted commit flows, the released amount that of the posted release
\* and expire flows, however often a transition was retried.
AmountsMatchJournals ==
    \A r \in Res :
        /\ res[r].committed = Moved(r, {"commit"})
        /\ res[r].released = Moved(r, {"release", "expire"})

\* The outbox tells exactly what happened: one event per posted transition.
OutboxMatchesJournals ==
    \A k \in FlowKeys : outbox[k] = IF k \in JournalKeys THEN 1 ELSE 0

\* Both: however often a transition is resent, its row and its event change
\* exactly when its journal is posted.
RowsAndEventsMatchJournals == AmountsMatchJournals /\ OutboxMatchesJournals

\* A closed reservation never changes again, and no row is ever deleted or
\* reset, whatever commits, releases, expiries and retries are still on
\* their way.
ClosedIsFinal ==
    [][ \A r \in Res :
          /\ Closed(res[r].status) => res'[r] = res[r]
          /\ Exists(r) => /\ res'[r].status \notin {"NONE"}
                          /\ res'[r].outstanding <= res[r].outstanding ]_rvars
=============================================================================
