------------------------- MODULE DynamoReservations -------------------------
(***************************************************************************)
(* The reservation handlers on the DynamoDB backend.  LockReservation      *)
(* takes no lock: it reads the RES# item and remembers its version; the    *)
(* inner flow then reads its FIDEMP# marker and balances; Commit writes    *)
(* everything in one TransactWriteItems guarded by what was read.  Any     *)
(* number of handlers, for the same reservation or not, interleave between *)
(* these steps.                                                            *)
(*                                                                         *)
(* Balance reads are one step here; DynamoFlow has them one by one and     *)
(* shows that their version conditions make the order immaterial.          *)
(***************************************************************************)
EXTENDS Integers, FiniteSets

CONSTANTS
    Res, Original, Keys, Amounts, Funds,   \* as in Reservations
    Handlers    \* concurrent request handlers and scheduler goroutines

ASSUME ResAssumption == Res \subseteq Nat \ {0} /\ IsFiniteSet(Res)
ASSUME OriginalAssumption == Original \in [Res -> Nat \ {0}]
ASSUME AmountsAssumption == Amounts \subseteq Nat \ {0}
ASSUME FundsAssumption == Funds \in Nat

VARIABLES
    res,        \* RES# items (their RIDEMP# marker is put with them)
    resVersion, \* ... and their versions
    balance,    \* BAL# items of the three accounts
    balVersion, \* ... and their versions
    journals,   \* FLOW#, FIDEMP#, JRN# and EVT# items of the inner flows
    outbox,     \* OBX# items, counted per idempotency key
    now,        \* the clock, in units of expires_at
    pc, op,     \* each handler's position and the call it serves
    row,        \* the reservation it read, with the version
    read,       \* the balances it read, with their versions
    replay      \* the inner flow was found posted

dtable == <<res, resVersion, balance, balVersion, journals, outbox, now>>
dvars == <<res, resVersion, balance, balVersion, journals, outbox, now,
           pc, op, row, read, replay>>

\* The atomic specification, for a store whose outbox key is not unique.
R == INSTANCE Reservations WITH UniqueOutbox <- FALSE

Ops ==
    {[kind |-> "create", res |-> r, key |-> "", amount |-> Original[r]] : r \in Res}
    \cup {[kind |-> "expire", res |-> r, key |-> "", amount |-> 0] : r \in Res}
    \cup [kind : {"commit", "release"}, res : Res, key : Keys, amount : Amounts]

AnyOp == CHOOSE o \in Ops : TRUE   \* what an idle handler has

FlowKey(o) == <<o.kind, o.res, o.key>>

NoRead == [data |-> R!NoRow, version |-> 0]
NoVersions == [a \in R!AccountNames |-> 0]
NoBalances == [amount |-> NoVersions, version |-> NoVersions]

DInit ==
    /\ R!RInit
    /\ resVersion = [r \in Res |-> 0]
    /\ balVersion = NoVersions
    /\ pc = [h \in Handlers |-> "idle"]
    /\ op = [h \in Handlers |-> AnyOp]
    /\ row = [h \in Handlers |-> NoRead]
    /\ read = [h \in Handlers |-> NoBalances]
    /\ replay = [h \in Handlers |-> FALSE]

From(o) == IF o.kind = "create" THEN "source" ELSE "reserved"

To(o) == CASE o.kind = "create" -> "reserved"
           [] o.kind = "commit" -> "destination"
           [] OTHER -> "source"

\* ExpireReservation takes all that was outstanding in the row it read.
AmountOf(h) == IF op[h].kind = "expire" THEN row[h].data.outstanding ELSE op[h].amount

Finish(h) ==
    /\ pc' = [pc EXCEPT ![h] = "idle"]
    /\ row' = [row EXCEPT ![h] = NoRead]
    /\ read' = [read EXCEPT ![h] = NoBalances]
    /\ replay' = [replay EXCEPT ![h] = FALSE]
    /\ UNCHANGED op

-----------------------------------------------------------------------------
(* The handlers' steps.                                                    *)

\* A call arrives, perhaps one that was sent before: callers retry when they
\* get no answer.  The scheduler calls expire for a reservation that an
\* (eventually consistent) index query listed as past its expires_at.
Submit(h, o) ==
    /\ pc[h] = "idle"
    /\ o.kind = "expire" => o.res <= now
    /\ pc' = [pc EXCEPT ![h] = "lock"]
    /\ op' = [op EXCEPT ![h] = o]
    /\ UNCHANGED <<res, resVersion, balance, balVersion, journals, outbox, now,
                   row, read, replay>>

\* The row is not one this call may work on: an existing row is CreateReservation's
\* replay; otherwise not found, closed, or the amount exceeds what is left.
Refused(o) ==
    IF o.kind = "create" THEN res[o.res].status # "NONE"
    ELSE \/ res[o.res].status \notin {"HELD", "PARTIAL"}
         \/ o.amount > res[o.res].outstanding
         \/ o.kind = "expire" /\ res[o.res].outstanding = 0

\* GetReservationByIdempotency / LockReservation and the checks on the row.
Lock(h) ==
    LET o == op[h]
    IN  /\ pc[h] = "lock"
        /\ IF Refused(o)
           THEN Finish(h)
           ELSE /\ row' = [row EXCEPT ![h] = [data |-> res[o.res],
                                             version |-> resVersion[o.res]]]
                /\ pc' = [pc EXCEPT ![h] = "flow"]
                /\ UNCHANGED <<op, read, replay>>
        /\ UNCHANGED dtable

\* executeFlowInTx up to its buffered writes: FIDEMP# lookup, LockBalance of
\* both accounts, overdraft check.
Flow(h) ==
    LET o == op[h]
    IN  /\ pc[h] = "flow"
        /\ \/ /\ FlowKey(o) \in R!JournalKeys
              /\ replay' = [replay EXCEPT ![h] = TRUE]
              /\ pc' = [pc EXCEPT ![h] = "commit"]
              /\ UNCHANGED <<op, row, read>>
           \/ /\ FlowKey(o) \notin R!JournalKeys
              /\ balance[From(o)] < AmountOf(h)
              /\ Finish(h)
           \/ /\ FlowKey(o) \notin R!JournalKeys
              /\ balance[From(o)] >= AmountOf(h)
              /\ read' = [read EXCEPT ![h] = [amount |-> balance, version |-> balVersion]]
              /\ pc' = [pc EXCEPT ![h] = "commit"]
              /\ UNCHANGED <<op, row, replay>>
        /\ UNCHANGED dtable

\* Mutant: the RES# put carries no version condition.
RowUnchecked(h) ==
    op[h].kind = "create" => res[op[h].res].status = "NONE"

\* The condition on the RES# item: attribute_not_exists when this transaction
\* inserts it, version = :readVersion when it was read.
RowCondition(h) ==
    IF op[h].kind = "create"
    THEN res[op[h].res].status = "NONE"
    ELSE resVersion[op[h].res] = row[h].version

\* Mutant: the balances are put without their version conditions.
BalancesUnchecked(h) == replay[h] \/ FlowKey(op[h]) \notin R!JournalKeys

\* The conditions on the inner flow's items.  A replay has buffered none.
FlowCondition(h) ==
    replay[h] \/ /\ FlowKey(op[h]) \notin R!JournalKeys
                 /\ \A a \in {From(op[h]), To(op[h])} :
                       balVersion[a] = read[h].version[a]

\* What the handler computed from the row it read.
NewRow(h) ==
    LET o == op[h]
    IN  CASE o.kind = "create" ->
               [status |-> "HELD", outstanding |-> o.amount, committed |-> 0, released |-> 0]
          [] o.kind = "commit" -> R!AfterCommit(row[h].data, AmountOf(h), "COMMITTED")
          [] o.kind = "release" -> R!AfterRelease(row[h].data, AmountOf(h), "RELEASED")
          [] o.kind = "expire" -> R!AfterRelease(row[h].data, AmountOf(h), "EXPIRED")

\* TransactWriteItems with every condition holding.  The caller may or may not
\* get the answer.
\* UpdateReservationAmounts and InsertOutbox follow a replayed inner flow too.
Commit(h) ==
    LET o == op[h]
    IN  /\ pc[h] = "commit"
        /\ RowCondition(h)
        /\ FlowCondition(h)
        /\ IF replay[h]
           THEN UNCHANGED <<balance, balVersion, journals>>
           ELSE /\ balance' = [balance EXCEPT
                                   ![From(o)] = read[h].amount[From(o)] - AmountOf(h),
                                   ![To(o)] = read[h].amount[To(o)] + AmountOf(h)]
                /\ balVersion' = [balVersion EXCEPT
                                   ![From(o)] = read[h].version[From(o)] + 1,
                                   ![To(o)] = read[h].version[To(o)] + 1]
                /\ journals' = journals \cup {[key |-> FlowKey(o), amount |-> AmountOf(h)]}
        /\ res' = [res EXCEPT ![o.res] = NewRow(h)]
        /\ resVersion' = [resVersion EXCEPT ![o.res] = row[h].version + 1]
        /\ outbox' = [outbox EXCEPT ![FlowKey(o)] = @ + 1]
        /\ UNCHANGED now
        /\ Finish(h)

\* TransactionCanceledException: nothing is written.
CommitCancelled(h) ==
    /\ pc[h] = "commit"
    /\ ~ (RowCondition(h) /\ FlowCondition(h))
    /\ Finish(h)
    /\ UNCHANGED dtable

\* A failed call or a crash at any point before the write.
Abandon(h) ==
    /\ pc[h] # "idle"
    /\ Finish(h)
    /\ UNCHANGED dtable

Tick ==
    /\ R!Tick
    /\ UNCHANGED <<resVersion, balVersion, pc, op, row, read, replay>>

DNext ==
    \/ Tick
    \/ \E h \in Handlers :
          \/ \E o \in Ops : Submit(h, o)
          \/ Lock(h)
          \/ Flow(h)
          \/ Commit(h)
          \/ CommitCancelled(h)
          \/ Abandon(h)

DSpec == DInit /\ [][DNext]_dvars

-----------------------------------------------------------------------------
(* Correctness.                                                            *)

DTypeOK ==
    /\ R!RTypeOK
    /\ resVersion \in [Res -> Nat]
    /\ balVersion \in [R!AccountNames -> Nat]
    /\ pc \in [Handlers -> {"idle", "lock", "flow", "commit"}]
    /\ op \in [Handlers -> Ops \cup {AnyOp}]
    /\ row \in [Handlers -> [data : R!ReservationRow, version : Nat]]
    /\ read \in [Handlers -> [amount : [R!AccountNames -> Nat],
                             version : [R!AccountNames -> Nat]]]
    /\ replay \in [Handlers -> BOOLEAN]

\* The call a handler works on; an expiry is of a reservation that is due.
CallOK(h) ==
    pc[h] # "idle" => op[h] \in Ops /\ (op[h].kind = "expire" => op[h].res <= now)

\* The row it holds: as the table has it while the version is the one read, and
\* one the checks under LockReservation let through.
RowReadOK(h) ==
    pc[h] \in {"flow", "commit"} =>
        /\ row[h].version <= resVersion[op[h].res]
        /\ row[h].version = resVersion[op[h].res] => row[h].data = res[op[h].res]
        /\ IF op[h].kind = "create"
           THEN row[h].version = 0
           ELSE /\ row[h].data.status \in {"HELD", "PARTIAL"}
                /\ AmountOf(h) <= row[h].data.outstanding
                /\ AmountOf(h) # 0

\* What it found of the inner flow: a posted journal, or the balances, as the
\* table has them while their versions are the ones read, and enough of them.
FlowReadOK(h) ==
    IF pc[h] = "commit" /\ ~ replay[h]
    THEN /\ \A a \in R!AccountNames :
               /\ read[h].version[a] <= balVersion[a]
               /\ read[h].version[a] = balVersion[a] => read[h].amount[a] = balance[a]
         /\ AmountOf(h) <= read[h].amount[From(op[h])]
    ELSE replay[h] => pc[h] = "commit" /\ FlowKey(op[h]) \in R!JournalKeys

\* Why the conditions of the TransactWriteItems suffice: whatever a handler
\* read is either still what the table holds or carries a version the table
\* has left behind for good, and a reservation that was never inserted has
\* left none behind.
VersionsTell ==
    /\ DTypeOK
    /\ \A r \in Res : res[r].status = "NONE" => resVersion[r] = 0
    /\ \A h \in Handlers : CallOK(h) /\ RowReadOK(h) /\ FlowReadOK(h)

\* The optimistic transactions implement the atomic handlers: no interleaving
\* of commits, releases and expiries on one reservation, and no retry, shows
\* anything that one handler at a time could not.
ImplementsReservations == R!RSpec

\* Open reservations stay covered by the reserved account.
DReservationsCovered == R!ReservationsCovered

\* Each inner flow moves its money once: the balances are what the posted
\* journals add up to, whatever was retried.
MoneyMovedOnce == R!ReservedMatchesJournals

\* Both: races on rows and on balances leave the reserved account right.
DBooksAreRight == DReservationsCovered /\ MoneyMovedOnce

\* As the retry contract of internal/repo/dynamo/README.md has it, "Retrying
\* with the same idempotency key is safe: [...] subsequent attempts hit the
\* idempotent-replay path and return the cached result without re-executing
\* the flow": the row of a reservation shows exactly what its posted
\* transitions moved.
RetryIsSafe == R!AmountsMatchJournals
=============================================================================
