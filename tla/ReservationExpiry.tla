------------------------- MODULE ReservationExpiry -------------------------
(***************************************************************************)
(* The expiry half of internal/scheduler/scheduler.go composed with the    *)
(* reservation handlers: every server process runs a scheduler that lists  *)
(* expired reservations and then expires them one transaction at a time,   *)
(* while callers go on committing and releasing.                           *)
(***************************************************************************)
EXTENDS Reservations

CONSTANTS
    Schedulers,   \* server processes, each with one scheduler goroutine
    BatchN,       \* SchedulerConfig.BatchN: rows listed per tick
    MaxErrors     \* bound on ExpireReservation calls that fail

ASSUME BatchNAssumption == BatchN \in Nat \ {0}
ASSUME MaxErrorsAssumption == MaxErrors \in Nat

VARIABLES
    batch,   \* the rows of the current tick still to be expired
    errors   \* failed ExpireReservation calls so far

evars == <<res, balance, journals, outbox, now, batch, errors>>

EInit ==
    /\ RInit
    /\ batch = [s \in Schedulers |-> {}]
    /\ errors = 0

\* Mutant: the listing forgets PARTIAL rows.
ListableHeld == {r \in Res : res[r].status = "HELD" /\ Due(r)}

\* Mutant: the listing does not compare expires_at with the clock.
ListableEarly == {r \in Res : Active(r)}

\* ListExpiredReservations: HELD or PARTIAL rows whose expires_at has passed.
Listable == {r \in Res : Active(r) /\ Due(r)}

\* ORDER BY expires_at LIMIT BatchN.
Batches(rows) ==
    {b \in SUBSET rows :
        /\ Cardinality(b) <= BatchN
        /\ Cardinality(b) < BatchN => b = rows
        /\ \A x \in b, y \in rows \ b : x <= y}

\* expiryTick reads its list; the rows may be closed before they are reached.
ListExpired(s) ==
    /\ batch[s] = {}
    /\ Listable # {}
    /\ batch' = [batch EXCEPT ![s] = CHOOSE b \in Batches(Listable) : TRUE]
    /\ UNCHANGED <<res, balance, journals, outbox, now, errors>>

InListOrder(s, r) == r \in batch[s] /\ \A x \in batch[s] : r <= x

\* The loop body: ExpireReservation on the next row.  A row closed meanwhile
\* is skipped.
ExpireNext(s, r) ==
    /\ InListOrder(s, r)
    /\ batch' = [batch EXCEPT ![s] = @ \ {r}]
    /\ IF MayExpire(r) THEN ExpireReservation(r)
                       ELSE UNCHANGED <<res, balance, journals, outbox, now>>
    /\ UNCHANGED errors

\* ExpireReservation fails (conflict, timeout): logged, and left to a later
\* tick.  A crash of the server loses the rest of its batch the same way.
ExpireFails(s, r) ==
    /\ InListOrder(s, r)
    /\ errors < MaxErrors
    /\ errors' = errors + 1
    /\ batch' = [batch EXCEPT ![s] = @ \ {r}]
    /\ UNCHANGED <<res, balance, journals, outbox, now>>

SchedulerStep(s) ==
    \/ ListExpired(s)
    \/ \E r \in Res : ExpireNext(s, r)

ENext ==
    \/ (Caller \/ Tick) /\ UNCHANGED <<batch, errors>>
    \/ \E s \in Schedulers :
          \/ SchedulerStep(s)
          \/ \E r \in Res : ExpireFails(s, r)

\* The ticker fires for ever and the goroutine is scheduled; nothing obliges
\* a caller to act or the clock to move.
ESpec ==
    /\ EInit
    /\ [][ENext]_evars
    /\ \A s \in Schedulers : WF_evars(SchedulerStep(s))

-----------------------------------------------------------------------------

\* Auto-expiry: a reservation still open when its expiry time has passed is
\* eventually closed, although several schedulers list overlapping batches,
\* calls fail and callers keep taking parts of it.
ExpiredGetClosed == \A r \in Res : (Active(r) /\ Due(r)) ~> Closed(res[r].status)

\* Between a stale list and the expiry of its rows the schedulers do nothing
\* but the transitions of the reservation lifecycle: a row is expired once, in
\* full, only when due, and not at all when it was closed after the listing
\* (the second check under LockReservation in expire_reservation.go).
SchedulersFollowLifecycle == RSpec
=============================================================================
