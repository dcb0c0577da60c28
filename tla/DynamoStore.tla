---------------------------- MODULE DynamoStore ----------------------------
(***************************************************************************)
(* The items and index queries of internal/repo/dynamo that are not part   *)
(* of a transaction: the listings of reservations and of the outbox.  An   *)
(* index holds an item while the item has the index's key; its sort keys   *)
(* begin with a time as RFC3339Nano text.  The delay of an index and the   *)
(* operations of unsupported.go (snapshots, FX rates, activity,            *)
(* reconciliation) are left out.                                           *)
(***************************************************************************)
EXTENDS SqlRows

CONSTANTS
    AccountRows,    \* the accounts, whose ids spell their owners
    DigitValues     \* what one counts in each digit of a fraction, and Unit

\* EnsureTable: one table, here by kind of item.
Items == [reservations |-> {}, outbox |-> {}]

\* The text of t, but for the 'Z' that ends it, begins that of u, which has
\* more digits.
Begins(t, u) == t # u /\ \E v \in DigitValues : t = v * (u \div v)

\* The order of fmtTime's texts.  RFC3339Nano drops trailing zeros, and '.' and
\* the digits sort before 'Z': a text comes after those it begins.
TextBefore(t, u) ==
    \/ t \div Unit < u \div Unit
    \/ /\ t \div Unit = u \div Unit
       /\ \/ Begins(u, t)
          \/ t < u /\ ~ Begins(t, u)

KeyBefore(t, i, u, j) == TextBefore(t, u) \/ (t = u /\ i < j)

Older(i, j) == KeyBefore(i.created_at, i.id, j.created_at, j.id)

reservationActive(status) == status \in {"HELD", "PARTIAL"}

\* CreateAccount makes an account's id of its owner.
parseAccountOwner(id) == (CHOOSE a \in AccountRows : a.id = id).owner

\* Mutant: a closed reservation keeps its place in the expiry index.
reservationToItemSticky(r) ==
    [id |-> r.id, owner |-> parseAccountOwner(r.source_account_id), status |-> r.status,
     expires_at |-> r.expires_at, created_at |-> r.created_at,
     gsi1 |-> r.expires_at # NoTime,
     gsi2 |-> reservationActive(r.status)]

\* gsi1, the expiry index, and gsi2, the owner's index, hold active
\* reservations only.
reservationToItem(r) ==
    [id |-> r.id, owner |-> parseAccountOwner(r.source_account_id), status |-> r.status,
     expires_at |-> r.expires_at, created_at |-> r.created_at,
     gsi1 |-> reservationActive(r.status) /\ r.expires_at # NoTime,
     gsi2 |-> reservationActive(r.status)]

\* InsertReservation and UpdateReservationAmounts put the whole item.
PutReservation(items, r) ==
    [items EXCEPT !.reservations = {i \in @ : i.id # r.id} \cup {reservationToItem(r)}]

\* gsi1sk < fmtTime(now): strictly before.
ListExpiredReservations(items, now, limit) ==
    MapPage(Page({i \in items.reservations : i.gsi1 /\ TextBefore(i.expires_at, now)},
                 LAMBDA i, j : KeyBefore(i.expires_at, i.id, j.expires_at, j.id),
                 IF limit <= 0 THEN 100 ELSE limit),
            LAMBDA i : i.id)

\* The first 3 * limit items of the owner, oldest first, then those with the
\* status, up to the limit.  Without an owner there is no partition to query.
ListReservations(items, owner, status, limit) ==
    LET n == IF limit <= 0 \/ limit > 500 THEN 100 ELSE limit
        found == Page({i \in items.reservations : i.gsi2 /\ i.owner = owner}, Older, 3 * n)
        Matching(q) == {i \in ToSet(q) : status = "" \/ i.status = status}
    IN  IF owner = "" THEN {<<>>}
        ELSE MapPage(UNION {Page(Matching(q), Older, n) : q \in found}, LAMBDA i : i.id)

outboxToItem(id, now) == [id |-> id, created_at |-> now, gsi1 |-> TRUE, attempts |-> 0]

InsertOutbox(items, id, now) ==
    [items EXCEPT !.outbox = @ \cup {outboxToItem(id, now)}]

PendingOutbox(items, limit) ==
    MapPage(Page({i \in items.outbox : i.gsi1}, Older, IF limit <= 0 THEN 100 ELSE limit),
            LAMBDA i : i.id)

\* REMOVE gsi1pk, gsi1sk.
MarkOutboxPublished(items, id) == [items EXCEPT !.outbox = Update(@, id, "gsi1", FALSE)]

IncrementOutboxAttempts(items, id) ==
    [items EXCEPT !.outbox =
        {IF i.id = id THEN [i EXCEPT !.attempts = i.attempts + 1] ELSE i : i \in @}]
=============================================================================
