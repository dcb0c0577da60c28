------------------------------- MODULE Wallet -------------------------------
(***************************************************************************)
(* Wallet.GetWallet (pkg/dledger/wallet.go) beside the reservation handlers *)
(* and the schedulers.  Reserve, Commit and Release of the SDK are the     *)
(* Caller actions of module Reservations.  GetWallet reads the balances,   *)
(* lists the HELD and then the PARTIAL reservations in calls of their own, *)
(* and anything may be committed in between.  The balances go to the       *)
(* caller as they were read and nothing later depends on them.             *)
(***************************************************************************)
EXTENDS ReservationExpiry

CONSTANT PageSize   \* rows ListReservations returns when it is given no page_size

\* GetWallet reads one page of each status: a player with more reservations in
\* one status than that does not see them all.
ASSUME PageAssumption == PageSize \in Nat /\ Cardinality(Res) <= PageSize

VARIABLES
    wpc,       \* the listing GetWallet makes next
    open,      \* OpenReservations, as far as they have been appended
    through    \* history: the reservations open ever since the call began

wallet == <<wpc, open, through>>
wvars == <<res, balance, journals, outbox, now, batch, errors, wpc, open, through>>

WInit ==
    /\ EInit
    /\ wpc = "idle"
    /\ open = {}
    /\ through = {}

\* w.balance of cash_available and of cash_reserved.
ReadBalances ==
    /\ wpc = "idle"
    /\ wpc' = "first"
    /\ open' = {}
    /\ through' = {r \in Res : Active(r)}

\* Mutant: the PARTIAL rows are listed first.
PartialFirst(turn) == IF turn = "first" THEN "PARTIAL" ELSE "HELD"

\* The loop over []string{"HELD", "PARTIAL"}.
StatusOf(turn) == IF turn = "first" THEN "HELD" ELSE "PARTIAL"

\* ListReservations with a status filter; the rows are appended.
ListOpen ==
    /\ wpc \in {"first", "second"}
    /\ open' = open \cup {r \in Res : res[r].status = StatusOf(wpc)}
    /\ wpc' = IF wpc = "first" THEN "second" ELSE "idle"
    /\ through' = IF wpc = "first" THEN through ELSE {}

\* What else goes on; a reservation that closes is no longer open throughout.
Others ==
    /\ ENext
    /\ through' = {r \in through : res'[r].status \in {"HELD", "PARTIAL"}}
    /\ UNCHANGED <<wpc, open>>

WNext == Others \/ ((ReadBalances \/ ListOpen) /\ UNCHANGED evars)

\* As in ReservationExpiry.
WSpec ==
    /\ WInit
    /\ [][WNext]_wvars
    /\ \A s \in Schedulers : WF_evars(SchedulerStep(s))

-----------------------------------------------------------------------------
\* The order of GetWallet's listings does its work: a reservation that was open
\* from the first read to the last is in the answer, although it may go from
\* HELD to PARTIAL between the two listings.
OpenIsListed ==
    [][ (wpc = "second" /\ wpc' = "idle") => through \subseteq open' ]_wvars
=============================================================================
