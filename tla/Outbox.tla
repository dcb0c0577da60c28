------------------------------- MODULE Outbox -------------------------------
(***************************************************************************)
(* The outbox dispatcher (internal/outbox/dispatcher.go).  Every server    *)
(* process runs one: on each tick it lists pending events, hands them to   *)
(* the sink one by one and marks those that the sink took.  Listing,       *)
(* publishing and marking are separate calls, so other dispatchers, new    *)
(* events and a crash of the server come in between.                       *)
(*                                                                         *)
(* An event is the number that is its created_at; it becomes visible when  *)
(* the transaction that inserts it commits, which need not be in that      *)
(* order.  The attempts counter of a failed event is left out: no code     *)
(* reads it.  The listing is that of the SQL backends; DynamoDB lists in   *)
(* the same order from an index that lags behind the events.               *)
(***************************************************************************)
EXTENDS Integers, FiniteSets

CONSTANTS
    OutboxEvents,   \* events, ordered by created_at
    Dispatchers,    \* server processes, each with one dispatcher goroutine
    BatchSize,      \* Config.BatchSize: events listed per tick
    Rejected,       \* events that the sink never takes
    MaxFaults       \* bound on crashes and failed calls of each dispatcher

ASSUME OutboxEventsAssumption == OutboxEvents \subseteq Nat \ {0}
ASSUME BatchSizeAssumption == BatchSize \in Nat \ {0}
ASSUME MaxFaultsAssumption == MaxFaults \in Nat

VARIABLES
    state,     \* publish_state of each event
    batch,     \* the events of the current tick that are still to be published
    marking,   \* the event that was published and is to be marked; 0 if none
    sent,      \* history: how often each dispatcher's sink took each event
    faults     \* faults of each dispatcher so far

ovars == <<state, batch, marking, sent, faults>>

OInit ==
    /\ state = [e \in OutboxEvents |-> "NONE"]
    /\ batch = [d \in Dispatchers |-> {}]
    /\ marking = [d \in Dispatchers |-> 0]
    /\ sent = [d \in Dispatchers |-> [e \in OutboxEvents |-> 0]]
    /\ faults = [d \in Dispatchers |-> 0]

\* The transaction of a handler that inserts the event commits.
InsertOutbox(e) ==
    /\ state[e] = "NONE"
    /\ state' = [state EXCEPT ![e] = "PENDING"]
    /\ UNCHANGED <<batch, marking, sent, faults>>

\* Mutant: the listing does not look at publish_state.
Inserted == {e \in OutboxEvents : state[e] # "NONE"}

Pending == {e \in OutboxEvents : state[e] = "PENDING"}

\* PendingOutbox: the oldest events, up to BatchSize of them.
PendingOutbox(b) ==
    /\ b \subseteq Pending
    /\ Cardinality(b) <= BatchSize
    /\ Cardinality(b) < BatchSize => b = Pending
    /\ \A x \in b, y \in Pending \ b : x < y

-----------------------------------------------------------------------------
(* One tick of dispatcher d.                                               *)

Idle(d) == batch[d] = {} /\ marking[d] = 0

\* Listing nothing changes nothing.
List(d) ==
    /\ Idle(d)
    /\ Pending # {}
    /\ \E b \in SUBSET Pending :
          /\ PendingOutbox(b)
          /\ batch' = [batch EXCEPT ![d] = b]
    /\ UNCHANGED <<state, marking, sent, faults>>

\* The next event of the loop.
Current(d, e) ==
    /\ marking[d] = 0
    /\ e \in batch[d]
    /\ \A x \in batch[d] : e <= x

\* The sink takes the event; MarkOutboxPublished comes next.
Publish(d, e) ==
    /\ Current(d, e)
    /\ e \notin Rejected
    /\ batch' = [batch EXCEPT ![d] = @ \ {e}]
    /\ marking' = [marking EXCEPT ![d] = e]
    /\ sent' = [sent EXCEPT ![d][e] = @ + 1]
    /\ UNCHANGED <<state, faults>>

\* Mutant: a failed event is marked like any other (no "continue").
SkipAndMark(d, e) ==
    /\ batch' = [batch EXCEPT ![d] = @ \ {e}]
    /\ marking' = [marking EXCEPT ![d] = e]

\* Mutant: the first failure ends the tick ("return" for "continue").
SkipRest(d, e) ==
    /\ batch' = [batch EXCEPT ![d] = {}]
    /\ UNCHANGED marking

\* "continue": the event stays pending and the loop goes on.
Skip(d, e) ==
    /\ batch' = [batch EXCEPT ![d] = @ \ {e}]
    /\ UNCHANGED marking

\* The sink never takes this event.
PublishRejected(d, e) ==
    /\ Current(d, e)
    /\ e \in Rejected
    /\ Skip(d, e)
    /\ UNCHANGED <<state, sent, faults>>

Fault(d) ==
    /\ faults[d] < MaxFaults
    /\ faults' = [faults EXCEPT ![d] = @ + 1]

\* Publish fails once, before or after the event was delivered.
PublishFails(d, e) ==
    /\ Current(d, e)
    /\ Fault(d)
    /\ Skip(d, e)
    /\ \/ UNCHANGED sent
       \/ e \notin Rejected /\ sent' = [sent EXCEPT ![d][e] = @ + 1]
    /\ UNCHANGED state

\* MarkOutboxPublished, of an event that another dispatcher may have marked.
Mark(d) ==
    /\ marking[d] # 0
    /\ state' = [state EXCEPT ![marking[d]] = "PUBLISHED"]
    /\ marking' = [marking EXCEPT ![d] = 0]
    /\ UNCHANGED <<batch, sent, faults>>

\* MarkOutboxPublished fails, before or after its update; it is only logged.
MarkFails(d) ==
    /\ marking[d] # 0
    /\ Fault(d)
    /\ \/ UNCHANGED state
       \/ state' = [state EXCEPT ![marking[d]] = "PUBLISHED"]
    /\ marking' = [marking EXCEPT ![d] = 0]
    /\ UNCHANGED <<batch, sent>>

\* The server dies and is started again; what it listed and what it was about
\* to mark is forgotten.
Crash(d) ==
    /\ ~ Idle(d)
    /\ Fault(d)
    /\ batch' = [batch EXCEPT ![d] = {}]
    /\ marking' = [marking EXCEPT ![d] = 0]
    /\ UNCHANGED <<state, sent>>

DispatcherStep(d) ==
    \/ List(d)
    \/ \E e \in OutboxEvents : Publish(d, e) \/ PublishRejected(d, e)
    \/ Mark(d)

ONext ==
    \/ \E e \in OutboxEvents : InsertOutbox(e)
    \/ \E d \in Dispatchers :
          \/ DispatcherStep(d)
          \/ \E e \in OutboxEvents : PublishFails(d, e)
          \/ MarkFails(d)
          \/ Crash(d)

\* The ticker of every server fires again and again, and its calls return.
OSpec ==
    /\ OInit
    /\ [][ONext]_ovars
    /\ \A d \in Dispatchers : WF_ovars(DispatcherStep(d))

-----------------------------------------------------------------------------
(* Correctness.                                                            *)

\* Every variable holds a value of its kind.
OTypeOK ==
    /\ state \in [OutboxEvents -> {"NONE", "PENDING", "PUBLISHED"}]
    /\ batch \in [Dispatchers -> SUBSET OutboxEvents]
    /\ marking \in [Dispatchers -> OutboxEvents \cup {0}]
    /\ sent \in [Dispatchers -> [OutboxEvents -> Nat]]
    /\ faults \in [Dispatchers -> 0 .. MaxFaults]

\* At least once: no event leaves the queue undelivered, whatever crashes
\* between Publish and MarkOutboxPublished and however the batches of several
\* dispatchers overlap; an event the sink never takes stays pending.
NeverDropped ==
    \A e \in OutboxEvents :
        state[e] = "PUBLISHED" => \E d \in Dispatchers : sent[d][e] > 0

\* Duplicates have a reason: a server delivers an event again only after one
\* of its own crashes or failed calls, so that without faults there are at
\* most as many deliveries as servers.
DuplicatesAreFaults ==
    \A d \in Dispatchers, e \in OutboxEvents : sent[d][e] <= 1 + faults[d]

\* What makes the two inductive (tick's order: list, publish, then mark):
\* nothing is sent before the transaction that inserts it commits; a
\* dispatcher delivered an event that it holds, or that is pending, no more
\* often than it failed, unless it is about to mark it.
OInvariant ==
    /\ OTypeOK
    /\ \A d \in Dispatchers, e \in OutboxEvents :
          /\ state[e] = "NONE" => sent[d][e] = 0 /\ e \notin batch[d]
          /\ e \in batch[d] => sent[d][e] <= faults[d] /\ marking[d] # e
          /\ state[e] = "PENDING" /\ marking[d] # e => sent[d][e] <= faults[d]
          /\ marking[d] = e => sent[d][e] > 0

\* "delivery is at-least-once" (docs/ARCHITECTURE.md, Idempotency): every
\* committed event that the sink would take is eventually delivered and
\* marked, although crashes interrupt ticks and rejected events stay in the
\* list (tick's PendingOutbox of the oldest BatchSize events).  It needs fewer
\* than BatchSize rejected events: attempts limits nothing.
EventuallyPublished ==
    \A e \in OutboxEvents \ Rejected :
        state[e] = "PENDING" ~> state[e] = "PUBLISHED"
=============================================================================
