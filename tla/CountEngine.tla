----------------------------- MODULE CountEngine -----------------------------
(***************************************************************************)
(* One counting session: the event log the counter's phone fills, and the  *)
(* quantities the server derives from it.                                  *)
(*                                                                         *)
(* Every request that writes takes the row lock of the campaign and then   *)
(* that of the session (event_service.py:497-498), so a single event, an   *)
(* undo and the commands that close the session are atomic steps.  A batch *)
(* is one transaction of several events: it holds the locks from its first *)
(* event to its end, but the clock and the product catalogue go on         *)
(* moving, so each of its events is a step of its own.                     *)
(*                                                                         *)
(* A quantity lives in a cell: the total of a product, or the row of a     *)
(* scanned code the catalogue does not know.  A reference is the product's *)
(* internal_reference, which is also the code its label carries.           *)
(***************************************************************************)
EXTENDS Integers, Sequences

CONSTANTS
    Refs,          \* product references, and so the codes that can be scanned
    Snapshot,      \* references of the campaign's frozen snapshot
    Uuids,         \* client_event_uuid values the clients use
    ForeignUuids,  \* those already used in some other session
    NoUuid,        \* a server-generated identifier, of an UNDO sent without one
    Inputs,        \* the payloads (without uuid) the clients send
    NoInput,       \* the signature of an UNDO
    NoRow,         \* no inventory_extra_items row
    MaxEvents,     \* bound: length of the log
    MaxQty,        \* bound: largest quantity of a cell
    MaxBatch       \* bound: events of a batch (MAX_BATCH_EVENTS in the code)

EventTypes == {"QR_SCAN", "MANUAL_ADD", "MANUAL_SUBTRACT", "MANUAL_SET",
               "DAMAGE_ADD", "DAMAGE_SUBTRACT"}
Domains == {"physical", "damage"}
Cells == {"product", "unknown"} \X Refs
Input == [type: EventTypes, via: {"product_id", "scanned_code"},
          ref: Refs, qty: Nat]

ASSUME SnapshotAssumption == Snapshot \subseteq Refs
ASSUME UuidAssumption == ForeignUuids \subseteq Uuids /\ NoUuid \notin Uuids
ASSUME InputAssumption == Inputs \subseteq Input /\ NoInput \notin Inputs
ASSUME NoRowAssumption == NoRow \notin Nat
ASSUME BoundAssumption == MaxEvents \in Nat /\ MaxQty \in Nat /\ MaxBatch \in Nat

VARIABLES
    catalog,   \* references that are products of the catalogue
    log,       \* inventory_count_events by server_sequence
    qty,       \* quantity and damaged_quantity of every cell (0 without a row)
    rows,      \* cells that have a total or an unknown-code row
    extra,     \* inventory_extra_items.quantity by reference
    session,   \* status of the session
    campaign,  \* ACTIVE is IN_PROGRESS or RECOUNT; INACTIVE any other but EXPIRED
    due,       \* the campaign's deadline has passed
    assigned,  \* the session's owner holds the campaign's ACTIVE assignment
    batch      \* the open batch transaction: events left and what it would roll back to

counts == <<log, qty, rows, extra>>
life == <<session, campaign, due, assigned>>
vars == <<catalog, log, qty, rows, extra, session, campaign, due, assigned, batch>>

Event == [uuid: Uuids \cup {NoUuid}, input: Inputs \cup {NoInput}, cell: Cells,
          domain: Domains, before: Nat, after: Nat, undoes: Nat]
Quantities == [Domains -> [Cells -> Nat]]
Extras == [Refs -> Nat \cup {NoRow}]

NoBatch == [open |-> FALSE, left |-> 0, log |-> <<>>,
            qty |-> [d \in Domains |-> [c \in Cells |-> 0]],
            rows |-> {}, extra |-> [r \in Refs |-> NoRow]]

TypeOK ==
    /\ catalog \subseteq Refs
    /\ log \in Seq(Event)
    /\ qty \in Quantities
    /\ rows \subseteq Cells
    /\ extra \in Extras
    /\ session \in {"IN_PROGRESS", "SUBMITTED", "CANCELLED"}
    /\ campaign \in {"ACTIVE", "EXPIRED", "INACTIVE"}
    /\ due \in BOOLEAN
    /\ assigned \in BOOLEAN
    /\ batch \in [open: BOOLEAN, left: Nat, log: Seq(Event), qty: Quantities,
                  rows: SUBSET Cells, extra: Extras]

(* A session is born in a running campaign, for the holder of the active   *)
(* assignment, with nothing counted (session_service.start_session).  The  *)
(* snapshot was built from products of the catalogue.                      *)
Init ==
    /\ catalog \in {k \in SUBSET Refs : Snapshot \subseteq k}
    /\ log = <<>>
    /\ qty = [d \in Domains |-> [c \in Cells |-> 0]]
    /\ rows = {}
    /\ extra = [r \in Refs |-> NoRow]
    /\ session = "IN_PROGRESS"
    /\ campaign = "ACTIVE"
    /\ due = FALSE
    /\ assigned = TRUE
    /\ batch = NoBatch

-----------------------------------------------------------------------------
(* Reading a payload.                                                      *)

\* A code of the catalogue counts the product, any other code its unknown row.
Target(s) == <<IF s.ref \in catalog THEN "product" ELSE "unknown", s.ref>>

Domain(s) ==
    IF s.type \in {"DAMAGE_ADD", "DAMAGE_SUBTRACT"} THEN "damage" ELSE "physical"

\* A product_id must exist; an unknown code is registered by a scan only.
Resolves(s) ==
    /\ s.via = "product_id" => s.ref \in catalog
    /\ s.ref \notin catalog => Target(s) \in rows \/ s.type = "QR_SCAN"

NewQuantity(s) ==
    LET old == qty[Domain(s)][Target(s)]
    IN  CASE s.type = "QR_SCAN" -> old + 1
          [] s.type \in {"MANUAL_ADD", "DAMAGE_ADD"} -> old + s.qty
          [] s.type \in {"MANUAL_SUBTRACT", "DAMAGE_SUBTRACT"} -> old - s.qty
          [] s.type = "MANUAL_SET" -> s.qty

\* Mutant: damage is compared only when it grows, never when the count shrinks.
AdmissibleNoShrinkCheck(s) ==
    /\ s.type \notin {"QR_SCAN", "MANUAL_SET"} => s.qty > 0
    /\ NewQuantity(s) >= 0
    /\ s.type = "DAMAGE_ADD" => NewQuantity(s) <= qty["physical"][Target(s)]

\* Mutant: a subtraction may take more than there is.
AdmissibleBelowZero(s) ==
    /\ s.type \notin {"QR_SCAN", "MANUAL_SET"} => s.qty > 0
    /\ s.type = "DAMAGE_ADD" => NewQuantity(s) <= qty["physical"][Target(s)]

\* What _compute, _compute_damaged and the check after them let through.
Admissible(s) ==
    /\ s.type \notin {"QR_SCAN", "MANUAL_SET"} => s.qty > 0
    /\ NewQuantity(s) >= 0
    /\ Domain(s) = "physical" => NewQuantity(s) >= qty["damage"][Target(s)]
    /\ s.type = "DAMAGE_ADD" => NewQuantity(s) <= qty["physical"][Target(s)]

\* Mutant: the uuid is looked up among the last event only.
FreshAgainstLast(u) ==
    u \notin ForeignUuids /\ (log # <<>> => log[Len(log)].uuid # u)

\* No event of any session carries the uuid yet.
Fresh(u) == u \notin ForeignUuids /\ \A i \in DOMAIN log : log[i].uuid # u

\* The uuid is taken by another session or by a different payload.
Conflict(u, s) ==
    \/ u \in ForeignUuids
    \/ \E i \in DOMAIN log : log[i].uuid = u /\ log[i].input # s

\* Mutant: the extra row is written when it is created and never again.
SyncedOnce(c, n) ==
    IF c[1] = "product" /\ c[2] \notin Snapshot /\ extra[c[2]] = NoRow
    THEN [extra EXCEPT ![c[2]] = n] ELSE extra

\* _sync_extra: a counted product the snapshot lacks mirrors its total.
Synced(c, n) ==
    IF c[1] = "product" /\ c[2] \notin Snapshot
    THEN [extra EXCEPT ![c[2]] = n] ELSE extra

\* Mutant: the status of the session is not looked at.
CountableAnySession == assigned /\ campaign = "ACTIVE" /\ ~due

\* _assert_actor_owns, _assert_open and assert_campaign_active all pass.
Countable == session = "IN_PROGRESS" /\ assigned /\ campaign = "ACTIVE" /\ ~due

-----------------------------------------------------------------------------
(* Writing an event: the log entry, the total or unknown row, the extra.   *)
Write(e) ==
    /\ Len(log) < MaxEvents /\ e.after <= MaxQty
    /\ log' = Append(log, e)
    /\ qty' = [qty EXCEPT ![e.domain][e.cell] = e.after]
    /\ rows' = rows \cup {e.cell}
    /\ extra' = IF e.domain = "physical" THEN Synced(e.cell, e.after) ELSE extra

\* The event a payload gives rise to.
EventOf(u, s) ==
    [uuid |-> u, input |-> s, cell |-> Target(s), domain |-> Domain(s),
     before |-> qty[Domain(s)][Target(s)], after |-> NewQuantity(s), undoes |-> 0]

\* One accepted event, in a request of its own or in a batch.
Record(u, s) == Fresh(u) /\ Resolves(s) /\ Admissible(s) /\ Write(EventOf(u, s))

\* process_event with commit=True.  A refused event leaves no trace.
PostEvent(u, s) ==
    /\ ~batch.open /\ Countable
    /\ Record(u, s)
    /\ UNCHANGED <<catalog, life, batch>>

(* Batches: process_batch runs process_event with commit=False for each    *)
(* event and commits at the end.                                           *)

OpenBatch(n) ==
    /\ ~batch.open /\ Countable
    /\ batch' = [open |-> TRUE, left |-> n, log |-> log, qty |-> qty,
                 rows |-> rows, extra |-> extra]
    /\ UNCHANGED <<catalog, counts, life>>

BatchEvent(u, s) ==
    /\ batch.open /\ batch.left > 0 /\ Countable
    /\ Record(u, s)
    /\ batch' = [batch EXCEPT !.left = @ - 1]
    /\ UNCHANGED <<catalog, life>>

\* A retried event is answered from the log before any other check.
BatchReplay(u, s) ==
    /\ batch.open /\ batch.left > 0
    /\ ~Fresh(u) /\ ~Conflict(u, s)
    /\ batch' = [batch EXCEPT !.left = @ - 1]
    /\ UNCHANGED <<catalog, counts, life>>

BatchCommit ==
    /\ batch.open /\ batch.left = 0
    /\ batch' = NoBatch
    /\ UNCHANGED <<catalog, counts, life>>

\* Mutant: a row is committed as soon as it is created.
KeepRows ==
    /\ log' = batch.log
    /\ qty' = batch.qty
    /\ extra' = batch.extra
    /\ UNCHANGED rows

\* Mutant: the events vanish, the totals they moved stay.
KeepQuantities == log' = batch.log /\ UNCHANGED <<qty, rows, extra>>

\* The transaction's writes vanish.
RollBack ==
    /\ log' = batch.log
    /\ qty' = batch.qty
    /\ rows' = batch.rows
    /\ extra' = batch.extra

\* An event of the batch is refused.
BatchReject(u, s) ==
    /\ batch.open /\ batch.left > 0
    /\ \/ Conflict(u, s)
       \/ ~due /\ Fresh(u) /\ ~(Resolves(s) /\ Admissible(s))
    /\ RollBack
    /\ batch' = NoBatch
    /\ UNCHANGED <<catalog, life>>

\* The worker or its connection dies: PostgreSQL rolls the transaction back.
BatchCrash ==
    /\ batch.open
    /\ RollBack
    /\ batch' = NoBatch
    /\ UNCHANGED <<catalog, life>>

(* A request that finds the deadline passed, on this session or elsewhere  *)
(* in the campaign, commits the expiry before it fails                     *)
(* (assert_campaign_active).  Within a batch that commit also keeps the    *)
(* events the batch had flushed.                                           *)
ExpireOnRequest ==
    /\ campaign = "ACTIVE" /\ due
    /\ batch.open => batch.left > 0
    /\ campaign' = "EXPIRED"
    /\ batch' = NoBatch
    /\ UNCHANGED <<catalog, counts, session, due, assigned>>

-----------------------------------------------------------------------------
(* Undo.                                                                   *)

\* _domain_events: events of the cell and domain that nothing has undone.
Effective(lg, d, c) ==
    {i \in DOMAIN lg : /\ lg[i].undoes = 0 /\ lg[i].domain = d /\ lg[i].cell = c
                       /\ \A j \in DOMAIN lg : lg[j].undoes # i}

\* Mutant: any event that was not undone yet may be undone.
UndoableAny(i) ==
    /\ log[i].undoes = 0
    /\ i \in Effective(log, log[i].domain, log[i].cell)

\* Only the last effective event of its cell and domain.
Undoable(i) ==
    /\ log[i].undoes = 0
    /\ i \in Effective(log, log[i].domain, log[i].cell)
    /\ \A j \in Effective(log, log[i].domain, log[i].cell) : j <= i

\* undo_event.  The client may name the UNDO; a name that is taken breaks the
\* unique index and the request fails.
UndoEvent(i, u) ==
    LET c == log[i].cell
        d == log[i].domain
        n == log[i].before
    IN  /\ ~batch.open /\ Countable
        /\ Undoable(i) /\ (u # NoUuid => Fresh(u))
        /\ IF d = "physical" THEN n >= qty["damage"][c] ELSE n <= qty["physical"][c]
        /\ Write([uuid |-> u, input |-> NoInput, cell |-> c, domain |-> d,
                  before |-> qty[d][c], after |-> n, undoes |-> i])
        /\ UNCHANGED <<catalog, life, batch>>

-----------------------------------------------------------------------------
(* What happens around the session; CampaignLifecycle has these in full.   *)
(* Each takes the campaign's lock, so none runs inside a batch.            *)

Submit ==
    /\ ~batch.open /\ Countable
    /\ session' = "SUBMITTED"
    /\ campaign' = "INACTIVE"
    /\ assigned' = FALSE
    /\ UNCHANGED <<catalog, counts, due, batch>>

\* Assign, unassign, recount: the revoked assignment's open session is
\* cancelled, and the new responsible may be the same person again.
Reassign(b) ==
    /\ ~batch.open
    /\ assigned' = b
    /\ session' = IF session = "IN_PROGRESS" THEN "CANCELLED" ELSE session
    /\ UNCHANGED <<catalog, counts, campaign, due, batch>>

CancelCampaign ==
    /\ ~batch.open /\ campaign = "ACTIVE"
    /\ campaign' = "INACTIVE"
    /\ UNCHANGED <<catalog, counts, session, due, assigned, batch>>

\* A recount makes a submitted campaign countable again.
RequestRecount(b) ==
    /\ ~batch.open /\ campaign = "INACTIVE" /\ ~due
    /\ campaign' = "ACTIVE"
    /\ assigned' = b
    /\ session' = IF session = "IN_PROGRESS" THEN "CANCELLED" ELSE session
    /\ UNCHANGED <<catalog, counts, due, batch>>

\* Reopening sets a future deadline; the open session of a recount is cancelled.
Reopen(isRecount) ==
    /\ ~batch.open /\ campaign \in {"EXPIRED", "INACTIVE"}
    /\ campaign' = "ACTIVE"
    /\ due' = FALSE
    /\ session' = IF isRecount /\ session = "IN_PROGRESS" THEN "CANCELLED" ELSE session
    /\ UNCHANGED <<catalog, counts, assigned, batch>>

DeadlinePasses ==
    /\ ~due
    /\ due' = TRUE
    /\ UNCHANGED <<catalog, counts, session, campaign, assigned, batch>>

\* A product import adds a reference: from now on its code is a product.
ImportProduct(r) ==
    /\ r \notin catalog
    /\ catalog' = catalog \cup {r}
    /\ UNCHANGED <<counts, life, batch>>

-----------------------------------------------------------------------------
Next ==
    \/ \E u \in Uuids, s \in Inputs :
          PostEvent(u, s) \/ BatchEvent(u, s) \/ BatchReplay(u, s) \/ BatchReject(u, s)
    \/ \E n \in 2..MaxBatch : OpenBatch(n)
    \/ BatchCommit \/ BatchCrash
    \/ \E i \in DOMAIN log, u \in Uuids \cup {NoUuid} : UndoEvent(i, u)
    \/ ExpireOnRequest \/ Submit \/ CancelCampaign \/ DeadlinePasses
    \/ \E b \in BOOLEAN : Reassign(b) \/ RequestRecount(b) \/ Reopen(b)
    \/ \E r \in Refs : ImportProduct(r)

Spec == Init /\ [][Next]_vars

-----------------------------------------------------------------------------
(* Properties.                                                             *)

\* No sequence of counts, damage marks and undos leaves more units damaged
\* than counted (the check of _process_product_physical, _compute_damaged,
\* _undo_physical and _undo_damage taken together).
DamageWithinPhysical ==
    \A c \in Cells : qty["damage"][c] <= qty["physical"][c]

\* A quantity is what the last event still in force left in its cell, and 0
\* when none is: undo goes back exactly one event, whatever was done between.
QuantityIsLastEffective ==
    \A d \in Domains, c \in Cells :
        LET eff == Effective(log, d, c)
        IN  /\ eff = {} => qty[d][c] = 0
            /\ \A i \in eff : (\A j \in eff : j <= i) => qty[d][c] = log[i].after

\* The history of a cell, undos included, is an unbroken chain: every event
\* starts from the quantity the one before it left, the last one left today's.
AuditChainUnbroken ==
    \A d \in Domains, c \in Cells :
        LET of == {i \in DOMAIN log : log[i].domain = d /\ log[i].cell = c}
        IN  \A i \in of :
              /\ (\A j \in of : i <= j) => log[i].before = 0
              /\ (\A j \in of : j <= i) => log[i].after = qty[d][c]
              /\ \A j \in of : (i < j /\ ~\E k \in of : i < k /\ k < j)
                                 => log[j].before = log[i].after

\* However often a phone resends an event, the log has it once, and an event
\* is undone at most once, never an undo.
AppliedOnce ==
    /\ \A i, j \in DOMAIN log :
          log[i].uuid = log[j].uuid /\ log[i].uuid # NoUuid => i = j
    /\ \A i, j \in DOMAIN log :
          log[i].undoes = log[j].undoes /\ log[i].undoes # 0 => i = j
    /\ \A i \in DOMAIN log : log[i].undoes # 0 =>
          log[i].undoes < i /\ log[log[i].undoes].undoes = 0

\* The extra items of a session are the counted products its snapshot lacks,
\* with the official quantity, also after an undo.
ExtraMirrorsTotal ==
    \A r \in Refs :
        extra[r] = IF r \notin Snapshot /\ <<"product", r>> \in rows
                   THEN qty["physical"][<<"product", r>>] ELSE NoRow

\* A session has a total or an unknown row for exactly the cells its log tells
\* of, and an unknown code begins with a scan: no batch that is refused, dies or
\* meets the deadline leaves a row behind for a correction by hand to find.
RowsAreLogged ==
    /\ rows = {log[i].cell : i \in DOMAIN log}
    /\ \A i \in DOMAIN log :
          log[i].cell[1] = "unknown" /\ (\A j \in DOMAIN log : log[j].cell = log[i].cell => i <= j)
              => log[i].undoes = 0 /\ log[i].input.type = "QR_SCAN"

\* Once submitted or cancelled a session's counts never change again, even
\* when its owner is made responsible anew or the campaign is reopened.
ClosedSessionFrozen ==
    [][session # "IN_PROGRESS" => UNCHANGED counts]_vars

\* process_batch's docstring: "Procesa un lote atomico": a batch applies all
\* of its events or none.
BatchIsAtomic ==
    [][batch.open /\ ~batch'.open /\ batch.left > 0 => log' = batch.log]_vars
=============================================================================
