---------------------------- MODULE Reconciliation ----------------------------
(***************************************************************************)
(* The review of a campaign whose snapshot is frozen: reconciliation of    *)
(* the submitted sessions, resolution of unknown codes, approval,          *)
(* valuation, documents, closing and reopening.                            *)
(*                                                                         *)
(* Every command but one locks the campaign's row first and is one step.   *)
(* resolve_unknown does not: it locks the unknown code alone and asks for  *)
(* no status, so it may come between any two other commands.               *)
(*                                                                         *)
(* Module CampaignLifecycle has assignments, sessions and recounts in      *)
(* full; here a session appears when it is submitted.                      *)
(***************************************************************************)
EXTENDS Integers

CONSTANTS
    Products,
    Sessions,
    Codes,          \* unknown codes; a row is (session, code)
    DocumentTypes,  \* the documents that closing requires
    Snapshots,      \* possible snapshots: expected quantity by product
    Totals,         \* possible totals of a session: quantity by product
    CodeQuantities, \* possible quantities of an unknown code
    Absent          \* no row, or a NULL column

ASSUME AbsentAssumption == Absent \notin Int \cup Products \cup Sessions
ASSUME SnapshotsAssumption == Snapshots \subseteq [Products -> Int \cup {Absent}]
ASSUME TotalsAssumption == Totals \subseteq [Products -> Nat \cup {Absent}]
ASSUME CodesAssumption == CodeQuantities \subseteq Nat \cup {Absent}
ASSUME DocumentsAssumption == DocumentTypes # {}

VARIABLES
    status,     \* inventory_campaigns.status
    snapshot,   \* inventory_snapshot_items.expected_quantity
    submitted,  \* the SUBMITTED sessions
    recount,    \* a recount is open
    counted,    \* by session and product: what it counted, resolved codes included
    code,       \* inventory_unknown_codes: quantity and resolved_product_id
    source,     \* the sessions reconciliation_source_sha256 is the hash of
    row,        \* inventory_reconciliations
    valuation,  \* valuation_source_sha256: none, of today's rows, or of others
    document    \* by type, what the GENERATED document shows, if there is one

count == <<submitted, counted, code>>
vars == <<status, snapshot, recount, count, source, row, valuation, document>>

Statuses == {"IN_PROGRESS", "RECOUNT", "SUBMITTED", "UNDER_REVIEW", "APPROVED",
             "CLOSED", "EXPIRED"}
Quantity == Nat \cup {Absent}
CodeRow == [quantity: Quantity, product: Products \cup {Absent}]

\* A row's status is PENDING without a session and APPROVED if approved;
\* otherwise it follows from the quantities.
Row == [present: BOOLEAN, session: Sessions \cup {Absent}, quantity: Quantity,
        reason: BOOLEAN, approved: BOOLEAN, amount: Quantity]
NoRow == [present |-> FALSE, session |-> Absent, quantity |-> Absent,
          reason |-> FALSE, approved |-> FALSE, amount |-> Absent]

\* What a document shows of the rows: quantities, and amounts by the
\* quantity they were computed from.
Content == [quantity: [Products -> Quantity], amount: [Products -> Quantity]]

TypeOK ==
    /\ status \in Statuses
    /\ snapshot \in Snapshots
    /\ submitted \in SUBSET Sessions
    /\ recount \in BOOLEAN
    /\ counted \in [Sessions -> [Products -> Quantity]]
    /\ code \in [Sessions -> [Codes -> CodeRow]]
    /\ source \in SUBSET Sessions
    /\ row \in [Products -> Row]
    /\ valuation \in {"none", "intact", "changed"}
    /\ document \in [DocumentTypes -> SUBSET Content]

\* start_campaign has frozen a snapshot.
Init ==
    /\ status = "IN_PROGRESS"
    /\ snapshot \in Snapshots
    /\ submitted = {}
    /\ recount = FALSE
    /\ counted = [s \in Sessions |-> [p \in Products |-> Absent]]
    /\ code = [s \in Sessions |-> [c \in Codes |-> [quantity |-> Absent, product |-> Absent]]]
    /\ source = {}
    /\ row = [p \in Products |-> NoRow]
    /\ valuation = "none"
    /\ document = [t \in DocumentTypes |-> {}]

-----------------------------------------------------------------------------
(* What the comparison service reads.                                      *)

OrZero(q) == IF q = Absent THEN 0 ELSE q

\* The expected quantity of a row: products outside the snapshot expect none.
Expected(p) == OrZero(snapshot[p])

\* Mutant: the difference passes for the count.
EffectiveDifference(s, p) == OrZero(counted[s][p]) - Expected(p)

\* effective_map: a session's count of a product, resolved codes included.
\* Its refusal of damage above the count never happens (CountEngine).
Effective(s, p) == OrZero(counted[s][p])

\* product_universe: products expected, counted, or resolved to.
Universe == {p \in Products : snapshot[p] # Absent
                              \/ \E s \in submitted : counted[s][p] # Absent}

\* Mutant: only one session is hashed.
FingerprintOfOne == {CHOOSE s \in submitted : TRUE}

\* source_fingerprint: a submitted session does not change any more, so its
\* hash says which sessions there are.
Fingerprint == submitted

\* Mutant: codes are not looked at.
UnresolvedIgnored == {}

\* unresolved_unknowns
Unresolved ==
    {sc \in submitted \X Codes : /\ code[sc[1]][sc[2]].product = Absent
                                 /\ code[sc[1]][sc[2]].quantity \notin {0, Absent}}

Present == {p \in Products : row[p].present}

Differs(p) == Expected(p) >= 0 /\ row[p].quantity # Expected(p)

\* Mutant: the rows change without a new version.
RowsUnversioned == valuation

\* Every change of a row counts up its version, which is in the fingerprint,
\* so a valuation that was of these rows is of others from then on.
RowsVersioned == IF valuation = "intact" THEN "changed" ELSE valuation

-----------------------------------------------------------------------------
(* Counting, as the review sees it.                                        *)

\* submit_session.  A recount's submission completes it (CampaignLifecycle).
Submit(s, total, qty) ==
    /\ status \in {"IN_PROGRESS", "RECOUNT"}
    /\ s \notin submitted
    /\ submitted' = submitted \cup {s}
    /\ counted' = [counted EXCEPT ![s] = total]
    /\ code' = [code EXCEPT ![s] = [c \in Codes |-> [quantity |-> qty[c], product |-> Absent]]]
    /\ recount' = FALSE
    /\ status' = "SUBMITTED"
    /\ UNCHANGED <<snapshot, source, row, valuation, document>>

\* resolve_unknown, once for each code.  What it moves is seen by every later
\* effective_map.  Resolving before the submission comes to the same as after.
Resolve(s, c, p) ==
    /\ s \in submitted
    /\ code[s][c].quantity # Absent /\ code[s][c].product = Absent
    /\ code' = [code EXCEPT ![s][c].product = p]
    /\ counted' = [counted EXCEPT ![s][p] = OrZero(@) + code[s][c].quantity]
    /\ UNCHANGED <<status, snapshot, recount, submitted, source, row, valuation, document>>

RequestRecount ==
    /\ status \in {"SUBMITTED", "RECOUNT", "UNDER_REVIEW"} /\ ~recount
    /\ recount' = TRUE
    /\ status' = "RECOUNT"
    /\ UNCHANGED <<snapshot, count, source, row, valuation, document>>

CancelRecount ==
    /\ recount
    /\ recount' = FALSE
    /\ status' = IF status \in {"RECOUNT", "UNDER_REVIEW"} /\ submitted # {}
                 THEN "SUBMITTED" ELSE status
    /\ UNCHANGED <<snapshot, count, source, row, valuation, document>>

\* A command that finds the deadline passed expires a campaign that is being
\* counted, a request for a recount one under review, and a delayed
\* GET /campaigns/{id} whatever it finds.
Expire ==
    /\ status # "EXPIRED"
    /\ status' = "EXPIRED"
    /\ UNCHANGED <<snapshot, recount, count, source, row, valuation, document>>

\* Rows, valuation and documents stay as they are.
Reopen ==
    /\ status \in {"EXPIRED", "CLOSED"}
    /\ status' = IF recount THEN "RECOUNT" ELSE "IN_PROGRESS"
    /\ UNCHANGED <<snapshot, recount, count, source, row, valuation, document>>

-----------------------------------------------------------------------------
(* Reconciliation.                                                         *)

\* Mutant: a refresh keeps the selection.
KeptRow(p) == row[p]

\* A refresh takes the selection back, and leaves the reason and the amounts.
ResetRow(p) == [row[p] EXCEPT !.session = Absent, !.quantity = Absent, !.approved = FALSE]

\* Once prepared, a campaign needs refresh: without it the same sources are
\* answered without a change, whatever the status, and others are refused.
Prepare(refresh) ==
    /\ status \in {"SUBMITTED", "UNDER_REVIEW"}
    /\ submitted # {}
    /\ refresh \/ source = {}
    /\ row' = [p \in Products |->
                 IF p \notin Universe THEN row[p]
                 ELSE IF ~row[p].present THEN [NoRow EXCEPT !.present = TRUE]
                 ELSE IF source # {} THEN ResetRow(p) ELSE row[p]]
    /\ valuation' = RowsVersioned
    /\ source' = Fingerprint
    /\ status' = "UNDER_REVIEW"
    /\ UNCHANGED <<snapshot, recount, count, document>>

\* _apply_selection
Selected(s, p, reason) ==
    [row[p] EXCEPT !.session = s, !.quantity = Effective(s, p), !.reason = reason]

SelectDefault(s) ==
    /\ status = "UNDER_REVIEW"
    /\ s \in submitted
    /\ Present # {}
    /\ row' = [p \in Products |->
                 IF p \in Present THEN Selected(s, p, row[p].reason) ELSE row[p]]
    /\ valuation' = RowsVersioned
    /\ UNCHANGED <<status, snapshot, recount, count, source, document>>

\* override_product: the request may give a reason, or clear it.
Override(s, p, reason) ==
    /\ status = "UNDER_REVIEW"
    /\ s \in submitted
    /\ p \in Present
    /\ Expected(p) >= 0 /\ Effective(s, p) # Expected(p) => reason
    /\ row' = [row EXCEPT ![p] = Selected(s, p, reason)]
    /\ valuation' = RowsVersioned
    /\ UNCHANGED <<status, snapshot, recount, count, source, document>>

\* The checks of approve on the rows.
Approvable ==
    /\ Present # {}
    /\ \A p \in Present : /\ Expected(p) >= 0
                          /\ row[p].session # Absent /\ row[p].quantity # Absent
                          /\ Differs(p) => row[p].reason
                          /\ row[p].session \in submitted

Approve ==
    /\ status = "UNDER_REVIEW"
    /\ source = Fingerprint
    /\ ~recount
    /\ Unresolved = {}
    /\ Approvable
    /\ row' = [p \in Products |->
                 IF p \in Present THEN [row[p] EXCEPT !.approved = TRUE] ELSE row[p]]
    /\ valuation' = RowsVersioned
    /\ status' = "APPROVED"
    /\ UNCHANGED <<snapshot, recount, count, source, document>>

-----------------------------------------------------------------------------
(* Valuation, documents and closing.                                       *)

RowsApproved == Present # {} /\ \A p \in Present : row[p].approved

AllValued == \A p \in Present : row[p].amount # Absent

\* Mutant: a changed source is overwritten.
MayValueAgain == TRUE

\* "La fuente de valorizacion cambio: no se sobrescribe"
MayValue == valuation # "changed"

\* calculate; a snapshot in several currencies is refused, which is left out.
Calculate ==
    /\ status = "APPROVED"
    /\ RowsApproved
    /\ source = Fingerprint
    /\ ~(valuation = "intact" /\ AllValued)
    /\ ~recount
    /\ Unresolved = {}
    /\ \A p \in Present : Expected(p) >= 0
    /\ MayValue
    /\ row' = [p \in Products |->
                 IF p \in Present THEN [row[p] EXCEPT !.amount = row[p].quantity] ELSE row[p]]
    /\ valuation' = "intact"
    /\ UNCHANGED <<status, snapshot, recount, count, source, document>>

Shown == [quantity |-> [p \in Products |-> row[p].quantity],
          amount |-> [p \in Products |-> row[p].amount]]

\* generate_document: one for the same source is returned as it is; another
\* supersedes it.  read_valuation does not compare fingerprints.
Generate(t) ==
    /\ status = "APPROVED"
    /\ valuation # "none"
    /\ RowsApproved
    /\ AllValued
    /\ document' = [document EXCEPT ![t] = {Shown}]
    /\ UNCHANGED <<status, snapshot, recount, count, source, row, valuation>>

\* close_campaign asks that there is a valuation and are documents, not of what.
Close ==
    /\ status = "APPROVED"
    /\ valuation # "none"
    /\ \A t \in DocumentTypes : document[t] # {}
    /\ status' = "CLOSED"
    /\ UNCHANGED <<snapshot, recount, count, source, row, valuation, document>>

-----------------------------------------------------------------------------
CountNext ==
    \/ \E s \in Sessions, total \in Totals, qty \in [Codes -> CodeQuantities] :
          Submit(s, total, qty)
    \/ \E s \in Sessions, c \in Codes, p \in Products : Resolve(s, c, p)
    \/ RequestRecount \/ CancelRecount \/ Expire \/ Reopen

ReviewNext ==
    \/ \E refresh \in BOOLEAN : Prepare(refresh)
    \/ \E s \in Sessions : SelectDefault(s)
    \/ \E s \in Sessions, p \in Products, reason \in BOOLEAN : Override(s, p, reason)
    \/ Approve

SettleNext == Calculate \/ (\E t \in DocumentTypes : Generate(t)) \/ Close

Next == CountNext \/ ReviewNext \/ SettleNext

Spec == Init /\ [][Next]_vars

-----------------------------------------------------------------------------
(* Properties.                                                             *)

\* From the preparation to the closing the review is of all that was submitted
\* and of nothing else: no session is submitted and no recount is opened behind
\* its back, whatever was recounted, expired, reopened or cancelled before.
ReviewIsOfAllSessions ==
    status \in {"UNDER_REVIEW", "APPROVED", "CLOSED"} =>
        source = submitted /\ submitted # {} /\ ~recount

\* A review starts clean: nothing of an earlier approval survives in it, and
\* what is selected is a submitted session's, never above what that counted.
ReviewStartsClean ==
    status = "UNDER_REVIEW" =>
        \A p \in Products :
            /\ ~row[p].approved
            /\ row[p].session # Absent =>
                  /\ row[p].session \in submitted
                  /\ row[p].quantity \in 0..Effective(row[p].session, p)

\* What is approved is complete and justified, and stays so until the campaign
\* is reopened, although codes can be resolved at any time.
ApprovalIsComplete ==
    status \in {"APPROVED", "CLOSED"} =>
        /\ \A s \in submitted, c \in Codes :
              code[s][c].product # Absent \/ code[s][c].quantity \in {0, Absent}
        /\ \E p \in Products : row[p].present
        /\ \A p \in Products : row[p].present =>
              /\ row[p].approved
              /\ row[p].session \in submitted
              /\ Expected(p) >= 0
              /\ row[p].quantity = Expected(p) \/ row[p].reason

\* While the fingerprint of the valuation is that of the rows, amounts are of
\* the quantities beside them, and every document shows just that.
IntactValuationIsTrue ==
    valuation = "intact" =>
        \A p \in Products :
            /\ row[p].amount = row[p].quantity
            /\ \A t \in DocumentTypes : \A d \in document[t] :
                  d.quantity[p] = row[p].quantity /\ d.amount[p] = row[p].quantity

\* The review keeps the promise of Settlement: an official count does not
\* change, amounts are written once, closing needs both.
S == INSTANCE Settlement WITH
        Counts <- [Products -> Quantity],
        official <- IF status \in {"APPROVED", "CLOSED"} THEN {Shown.quantity} ELSE {},
        amounts <- IF valuation = "none" THEN {} ELSE {Shown.amount},
        closed <- status = "CLOSED"

ImplementsSettlement == S!SettlementSpec

\* comparison_service: "Cantidades efectivas por producto/sesion: conocido
\* (count_totals) mas unknowns resueltos de la misma sesion" - what is approved
\* of a product is what the selected session counted of it, codes included, and
\* of a product that is left out nobody counted anything.
ApprovedIsEffective ==
    status = "APPROVED" =>
        \A p \in Products :
            IF row[p].present THEN row[p].quantity = Effective(row[p].session, p)
                              ELSE \A s \in submitted : Effective(s, p) = 0

\* close_campaign: "exige valorizacion + 3 documentos oficiales" - of the count
\* that is closed: its amounts and documents are those of its quantities, where
\* none is read as zero.
ClosedIsValued ==
    status = "CLOSED" =>
        \A p \in Products :
            /\ OrZero(row[p].amount) = OrZero(row[p].quantity)
            /\ \A t \in DocumentTypes : \A d \in document[t] :
                  OrZero(d.quantity[p]) = OrZero(row[p].quantity)
=============================================================================
