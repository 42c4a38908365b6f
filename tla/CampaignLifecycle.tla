-------------------------- MODULE CampaignLifecycle --------------------------
(***************************************************************************)
(* One inventory campaign with its assignments, counting sessions and      *)
(* recounts, under the commands of administrators and counters.            *)
(*                                                                         *)
(* Every command locks the campaign's row before it reads anything         *)
(* (campaign_service.lock_campaign), so a command is one step.  The read   *)
(* of a campaign is not: GET /campaigns/{id} loads the row, compares its   *)
(* deadline with the clock, and may write EXPIRED, all without the lock    *)
(* (refresh_expiry).  Its UPDATE names the row by id only, so it lands on  *)
(* whatever status the row has by then.                                    *)
(*                                                                         *)
(* The version columns only refuse the request of a client that did not    *)
(* see the latest state; every command below is one of a client that did.  *)
(***************************************************************************)
EXTENDS Integers

CONSTANTS
    Users,        \* users with the inventory.count permission
    Assignments,  \* rows of inventory_assignments that can be created
    Sessions,     \* rows of inventory_count_sessions
    Recounts,     \* rows of inventory_recounts
    Readers,      \* concurrent GET requests
    None          \* a NULL reference

ASSUME NoneAssumption == None \notin Users \cup Assignments \cup Sessions

VARIABLES
    status,    \* inventory_campaigns.status
    frozen,    \* snapshot_frozen_at is set
    deadline,  \* deadline_at: none, in the future, or past
    asg,       \* assignments: status and user
    ses,       \* sessions: status, type and assignment (whose user is theirs)
    rec,       \* recounts: status, assigned user, source and resulting session
    get        \* what each GET request in flight has read

rows == <<asg, ses, rec>>
vars == <<status, frozen, deadline, asg, ses, rec, get>>

Statuses == {"DRAFT", "ASSIGNED", "IN_PROGRESS", "SUBMITTED", "RECOUNT",
             "UNDER_REVIEW", "APPROVED", "CLOSED", "EXPIRED", "CANCELLED"}
Deadlines == {"none", "future", "past"}
AsgRow == [status: {"ABSENT", "ACTIVE", "REVOKED", "COMPLETED"},
           user: Users \cup {None}]
SesRow == [status: {"ABSENT", "IN_PROGRESS", "SUBMITTED", "CANCELLED"},
           type: {"INITIAL", "REASSIGNMENT", "RECOUNT"},
           asg: Assignments \cup {None}]
RecRow == [status: {"ABSENT", "ASSIGNED", "IN_PROGRESS", "COMPLETED", "CANCELLED"},
           user: Users \cup {None}, source: Sessions \cup {None},
           result: Sessions \cup {None}]
GetRow == [open: BOOLEAN, status: Statuses, deadline: Deadlines]

TypeOK ==
    /\ status \in Statuses
    /\ frozen \in BOOLEAN
    /\ deadline \in Deadlines
    /\ asg \in [Assignments -> AsgRow]
    /\ ses \in [Sessions -> SesRow]
    /\ rec \in [Recounts -> RecRow]
    /\ get \in [Readers -> GetRow]

Idle == [open |-> FALSE, status |-> "DRAFT", deadline |-> "none"]

\* create_campaign: a draft, with or without a deadline (which may be past).
Init ==
    /\ status = "DRAFT"
    /\ frozen = FALSE
    /\ deadline \in Deadlines
    /\ asg = [a \in Assignments |-> [status |-> "ABSENT", user |-> None]]
    /\ ses = [s \in Sessions |-> [status |-> "ABSENT", type |-> "INITIAL", asg |-> None]]
    /\ rec = [r \in Recounts |-> [status |-> "ABSENT", user |-> None,
                                  source |-> None, result |-> None]]
    /\ get = [g \in Readers |-> Idle]

-----------------------------------------------------------------------------
(* Shared parts of the commands.                                           *)

Expirable == {"ASSIGNED", "IN_PROGRESS", "RECOUNT"}
Running == {"IN_PROGRESS", "RECOUNT"}

\* Mutant: a recount may be asked for while the first count is running.
RequestableEarly == {"IN_PROGRESS", "SUBMITTED", "RECOUNT", "UNDER_REVIEW"}

Requestable == {"SUBMITTED", "RECOUNT", "UNDER_REVIEW"}

\* Mutant: a campaign may be cancelled in the middle of a recount.
CancellableRecounting == {"DRAFT", "ASSIGNED", "IN_PROGRESS", "RECOUNT"}

Cancellable == {"DRAFT", "ASSIGNED", "IN_PROGRESS"}

\* Mutant: a finished recount passes for an open one.
OpenStatusesDone == {"ASSIGNED", "IN_PROGRESS", "COMPLETED"}

\* OPEN_RECOUNT_STATUSES (no path of the code leaves a row in REQUESTED).
OpenStatuses == {"ASSIGNED", "IN_PROGRESS"}

OpenRecounts == {r \in Recounts : rec[r].status \in OpenStatuses}

Active == {a \in Assignments : asg[a].status = "ACTIVE"}

UserOf(s) == asg[ses[s].asg].user

\* Mutant: the previous responsible keeps the assignment.
RevokeNobody == asg

\* The active assignment, if any, is revoked.
RevokeActive ==
    [a \in Assignments |->
        IF a \in Active THEN [asg[a] EXCEPT !.status = "REVOKED"] ELSE asg[a]]

\* Mutant: the sessions of a revoked assignment stay open.
KeepSessions(S) == ses

\* The open ones of the sessions S are cancelled.
CancelOpen(S) ==
    [s \in Sessions |->
        IF s \in S /\ ses[s].status = "IN_PROGRESS"
        THEN [ses[s] EXCEPT !.status = "CANCELLED"] ELSE ses[s]]

SessionsOf(A) == {s \in Sessions : ses[s].asg \in A}

NewAssignment(a, u) == asg' = [RevokeActive EXCEPT ![a] = [status |-> "ACTIVE", user |-> u]]

-----------------------------------------------------------------------------
(* Administration.                                                         *)

\* update_campaign: the deadline can be moved until the snapshot is frozen.
UpdateDeadline(d) ==
    /\ ~frozen
    /\ deadline' = d
    /\ UNCHANGED <<status, frozen, rows, get>>

\* A command that finds the deadline passed commits EXPIRED and then fails:
\* assign, start_campaign, start_session, process_event, undo_event and
\* submit_session all call expire_campaign_if_due.
ExpireOnCommand ==
    /\ status \in Expirable /\ deadline = "past"
    /\ status' = "EXPIRED"
    /\ UNCHANGED <<frozen, deadline, rows, get>>

Assign(a, u) ==
    /\ ~(status \in Expirable /\ deadline = "past")
    /\ status \in {"DRAFT", "ASSIGNED", "IN_PROGRESS"}
    /\ asg[a].status = "ABSENT"
    /\ \A b \in Active : asg[b].user # u
    /\ ses' = CancelOpen(SessionsOf(Active))
    /\ NewAssignment(a, u)
    /\ status' = IF status = "DRAFT" THEN "ASSIGNED" ELSE status
    /\ UNCHANGED <<frozen, deadline, rec, get>>

Unassign ==
    /\ status \in {"DRAFT", "ASSIGNED"}
    /\ Active # {}
    /\ ses' = CancelOpen(SessionsOf(Active))
    /\ asg' = RevokeActive
    /\ status' = "DRAFT"
    /\ UNCHANGED <<frozen, deadline, rec, get>>

\* start_campaign: freezes the snapshot and starts the count.
StartCampaign ==
    /\ status \in {"DRAFT", "ASSIGNED"} /\ deadline = "future"
    /\ Active # {}
    /\ frozen' = TRUE
    /\ status' = "IN_PROGRESS"
    /\ UNCHANGED <<deadline, rows, get>>

CancelCampaign ==
    /\ status \in Cancellable
    /\ status' = "CANCELLED"
    /\ UNCHANGED <<frozen, deadline, rows, get>>

\* Mutant: a recount under way keeps its cancelled session.
RecountsKept == rec

\* Mutant: a recount under way is sent back to REQUESTED, which nothing starts.
RecountsRequested ==
    [r \in Recounts |->
        IF rec[r].status = "IN_PROGRESS"
        THEN [rec[r] EXCEPT !.status = "REQUESTED", !.result = None] ELSE rec[r]]

\* Reopening sends the recounts under way back to ASSIGNED.
RecountsReset ==
    [r \in Recounts |->
        IF rec[r].status = "IN_PROGRESS"
        THEN [rec[r] EXCEPT !.status = "ASSIGNED", !.result = None] ELSE rec[r]]

Reopen ==
    LET stale == {rec[r].result : r \in {q \in Recounts : rec[q].status = "IN_PROGRESS"}}
    IN  /\ status \in {"EXPIRED", "CLOSED"}
        /\ ses' = CancelOpen(stale)
        /\ rec' = RecountsReset
        /\ status' = IF OpenRecounts # {} THEN "RECOUNT" ELSE "IN_PROGRESS"
        /\ deadline' = "future"
        /\ UNCHANGED <<frozen, asg, get>>

-----------------------------------------------------------------------------
(* Counting.                                                               *)

\* start_session, called by the holder of the active assignment a.
StartSession(s, a) ==
    LET mine == {r \in Recounts : rec[r].status = "ASSIGNED" /\ rec[r].user = asg[a].user}
        type == IF mine # {} THEN "RECOUNT"
                ELSE IF \E b \in Assignments \ {a} : asg[b].status # "ABSENT"
                     THEN "REASSIGNMENT" ELSE "INITIAL"
    IN  /\ status \in Running /\ deadline # "past"
        /\ a \in Active
        /\ ses[s].status = "ABSENT"
        /\ \A t \in SessionsOf({a}) : ses[t].status # "IN_PROGRESS"
        /\ ses' = [ses EXCEPT ![s] = [status |-> "IN_PROGRESS", type |-> type, asg |-> a]]
        /\ rec' = [r \in Recounts |->
                     IF r \in mine
                     THEN [rec[r] EXCEPT !.status = "IN_PROGRESS", !.result = s] ELSE rec[r]]
        /\ UNCHANGED <<status, frozen, deadline, asg, get>>

\* submit_session: the responsible a submits a session of their own.
Submit(s, a) ==
    /\ ses[s].status = "IN_PROGRESS"
    /\ status \in Running /\ deadline # "past"
    /\ a \in Active /\ asg[a].user = UserOf(s)
    /\ ses' = [ses EXCEPT ![s].status = "SUBMITTED"]
    /\ asg' = [asg EXCEPT ![a].status = "COMPLETED"]
    /\ status' = "SUBMITTED"
    /\ rec' = [r \in Recounts |->
                 IF ses[s].type = "RECOUNT" /\ r \in OpenRecounts /\ rec[r].result = s
                 THEN [rec[r] EXCEPT !.status = "COMPLETED"] ELSE rec[r]]
    /\ UNCHANGED <<frozen, deadline, get>>

-----------------------------------------------------------------------------
(* Recounts.                                                               *)

\* request_recount: the source is a submitted session, chosen or the latest.
RequestRecount(r, a, u, src) ==
    /\ status \in Requestable /\ deadline # "past"
    /\ OpenRecounts = {}
    /\ rec[r].status = "ABSENT" /\ asg[a].status = "ABSENT"
    /\ \/ src \in Sessions /\ ses[src].status = "SUBMITTED"
       \/ src = None /\ \A s \in Sessions : ses[s].status # "SUBMITTED"
    /\ ses' = CancelOpen(SessionsOf(Active))
    /\ NewAssignment(a, u)
    /\ rec' = [rec EXCEPT ![r] = [status |-> "ASSIGNED", user |-> u,
                                  source |-> src, result |-> None]]
    /\ status' = "RECOUNT"
    /\ UNCHANGED <<frozen, deadline, get>>

\* Asked for after the deadline, a recount expires even a submitted campaign.
RequestRecountLate ==
    /\ status \in Requestable /\ deadline = "past"
    /\ status' = "EXPIRED"
    /\ UNCHANGED <<frozen, deadline, rows, get>>

CancelRecount(r) ==
    /\ r \in OpenRecounts
    /\ ses' = CancelOpen({rec[r].result})
    /\ asg' = [a \in Assignments |->
                 IF a \in Active /\ asg[a].user = rec[r].user
                 THEN [asg[a] EXCEPT !.status = "REVOKED"] ELSE asg[a]]
    /\ rec' = [rec EXCEPT ![r].status = "CANCELLED"]
    /\ status' = IF /\ status \in {"RECOUNT", "UNDER_REVIEW"}
                    /\ \E s \in Sessions : ses[s].status = "SUBMITTED"
                 THEN "SUBMITTED" ELSE status
    /\ UNCHANGED <<frozen, deadline, get>>

ReassignRecount(r, a, u) ==
    /\ r \in OpenRecounts /\ u # rec[r].user
    /\ asg[a].status = "ABSENT"
    /\ ses' = CancelOpen(SessionsOf(Active)
                         \cup IF rec[r].status = "IN_PROGRESS" THEN {rec[r].result} ELSE {})
    /\ NewAssignment(a, u)
    /\ rec' = [rec EXCEPT ![r].status = "ASSIGNED", ![r].user = u,
                          ![r].result = IF rec[r].status = "IN_PROGRESS" THEN None ELSE @]
    /\ UNCHANGED <<status, frozen, deadline, get>>

-----------------------------------------------------------------------------
(* Reconciliation, valuation and closing, as far as the campaign's status  *)
(* is concerned; module Reconciliation has the rest of their conditions.   *)

Prepare ==
    /\ status = "SUBMITTED"
    /\ \E s \in Sessions : ses[s].status = "SUBMITTED"
    /\ status' = "UNDER_REVIEW"
    /\ UNCHANGED <<frozen, deadline, rows, get>>

Approve ==
    /\ status = "UNDER_REVIEW" /\ OpenRecounts = {}
    /\ status' = "APPROVED"
    /\ UNCHANGED <<frozen, deadline, rows, get>>

\* calculate refuses a campaign without snapshot, and closing needs its result.
Close ==
    /\ status = "APPROVED" /\ frozen
    /\ status' = "CLOSED"
    /\ UNCHANGED <<frozen, deadline, rows, get>>

-----------------------------------------------------------------------------
(* Reading a campaign, and the clock.                                      *)

GetRead(g) ==
    /\ ~get[g].open
    /\ get' = [get EXCEPT ![g] = [open |-> TRUE, status |-> status, deadline |-> deadline]]
    /\ UNCHANGED <<status, frozen, deadline, rows>>

\* The row this request read is due: it writes EXPIRED, whatever is there now.
GetExpire(g) ==
    /\ get[g].open /\ get[g].status \in Expirable /\ get[g].deadline = "past"
    /\ status' = "EXPIRED"
    /\ get' = [get EXCEPT ![g] = Idle]
    /\ UNCHANGED <<frozen, deadline, rows>>

GetReturn(g) ==
    /\ get[g].open /\ ~(get[g].status \in Expirable /\ get[g].deadline = "past")
    /\ get' = [get EXCEPT ![g] = Idle]
    /\ UNCHANGED <<status, frozen, deadline, rows>>

DeadlinePasses ==
    /\ deadline = "future"
    /\ deadline' = "past"
    /\ get' = [g \in Readers |-> IF get[g].deadline = "future"
                                 THEN [get[g] EXCEPT !.deadline = "past"] ELSE get[g]]
    /\ UNCHANGED <<status, frozen, rows>>

-----------------------------------------------------------------------------
AdminNext ==
    \/ \E d \in {"future", "past"} : UpdateDeadline(d)
    \/ \E a \in Assignments, u \in Users : Assign(a, u)
    \/ Unassign \/ StartCampaign \/ CancelCampaign \/ Reopen \/ ExpireOnCommand
    \/ Prepare \/ Approve \/ Close

CountNext == \E s \in Sessions, a \in Assignments : StartSession(s, a) \/ Submit(s, a)

RecountNext ==
    \/ \E r \in Recounts, a \in Assignments, u \in Users :
          \/ \E src \in Sessions \cup {None} : RequestRecount(r, a, u, src)
          \/ ReassignRecount(r, a, u)
    \/ \E r \in Recounts : CancelRecount(r)
    \/ RequestRecountLate

ReadNext ==
    \/ \E g \in Readers : GetRead(g) \/ GetExpire(g) \/ GetReturn(g)
    \/ DeadlinePasses

Next == AdminNext \/ CountNext \/ RecountNext \/ ReadNext

Spec == Init /\ [][Next]_vars

-----------------------------------------------------------------------------
(* Properties.                                                             *)

\* At most one person is responsible for a campaign at any time.
OneActiveAssignment ==
    \A a, b \in Assignments :
        asg[a].status = "ACTIVE" /\ asg[b].status = "ACTIVE" => a = b

\* At most one session is open, and it is of the current responsible: every
\* way of taking the assignment away also closes the session.
OpenSessionOfResponsible ==
    /\ \A s \in Sessions : ses[s].status = "IN_PROGRESS" => asg[ses[s].asg].status = "ACTIVE"
    /\ \A s, t \in Sessions :
          ses[s].status = "IN_PROGRESS" /\ ses[t].status = "IN_PROGRESS" => s = t

\* At most one recount is open, and while one is, the campaign is recounting
\* or expired, never submitted, under review, approved, closed or cancelled.
\* A recounting campaign has one.
OpenRecountHoldsCampaign ==
    /\ \A q, r \in Recounts :
          rec[q].status \in {"ASSIGNED", "IN_PROGRESS"}
          /\ rec[r].status \in {"ASSIGNED", "IN_PROGRESS"} => q = r
    /\ (\E r \in Recounts : rec[r].status \in {"ASSIGNED", "IN_PROGRESS"})
          => status \in {"RECOUNT", "EXPIRED"}
    /\ status = "RECOUNT"
          => \E r \in Recounts : rec[r].status \in {"ASSIGNED", "IN_PROGRESS"}

\* A recount and its session move together: under way exactly while a session
\* of type RECOUNT of its assignee is open, completed by that session's
\* submission, and without a session while it waits to start.
RecountFollowsSession ==
    /\ \A r \in Recounts :
          /\ rec[r].status = "ASSIGNED" => rec[r].result = None
          /\ rec[r].status = "IN_PROGRESS" =>
                /\ rec[r].result \in Sessions
                /\ ses[rec[r].result].status = "IN_PROGRESS"
                /\ ses[rec[r].result].type = "RECOUNT"
                /\ UserOf(rec[r].result) = rec[r].user
          /\ rec[r].status = "COMPLETED" =>
                rec[r].result \in Sessions /\ ses[rec[r].result].status = "SUBMITTED"
    /\ \A s \in Sessions :
          ses[s].status = "IN_PROGRESS" /\ ses[s].type = "RECOUNT"
             => \E r \in Recounts : rec[r].status = "IN_PROGRESS" /\ rec[r].result = s

\* A campaign past its first submission keeps a submitted session to fall back
\* on, and every recount has one as its source.
ReviewHasSubmission ==
    /\ status \in {"SUBMITTED", "RECOUNT", "UNDER_REVIEW", "APPROVED", "CLOSED"}
          => \E s \in Sessions : ses[s].status = "SUBMITTED"
    /\ \A r \in Recounts : rec[r].status # "ABSENT" =>
          rec[r].source \in Sessions /\ ses[rec[r].source].status = "SUBMITTED"

\* What is over stays over, whatever is reopened, reassigned or recounted:
\* sessions, assignments and recounts never come back, nor change hands.
HistoryIsFinal ==
    [][/\ \A s \in Sessions : ses[s].status \in {"SUBMITTED", "CANCELLED"} => ses'[s] = ses[s]
       /\ \A a \in Assignments : asg[a].status \in {"REVOKED", "COMPLETED"} => asg'[a] = asg[a]
       /\ \A r \in Recounts : rec[r].status \in {"COMPLETED", "CANCELLED"} => rec'[r] = rec[r]]_vars

\* recount_service: "Nunca se resucitan campanas EXPIRED/CLOSED/CANCELLED";
\* no command takes a cancelled campaign, so it stays cancelled.
CancelledIsFinal == [][status = "CANCELLED" => status' = "CANCELLED"]_vars

\* start_campaign "Congela el snapshot y arranca la campana": what is counted
\* is compared with a frozen snapshot, so there is one before the first count.
CountingNeedsSnapshot == \A s \in Sessions : ses[s].status # "ABSENT" => frozen
=============================================================================
