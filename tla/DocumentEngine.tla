---------------------------- MODULE DocumentEngine ----------------------------
(***************************************************************************)
(* Official documents of the campaigns of one organization: their numbers, *)
(* their files, the logo they carry, and the closing they allow.           *)
(*                                                                         *)
(* A generation holds the row lock of its campaign and takes the lock of   *)
(* the settings row, which has the counter, only once it needs a number.   *)
(* By then it has read that row without a lock, and what the locked read   *)
(* returns is the object already in its session: the counter it takes is   *)
(* the one it read first.  Locks end with the transaction, also where it   *)
(* is committed to create the export profile on first use; the insert of a *)
(* document then locks its campaign again, for the foreign key.            *)
(*                                                                         *)
(* Files are written before their row is committed; a commit that fails,   *)
(* or whose outcome is not seen, is followed by a cleanup that looks       *)
(* before it removes.  A request may die between any two steps.            *)
(***************************************************************************)
EXTENDS Naturals

CONSTANTS
    Requests,   \* generations and logo uploads; each runs once
    Campaigns,
    Types,      \* the documents that closing requires
    ErpTypes,   \* the types that need an export profile
    Extension,  \* of the file, by type
    Names,      \* the identity of the organization, the logo apart
    Images,
    Prefixes,   \* of document numbers
    MaxNumber,  \* bound: document numbers run to here
    MaxVersion, \* bound: approvals of one campaign
    None

ASSUME ErpAssumption == ErpTypes \subseteq Types
ASSUME PrefixAssumption == Prefixes # {}
ASSUME BoundAssumption == MaxNumber \in Nat /\ MaxVersion \in Nat
ASSUME NoneAssumption == None \notin Requests \cup Campaigns \cup Types \cup Names \cup Images

VARIABLES
    campaign,       \* inventory_campaigns: status and version
    settings,       \* organization_settings
    profile,        \* the canonical row of export_profiles exists
    rows,           \* document_exports
    files,          \* DOCUMENT_DIR, by path
    logos,          \* BRANDING_DIR: files are named after their content
    campaignLock,   \* the request that holds each row lock, if any
    settingsLock,
    tx,             \* what each request knows
    handed          \* ghost: by number or image, the requests that got it

locks == <<campaignLock, settingsLock>>
database == <<campaign, settings, profile, rows>>
vars == <<database, files, logos, locks, tx, handed>>

Extensions == {Extension[t] : t \in Types}
Numbers == Prefixes \X (1..MaxNumber)
Paths == Numbers \X Extensions

Settings == [name: Names \cup {None}, logo: Images \cup {None},
             prefix: Prefixes, next: 1..(MaxNumber + 1)]

\* What was rendered; file_sha256 is its hash.  "version" is that of the
\* approval it shows, "drawn" whether the logo's file was there to be drawn.
Content == [number: Numbers, campaign: Campaigns, type: Types,
            version: 0..MaxVersion, name: Names, logo: Images \cup {None},
            drawn: BOOLEAN, by: Requests]

Row == [content: Content, status: {"GENERATED", "SUPERSEDED", "FAILED"}]

Path(content) == <<content.number, Extension[content.type]>>

\* The fields that source_sha256 and branding_sha256 are hashes of.
Source(content) == <<content.version, content.name, content.logo>>

-----------------------------------------------------------------------------
(* A request: where it is, the campaign and type or the image it is about, *)
(* the campaign's version and the settings row as it read them, whether it *)
(* committed its lock of the campaign away, what it is about to supersede. *)

Running == {"profile", "materialize", "find", "allocate", "render", "record",
            "insert", "commit", "check", "unlink",
            "logo", "logo_check", "logo_unlink"}

Transaction == [pc: Running \cup {"idle", "done"},
                campaign: Campaigns \cup {None}, type: Types \cup {None},
                image: Images \cup {None}, existed: BOOLEAN,
                version: 0..MaxVersion, read: Settings, drawn: BOOLEAN,
                lost: BOOLEAN, previous: SUBSET Row]

\* A request that knows nothing.
Blank(pc) == [pc |-> pc, campaign |-> None, type |-> None, image |-> None,
              existed |-> FALSE, version |-> 0, drawn |-> FALSE,
              lost |-> FALSE, previous |-> {},
              read |-> [name |-> None, logo |-> None, next |-> 1,
                        prefix |-> CHOOSE p \in Prefixes : TRUE]]

TypeOK ==
    /\ campaign \in [Campaigns -> [status: {"APPROVED", "CLOSED"},
                                   version: 0..MaxVersion]]
    /\ settings \in Settings
    /\ profile \in BOOLEAN
    /\ rows \in SUBSET Row
    /\ files \in [Paths -> Content \cup {None}]
    /\ logos \in SUBSET Images
    /\ campaignLock \in [Campaigns -> Requests \cup {None}]
    /\ settingsLock \in Requests \cup {None}
    /\ tx \in [Requests -> Transaction]
    /\ handed \in [Numbers \cup Images -> SUBSET Requests]

\* The settings row has been configured once; nothing was generated yet.
Init ==
    /\ campaign = [c \in Campaigns |-> [status |-> "APPROVED", version |-> 0]]
    /\ settings \in {s \in Settings : s.name # None /\ s.logo = None /\ s.next = 1}
    /\ profile \in BOOLEAN
    /\ rows = {}
    /\ files = [p \in Paths |-> None]
    /\ logos = {}
    /\ campaignLock = [c \in Campaigns |-> None]
    /\ settingsLock = None
    /\ tx = [q \in Requests |-> Blank("idle")]
    /\ handed = [n \in Numbers \cup Images |-> {}]

-----------------------------------------------------------------------------
(* Steps of a request.                                                     *)

\* The end of a transaction, committed or not.
Release(q) ==
    /\ campaignLock' = [c \in Campaigns |-> IF campaignLock[c] = q THEN None ELSE campaignLock[c]]
    /\ settingsLock' = IF settingsLock = q THEN None ELSE settingsLock

At(q, pc) == tx[q].pc = pc
Goto(q, pc) == tx' = [tx EXCEPT ![q] = IF pc = "done" THEN Blank("done") ELSE [@ EXCEPT !.pc = pc]]

Official(c, t) == {r \in rows : r.status = "GENERATED" /\ r.content.campaign = c
                                                       /\ r.content.type = t}

\* The number q takes: prefix and counter as q read them.
Number(q) == <<tx[q].read.prefix, tx[q].read.next>>

Rendered(q) == [number |-> Number(q), campaign |-> tx[q].campaign, type |-> tx[q].type,
                version |-> tx[q].version, name |-> tx[q].read.name,
                logo |-> tx[q].read.logo, drawn |-> tx[q].drawn, by |-> q]

Taken(number) == \E r \in rows : r.content.number = number

\* Mutant: a number is skipped.
CounterSkips(q) == [settings EXCEPT !.next = tx[q].read.next + 2]

\* settings_row.next_document_number += 1, on the object as it was read.
CounterWritten(q) == [settings EXCEPT !.next = tx[q].read.next + 1]

\* generate_document: the campaign's lock and checks, the settings row without
\* a lock, the branding with what its logo file held.
Open(q, c, t) ==
    /\ At(q, "idle")
    /\ campaignLock[c] = None
    /\ campaign[c].status = "APPROVED"
    /\ settings.name # None
    /\ campaignLock' = [campaignLock EXCEPT ![c] = q]
    /\ tx' = [tx EXCEPT ![q] =
                [@ EXCEPT !.pc = IF t \in ErpTypes THEN "profile" ELSE "find",
                          !.campaign = c, !.type = t, !.version = campaign[c].version,
                          !.read = settings, !.drawn = settings.logo \in logos]]
    /\ UNCHANGED <<database, files, logos, settingsLock, handed>>

\* Mutant: the profile is committed also when it was there.
ReadProfileAndCommit(q) ==
    /\ At(q, "profile")
    /\ Goto(q, IF profile THEN "find" ELSE "materialize")
    /\ Release(q)
    /\ UNCHANGED <<database, files, logos, handed>>

\* get_profile
ReadProfile(q) ==
    /\ At(q, "profile")
    /\ Goto(q, IF profile THEN "find" ELSE "materialize")
    /\ UNCHANGED <<database, files, logos, locks, handed>>

\* The canonical profile is inserted and committed: the campaign is not locked
\* any more, and what q knows of it is what it read before.
MaterializeProfile(q) ==
    /\ At(q, "materialize")
    /\ ~profile
    /\ profile' = TRUE
    /\ tx' = [tx EXCEPT ![q] = [@ EXCEPT !.pc = "find", !.lost = TRUE]]
    /\ Release(q)
    /\ UNCHANGED <<campaign, settings, rows, files, logos, handed>>

\* Another request inserted it since: the code is unique.
MaterializeConflict(q) ==
    /\ At(q, "materialize")
    /\ profile
    /\ Goto(q, "done")
    /\ Release(q)
    /\ UNCHANGED <<database, files, logos, handed>>

\* _find_existing
Existing(q) == {r \in Official(tx[q].campaign, tx[q].type) :
                    Source(r.content) = Source(Rendered(q))}

ReuseExisting(q) ==
    /\ At(q, "find")
    /\ Existing(q) # {}
    /\ Goto(q, "done")
    /\ Release(q)
    /\ UNCHANGED <<database, files, logos, handed>>

FindNone(q) ==
    /\ At(q, "find")
    /\ Existing(q) = {}
    /\ Goto(q, "allocate")
    /\ UNCHANGED <<database, files, logos, locks, handed>>

\* _allocate_document_number waits for the lock and keeps what q read.
Allocate(q) ==
    /\ At(q, "allocate")
    /\ settingsLock = None
    /\ tx[q].read.next <= MaxNumber
    /\ settingsLock' = q
    /\ handed' = [handed EXCEPT ![Number(q)] = @ \cup {q}]
    /\ Goto(q, "render")
    /\ UNCHANGED <<database, files, logos, campaignLock>>

\* write_document replaces a file of the same name.
RenderAndWrite(q) ==
    /\ At(q, "render")
    /\ files' = [files EXCEPT ![Path(Rendered(q))] = Rendered(q)]
    /\ Goto(q, "insert")
    /\ UNCHANGED <<database, logos, locks, handed>>

\* A document's foreign key: its campaign is locked by nobody else.
CampaignFree(q) == campaignLock[tx[q].campaign] \in {None, q}

\* The renderer raises.
RenderRaises(q) ==
    /\ At(q, "render")
    /\ Goto(q, "record")
    /\ UNCHANGED <<database, files, logos, locks, handed>>

\* _record_failure keeps the number, unless it is taken.
RecordFailure(q) ==
    /\ At(q, "record")
    /\ IF Taken(Number(q))
       THEN UNCHANGED <<rows, settings>>
       ELSE /\ CampaignFree(q)
            /\ rows' = rows \cup {[content |-> Rendered(q), status |-> "FAILED"]}
            /\ settings' = CounterWritten(q)
    /\ Goto(q, "done")
    /\ Release(q)
    /\ UNCHANGED <<campaign, profile, files, logos, handed>>

\* Mutant: numbers are not unique.
InsertableAnyNumber(q) == Existing(q) = {}

\* The unique number, and uq_document_exports_idempotency.
Insertable(q) == ~Taken(Number(q)) /\ Existing(q) = {}

\* Mutant: only a document of the same source is superseded.
PreviousOfSource(q) == Existing(q)

\* What _supersede_previous finds.
Previous(q) == Official(tx[q].campaign, tx[q].type)

\* flush, and _supersede_previous: what it finds it locks, and changes at the
\* commit.
Insert(q) ==
    /\ At(q, "insert")
    /\ Insertable(q)
    /\ CampaignFree(q)
    /\ campaignLock' = [campaignLock EXCEPT ![tx[q].campaign] = q]
    /\ tx' = [tx EXCEPT ![q] = [@ EXCEPT
                 !.pc = "commit",
                 !.previous = Previous(q)]]
    /\ UNCHANGED <<database, files, logos, settingsLock, handed>>

Superseded(r) == [r EXCEPT !.status = "SUPERSEDED"]

\* The commit is done, whether or not its answer arrives.
Commit(q, answered) ==
    /\ At(q, "commit")
    /\ rows' = (rows \ tx[q].previous)
                 \cup {Superseded(r) : r \in tx[q].previous}
                 \cup {[content |-> Rendered(q), status |-> "GENERATED"]}
    /\ settings' = CounterWritten(q)
    /\ Goto(q, IF answered THEN "done" ELSE "check")
    /\ Release(q)
    /\ UNCHANGED <<campaign, profile, files, logos, handed>>

\* The insert violates an index, or the connection is lost: rollback.
Rollback(q) ==
    /\ tx[q].pc \in {"insert", "commit"}
    /\ Goto(q, "check")
    /\ Release(q)
    /\ UNCHANGED <<database, files, logos, handed>>

\* A document is about to be inserted, and no index refuses it first.
Inserting(q) ==
    \/ At(q, "insert") /\ Insertable(q)
    \/ At(q, "record") /\ ~Taken(Number(q))

\* The next step of q needs a lock that p holds.
Waits(q, p) ==
    \/ At(q, "allocate") /\ settingsLock = p
    \/ Inserting(q) /\ p # q /\ campaignLock[tx[q].campaign] = p

\* Every circle of waits is of two: CirclesAreOfTwo in DocumentEngine_proofs.
Deadlocked(q) == \E p \in Requests : Waits(q, p) /\ Waits(p, q)

\* Mutant: the insert is tried again from a savepoint, with the row of the
\* settings, locked before it, still locked.
VictimRetries(q) ==
    /\ Deadlocked(q)
    /\ IF At(q, "insert")
       THEN Goto(q, "render") /\ UNCHANGED locks
       ELSE Goto(q, "done") /\ Release(q)
    /\ UNCHANGED <<database, files, logos, handed>>

\* PostgreSQL ends a deadlock: the statement of one of the two fails, and its
\* request with it.
Victim(q) ==
    /\ Deadlocked(q)
    /\ Goto(q, IF At(q, "insert") THEN "check" ELSE "done")
    /\ Release(q)
    /\ UNCHANGED <<database, files, logos, handed>>

\* Mutant: a superseded document does not count.
ReferencedByOfficial(path) == \E r \in rows : r.status = "GENERATED" /\ Path(r.content) = path

Referenced(path) == \E r \in rows : r.status # "FAILED" /\ Path(r.content) = path

\* Is the file some document's?  If that cannot be read it is kept.
LookBeforeRemoving(q) ==
    /\ At(q, "check")
    /\ \E readable \in BOOLEAN :
          Goto(q, IF readable /\ ~Referenced(Path(Rendered(q))) THEN "unlink" ELSE "done")
    /\ UNCHANGED <<database, files, logos, locks, handed>>

RemoveFile(q) ==
    /\ At(q, "unlink")
    /\ files' = [files EXCEPT ![Path(Rendered(q))] = None]
    /\ Goto(q, "done")
    /\ UNCHANGED <<database, logos, locks, handed>>

-----------------------------------------------------------------------------
(* Logo uploads, under the lock of the settings row from the start.        *)

\* update_logo writes the file only if there is none of that name.
WriteLogo(q, image) ==
    /\ At(q, "idle")
    /\ settingsLock = None
    /\ settingsLock' = q
    /\ logos' = logos \cup {image}
    /\ tx' = [tx EXCEPT ![q] = [@ EXCEPT !.pc = "logo", !.image = image,
                                         !.existed = image \in logos, !.read = settings]]
    /\ handed' = [handed EXCEPT ![image] = @ \cup {q}]
    /\ UNCHANGED <<database, files, campaignLock>>

\* Only a file that this upload wrote, and that was not the logo, may go.
AfterFailedUpload(q) ==
    IF ~tx[q].existed /\ tx[q].read.logo # tx[q].image THEN "logo_check" ELSE "done"

CommitLogo(q, answered) ==
    /\ At(q, "logo")
    /\ settings' = [settings EXCEPT !.logo = tx[q].image]
    /\ Goto(q, IF answered THEN "done" ELSE AfterFailedUpload(q))
    /\ Release(q)
    /\ UNCHANGED <<campaign, profile, rows, files, logos, handed>>

RollbackLogo(q) ==
    /\ At(q, "logo")
    /\ Goto(q, AfterFailedUpload(q))
    /\ Release(q)
    /\ UNCHANGED <<database, files, logos, handed>>

\* Mutant: the row as it was before the upload is asked.
WasLogo(q) == tx[q].read.logo = tx[q].image

IsLogo(q) == settings.logo = tx[q].image

LookBeforeRemovingLogo(q) ==
    /\ At(q, "logo_check")
    /\ \E readable \in BOOLEAN :
          Goto(q, IF readable /\ ~IsLogo(q) THEN "logo_unlink" ELSE "done")
    /\ UNCHANGED <<database, files, logos, locks, handed>>

RemoveLogo(q) ==
    /\ At(q, "logo_unlink")
    /\ logos' = logos \ {tx[q].image}
    /\ Goto(q, "done")
    /\ UNCHANGED <<database, files, locks, handed>>

-----------------------------------------------------------------------------
(* Commands of one step.                                                   *)

\* update_settings: one short transaction under the row's lock.
UpdateSettings(name, prefix) ==
    /\ settingsLock = None
    /\ settings' = [settings EXCEPT !.name = name, !.prefix = prefix]
    /\ settings' # settings
    /\ UNCHANGED <<campaign, profile, rows, files, logos, locks, tx, handed>>

\* Mutant: a document in any state counts.
AttemptedAll(c) == \A t \in Types : \E r \in rows :
                      r.content.campaign = c /\ r.content.type = t

\* required_documents_for
DocumentedAll(c) == \A t \in Types : Official(c, t) # {}

\* close_campaign
Close(c) ==
    /\ campaignLock[c] = None
    /\ campaign[c].status = "APPROVED"
    /\ DocumentedAll(c)
    /\ campaign' = [campaign EXCEPT ![c].status = "CLOSED"]
    /\ UNCHANGED <<settings, profile, rows, files, logos, locks, tx, handed>>

\* A campaign expires (an unlocked GET expires closed ones too), is reopened,
\* reviewed and approved again; until then no document is generated.
Reapprove(c) ==
    /\ campaignLock[c] = None
    /\ campaign[c].version < MaxVersion
    /\ campaign' = [campaign EXCEPT ![c] = [status |-> "APPROVED", version |-> @.version + 1]]
    /\ UNCHANGED <<settings, profile, rows, files, logos, locks, tx, handed>>

\* The process dies: its transaction is rolled back, its files stay.
Crash(q) ==
    /\ tx[q].pc \in Running
    /\ Goto(q, "done")
    /\ Release(q)
    /\ UNCHANGED <<database, files, logos, handed>>

GenerationStep(q) ==
    \/ ReadProfile(q) \/ MaterializeProfile(q) \/ MaterializeConflict(q)
    \/ ReuseExisting(q) \/ FindNone(q)
    \/ Allocate(q) \/ RenderAndWrite(q) \/ RenderRaises(q) \/ RecordFailure(q)
    \/ Insert(q) \/ (\E answered \in BOOLEAN : Commit(q, answered)) \/ Rollback(q)
    \/ LookBeforeRemoving(q) \/ RemoveFile(q)

LogoStep(q) ==
    \/ (\E answered \in BOOLEAN : CommitLogo(q, answered)) \/ RollbackLogo(q)
    \/ LookBeforeRemovingLogo(q) \/ RemoveLogo(q)

Command ==
    \/ \E name \in Names \cup {None}, prefix \in Prefixes : UpdateSettings(name, prefix)
    \/ \E c \in Campaigns : Close(c) \/ Reapprove(c)

Next ==
    \/ \E q \in Requests :
          \/ \E c \in Campaigns, t \in Types : Open(q, c, t)
          \/ \E image \in Images : WriteLogo(q, image)
          \/ GenerationStep(q) \/ LogoStep(q) \/ Crash(q) \/ Victim(q)
    \/ Command

Spec == Init /\ [][Next]_vars

(* A request that was begun goes on as long as it waits for no lock, and   *)
(* PostgreSQL looks for deadlocks.  No request is bound to begin, none to  *)
(* lose its connection or die, and no command to be given.                 *)

\* What a request does by itself.
Proceed(q) ==
    \/ ReadProfile(q) \/ MaterializeProfile(q) \/ MaterializeConflict(q)
    \/ ReuseExisting(q) \/ FindNone(q)
    \/ Allocate(q) \/ RenderAndWrite(q) \/ RenderRaises(q) \/ RecordFailure(q)
    \/ Insert(q) \/ (~Insertable(q) /\ At(q, "insert") /\ Rollback(q))
    \/ \E answered \in BOOLEAN : Commit(q, answered) \/ CommitLogo(q, answered)
    \/ LookBeforeRemoving(q) \/ RemoveFile(q)
    \/ LookBeforeRemovingLogo(q) \/ RemoveLogo(q)

Fairness ==
    /\ \A q \in Requests : WF_vars(Proceed(q))
    /\ WF_vars(\E q \in Requests : Victim(q))

LiveSpec == Spec /\ Fairness

-----------------------------------------------------------------------------
(* Properties.                                                             *)

\* A campaign has one official document of a type at a time, although two
\* generations of it can run at once after the profile was created.
OneOfficial ==
    \A r, s \in rows :
        r.status = "GENERATED" /\ s.status = "GENERATED"
            /\ r.content.campaign = s.content.campaign /\ r.content.type = s.content.type
                => r = s

\* A closed campaign has all its documents, also of the lost and the failed.
ClosedIsDocumented ==
    \A c \in Campaigns : campaign[c].status = "CLOSED" =>
        \A t \in Types : Official(c, t) # {}

DocumentsOf(c) == {r \in rows : r.content.campaign = c}

\* "Campana CLOSED: sin documentos nuevos", but for a generation that lost its
\* lock of the campaign when it created the export profile.
ClosedIsFrozen ==
    [][\A c \in Campaigns :
          campaign[c].status = "CLOSED" /\ DocumentsOf(c)' # DocumentsOf(c) =>
              \E q \in Requests : tx[q].campaign = c /\ tx[q].lost]_vars

\* Every request ends, answered or not: nobody waits for the campaign or for
\* the settings row for ever, although a generation that lost its campaign
\* when it created the profile takes the two in the opposite order.
RequestsEnd == \A q \in Requests : tx[q].pc \in Running ~> tx[q].pc = "done"

\* The file of a document, superseded ones included, is what was rendered for
\* it, whatever fails or dies, if no other request was handed its number.
SoleHolderKeepsFile ==
    \A r \in rows :
        r.status # "FAILED" /\ handed[r.content.number] = {r.content.by} =>
            files[Path(r.content)] = r.content

\* The logo's file is there, unless the same image was uploaded again.
LogoIsThere ==
    \A image \in Images :
        settings.logo = image /\ (\E q \in Requests : handed[image] = {q}) => image \in logos

\* The documents keep the promise of DocumentRegister: numbers are given once,
\* a campaign that has a document of a type has one ever after, and closing
\* needs one of each, whatever fails, dies or is replaced.
Register == INSTANCE DocumentRegister WITH
    current <- [c \in Campaigns |-> [t \in Types |->
                  {r.content.number : r \in Official(c, t)}]],
    used <- {r.content.number : r \in rows},
    closed <- {c \in Campaigns : campaign[c].status = "CLOSED"}

ImplementsRegister == Register!RegisterSpec
=============================================================================
