---------------------------- MODULE DamageEvidence ----------------------------
(***************************************************************************)
(* The photograph of a damaged product: one per damage, uploaded by the    *)
(* owner of the count session while it is in progress, or by whoever may   *)
(* review damages.                                                         *)
(*                                                                         *)
(* An upload looks whether there is evidence, waits for the body, writes   *)
(* the file that the damage and the image type name, and commits the name  *)
(* to the row.  No lock is held, so that several may pass the look.  After *)
(* a commit that fails, or is not seen to succeed, the file is removed if  *)
(* the row does not name it.                                               *)
(***************************************************************************)
EXTENDS Access

CONSTANTS
    Damages,
    Owner,      \* of the session each damage was counted in
    Formats,    \* image types, each with its extension
    Uploads     \* requests; each runs once

ASSUME OwnerAssumption == Owner \in [Damages -> Users]
ASSUME FormatAssumption == None \notin Damages \cup Formats \cup Uploads

VARIABLES
    counting,   \* damages whose session is in progress
    evidence,   \* inventory_damages.evidence_path
    files,      \* EVIDENCE_DIR: by name, the upload whose image it is
    upload,     \* what each upload is about and where it is
    writers     \* ghost: by name, the uploads that wrote it

evidenceVars == <<counting, evidence, files, upload, writers>>
vars == <<accessVars, evidenceVars>>

Paths == Damages \X Formats

Upload == [pc: {"idle", "read", "commit", "look", "unlink", "done"},
           damage: Damages \cup {None}, format: Formats \cup {None}]

TypeOK ==
    /\ AccessTypeOK
    /\ counting \in SUBSET Damages
    /\ evidence \in [Damages -> Formats \cup {None}]
    /\ files \in [Paths -> Uploads \cup {None}]
    /\ upload \in [Uploads -> Upload]
    /\ writers \in [Paths -> SUBSET Uploads]

Init ==
    /\ AccessInit
    /\ counting = Damages
    /\ evidence = [d \in Damages |-> None]
    /\ files = [p \in Paths |-> None]
    /\ upload = [w \in Uploads |-> [pc |-> "idle", damage |-> None, format |-> None]]
    /\ writers = [p \in Paths |-> {}]

At(w, pc) == upload[w].pc = pc
Move(w, pc) == upload' = [upload EXCEPT ![w].pc = pc]
Path(w) == <<upload[w].damage, upload[w].format>>

-----------------------------------------------------------------------------
Submit(d) ==
    /\ d \in counting
    /\ counting' = counting \ {d}
    /\ UNCHANGED <<accessVars, evidence, files, upload, writers>>

\* Permission and evidence as they are now, before the body is awaited.
BeginUpload(w, u, d) ==
    /\ At(w, "idle")
    /\ \/ May(u, "damage.review")
       \/ May(u, "damage.report") /\ u = Owner[d] /\ d \in counting
    /\ evidence[d] = None
    /\ upload' = [upload EXCEPT ![w] = [pc |-> "read", damage |-> d, format |-> None]]
    /\ UNCHANGED <<accessVars, counting, evidence, files, writers>>

\* Not an image, empty or too large; or the file cannot be written.
Refuse(w) ==
    /\ At(w, "read")
    /\ Move(w, "done")
    /\ UNCHANGED <<accessVars, counting, evidence, files, writers>>

\* A temporary file takes the place of the one that may be there.
WriteFile(w, format) ==
    /\ At(w, "read")
    /\ upload' = [upload EXCEPT ![w] = [@ EXCEPT !.pc = "commit", !.format = format]]
    /\ files' = [files EXCEPT ![<<upload[w].damage, format>>] = w]
    /\ writers' = [writers EXCEPT ![<<upload[w].damage, format>>] = @ \cup {w}]
    /\ UNCHANGED <<accessVars, counting, evidence>>

\* The row takes the name, also where another upload has set one since.
CommitEvidence(w, answered) ==
    /\ At(w, "commit")
    /\ evidence' = [evidence EXCEPT ![upload[w].damage] = upload[w].format]
    /\ Move(w, IF answered THEN "done" ELSE "look")
    /\ UNCHANGED <<accessVars, counting, files, writers>>

CommitFails(w) ==
    /\ At(w, "commit")
    /\ Move(w, "look")
    /\ UNCHANGED <<accessVars, counting, evidence, files, writers>>

\* Mutant: what the row named when the request began is asked.
ReferencedAtBegin(w) == FALSE

\* Does the row name the file?
IsReferenced(w) == evidence[upload[w].damage] = upload[w].format

\* A look that fails counts as a yes.
LookBeforeUnlink(w) ==
    /\ At(w, "look")
    /\ \/ Move(w, "done")
       \/ ~IsReferenced(w) /\ Move(w, "unlink")
    /\ UNCHANGED <<accessVars, counting, evidence, files, writers>>

Unlink(w) ==
    /\ At(w, "unlink")
    /\ files' = [files EXCEPT ![Path(w)] = None]
    /\ Move(w, "done")
    /\ UNCHANGED <<accessVars, counting, evidence, writers>>

Die(w) ==
    /\ upload[w].pc \in {"read", "commit", "look", "unlink"}
    /\ Move(w, "done")
    /\ UNCHANGED <<accessVars, counting, evidence, files, writers>>

EvidenceNext ==
    \/ \E d \in Damages :
          \/ Submit(d)
          \/ \E w \in Uploads, u \in Users : BeginUpload(w, u, d)
    \/ \E w \in Uploads :
          \/ Refuse(w) \/ CommitFails(w) \/ LookBeforeUnlink(w) \/ Unlink(w) \/ Die(w)
          \/ \E format \in Formats : WriteFile(w, format)
          \/ \E answered \in BOOLEAN : CommitEvidence(w, answered)

Next ==
    \/ AccessNext /\ UNCHANGED evidenceVars
    \/ EvidenceNext

Spec == Init /\ [][Next]_vars

-----------------------------------------------------------------------------
\* Evidence that a row names is there, unchanged, where only one upload has
\* written under that name, however its commit was answered: the cleanup of
\* upload_damage_evidence spares what is referenced.
EvidenceKept ==
    \A d \in Damages : evidence[d] # None =>
        LET name == <<d, evidence[d]>>
        IN  /\ writers[name] # {}
            /\ \A w \in Uploads : writers[name] = {w} => files[name] = w
=============================================================================
