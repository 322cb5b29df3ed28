---------------------------- MODULE IncidentDesk ----------------------------
(***************************************************************************)
(* What users do to an incident itself: create, update, assign, change its *)
(* status, delete and enrich it (src/routes/incidents.py,                  *)
(* src/services/incidents_bl.py, src/repositories/db.py).                  *)
(*                                                                         *)
(* A request is a few commits, each one step, and those of several users   *)
(* interleave.  The enrichments of an incident are one row of arbitrary    *)
(* keys, read, merged in memory and written whole; "note" is the key the   *)
(* merge protects.  The alerts of an incident are module Incidents.        *)
(***************************************************************************)
EXTENDS IncidentRequests, Integers, Sequences, FiniteSets, SequencesExt

CONSTANTS User,       \* those who make the requests
          NoUser,
          Status      \* the statuses a request sets

ASSUME DeskAssumption ==
    /\ NoIncident \notin Incident /\ NoUser \notin User /\ MaxRequests \in Nat
    /\ "none" \notin Status

VARIABLES
    deskStatus,   \* status, "none" before the incident is created
    assignee,     \* assignee
    audits,       \* the INCIDENT_ASSIGN entries of the audit: <<incident, user>>
    enrichments,  \* incidentenrichment: the keys and values, or NoEnrichments
    deskPc,       \* where each client is
    form,         \* the body of its request, and what it has read
    deskOps,      \* requests each client made
    given,        \* history: the assignee an incident was created with
    noted         \* history: incidents with a note nobody asked to remove

rowVars == <<deskStatus, assignee, audits, enrichments>>
deskHistory == <<given, noted>>
deskVars == <<rowVars, deskPc, form, deskOps, deskHistory>>

Null == "null"
NoEnrichments == [none |-> Null]
NoForm == [on |-> NoIncident, todo |-> << >>, user |-> NoUser, body |-> << >>, force |-> FALSE,
           read |-> NoEnrichments]
Exists(i) == deskStatus[i] # "none"

\* Some incidents exist, nobody's, and may have a note.
DeskInit ==
    /\ deskStatus \in [Incident -> {"none", "firing"}]
    /\ assignee = [i \in Incident |-> NoUser] /\ audits = {}
    /\ enrichments \in [Incident -> {NoEnrichments, [note |-> "text"]}]
    /\ \A i \in Incident : ~Exists(i) => enrichments[i] = NoEnrichments
    /\ deskPc = [c \in Client |-> "idle"]
    /\ form = [c \in Client |-> NoForm]
    /\ deskOps = [c \in Client |-> 0]
    /\ given = [i \in Incident |-> NoUser]
    /\ noted = {i \in Incident : enrichments[i] # NoEnrichments}

DeskRequest(c) == deskPc[c] = "idle" /\ deskOps[c] < MaxRequests /\ deskOps' = [deskOps EXCEPT ![c] = @ + 1]

Open(c, step, fm) ==
    /\ DeskRequest(c)
    /\ deskPc' = [deskPc EXCEPT ![c] = step]
    /\ form' = [form EXCEPT ![c] = fm]

Close(c) ==
    /\ deskPc' = [deskPc EXCEPT ![c] = "idle"]
    /\ form' = [form EXCEPT ![c] = NoForm]

(***************************************************************************)
(* Creation and deletion.                                                  *)
(***************************************************************************)

\* An incident that a user or an AI suggestion creates is not audited.
create_incident(c) ==
    /\ DeskRequest(c)
    /\ \E i \in Incident, u \in User \cup {NoUser} :
          /\ ~Exists(i)
          /\ deskStatus' = [deskStatus EXCEPT ![i] = "firing"]
          /\ assignee' = [assignee EXCEPT ![i] = u]
          /\ given' = [given EXCEPT ![i] = u]
    /\ UNCHANGED <<audits, enrichments, noted, deskPc, form>>

\* delete_incident is a bulk of one; each is a commit of its own.
bulk_delete_incidents(c) ==
    /\ \E S \in SUBSET Incident : \E order \in SetToSeqs(S) :
          S # {} /\ Open(c, "delete", [NoForm EXCEPT !.todo = order])
    /\ UNCHANGED <<rowVars, deskHistory>>

\* An unknown incident ends the request with 404: the ones before it are deleted.
delete_incident(c) ==
    LET i == Head(form[c].todo)
        last == Len(form[c].todo) = 1 \/ ~Exists(i)
    IN  /\ deskPc[c] = "delete"
        /\ deskStatus' = IF Exists(i) THEN [deskStatus EXCEPT ![i] = "deleted"] ELSE deskStatus
        /\ IF last THEN Close(c)
           ELSE form' = [form EXCEPT ![c].todo = Tail(@)] /\ UNCHANGED deskPc
        /\ UNCHANGED <<deskOps, assignee, audits, enrichments, deskHistory>>

(***************************************************************************)
(* Status and assignment.                                                  *)
(***************************************************************************)

\* The incident is read: "user" is who will become its assignee, if anybody.
\* Resolving or acknowledging also calls batch_enrich for the incident's alerts,
\* without awaiting it: the coroutine never runs and no alert changes.
change_incident_status(c) ==
    /\ \E i \in Incident, u \in User, s \in Status :
          /\ Exists(i)
          /\ Open(c, "status",
                  [NoForm EXCEPT !.on = i, !.body = [status |-> s],
                                 !.user = IF assignee[i] = u THEN NoUser ELSE u])
    /\ UNCHANGED <<rowVars, deskHistory>>

\* Mutated form of WriteStatus: the assignment is not audited.
MutWriteStatusUnaudited(c) ==
    LET fm == form[c] IN
    /\ deskPc[c] = "status"
    /\ deskStatus' = [deskStatus EXCEPT ![fm.on] = fm.body.status]
    /\ assignee' = IF fm.user = NoUser THEN assignee ELSE [assignee EXCEPT ![fm.on] = fm.user]
    /\ Close(c)
    /\ UNCHANGED <<deskOps, audits, enrichments, deskHistory>>

\* One commit: the status, and the user who changes it as assignee, audited.
WriteStatus(c) ==
    LET fm == form[c] IN
    /\ deskPc[c] = "status"
    /\ deskStatus' = [deskStatus EXCEPT ![fm.on] = fm.body.status]
    /\ IF fm.user = NoUser THEN UNCHANGED <<assignee, audits>>
       ELSE /\ assignee' = [assignee EXCEPT ![fm.on] = fm.user]
            /\ audits' = audits \cup {<<fm.on, fm.user>>}
    /\ Close(c)
    /\ UNCHANGED <<deskOps, enrichments, deskHistory>>

\* The audit is committed before the incident: of every assignment to oneself,
\* and of an update to an assignee other than the one just read.
assign_incident(c) ==
    /\ \E i \in Incident, u \in User :
          /\ Exists(i) /\ Open(c, "assign", [NoForm EXCEPT !.on = i, !.user = u])
          /\ audits' = audits \cup {<<i, u>>}
    /\ UNCHANGED <<deskStatus, assignee, enrichments, deskHistory>>

update_incident(c) ==
    /\ \E i \in Incident, u \in User \cup {NoUser}, st \in {Null} \cup Status :
          /\ Exists(i)
          /\ Open(c, "assign", [NoForm EXCEPT !.on = i, !.user = u, !.body = [status |-> st]])
          /\ audits' = IF u \in {NoUser, assignee[i]} THEN audits ELSE audits \cup {<<i, u>>}
    /\ UNCHANGED <<deskStatus, assignee, enrichments, deskHistory>>

\* What the body leaves out stays.
WriteIncident(c) ==
    LET fm == form[c]
        st == IF DOMAIN fm.body = {} THEN Null ELSE fm.body.status
    IN  /\ deskPc[c] = "assign"
        /\ assignee' = IF fm.user = NoUser THEN assignee ELSE [assignee EXCEPT ![fm.on] = fm.user]
        /\ deskStatus' = IF st = Null THEN deskStatus ELSE [deskStatus EXCEPT ![fm.on] = st]
        /\ Close(c)
        /\ UNCHANGED <<deskOps, audits, enrichments, deskHistory>>

(***************************************************************************)
(* Enrichments.                                                            *)
(***************************************************************************)

Bodies == {[note |-> "text"], [note |-> ""], [note |-> Null], [env |-> "prod"]}
Text(p) == "note" \in DOMAIN p /\ p["note"] \notin {"", Null}
Only(p, K) == [k \in DOMAIN p \cap K |-> p[k]]
Over(p, q) == [k \in DOMAIN p \cup DOMAIN q |-> IF k \in DOMAIN p THEN p[k] ELSE q[k]]

enrich_incident(c) ==
    /\ \E i \in Incident, p \in Bodies, force \in BOOLEAN :
          Exists(i) /\ Open(c, "enrich", [NoForm EXCEPT !.on = i, !.body = p, !.force = force])
    /\ UNCHANGED <<rowVars, deskHistory>>

\* The keys that are left, as read, replace the row.
unenrich_incident(c) ==
    /\ \E i \in Incident, keys \in {{"note"}, {"env"}} :
          /\ Exists(i) /\ enrichments[i] # NoEnrichments
          /\ Open(c, "enrich", [NoForm EXCEPT !.on = i, !.force = TRUE,
                                  !.body = Only(enrichments[i], DOMAIN enrichments[i] \ keys)])
    /\ UNCHANGED <<rowVars, deskHistory>>

get_enrichment_with_session(c) ==
    /\ deskPc[c] = "enrich"
    /\ form' = [form EXCEPT ![c].read = enrichments[form[c].on]]
    /\ deskPc' = [deskPc EXCEPT ![c] = "merge"]
    /\ UNCHANGED <<rowVars, deskOps, deskHistory>>

\* Mutated form of Merge: an empty note is written like any other value.
MutMergeNoNoteGuard(old, p, force) ==
    LET whole == IF force THEN p ELSE Over(p, old)
    IN  Only(whole, {k \in DOMAIN whole : ~(k \in DOMAIN p /\ p[k] = Null)})

\* Without force the values are added, and an empty note never replaces one;
\* a value of None removes its key, the note's too.
Merge(old, p, force) ==
    LET kept == IF Text(old) /\ ~Text(p) THEN [note |-> old["note"]] ELSE << >>
        whole == IF force THEN p ELSE Over(kept, Over(p, old))
    IN  Only(whole, {k \in DOMAIN whole : ~(k \in DOMAIN p /\ p[k] = Null)})

\* A row found is replaced.  Otherwise one is inserted as it came, unless another
\* request did so first: IntegrityError, rolled back, and this one is dropped.
_enrich_incident(c) ==
    LET fm == form[c]
        now == enrichments[fm.on]
        then == IF fm.read # NoEnrichments THEN Merge(fm.read, fm.body, fm.force)
                ELSE IF now = NoEnrichments THEN fm.body ELSE now
    IN  /\ deskPc[c] = "merge"
        /\ enrichments' = [enrichments EXCEPT ![fm.on] = then]
        /\ noted' = IF Text(then) /\ (Text(fm.body) \/ fm.on \in noted) THEN noted \cup {fm.on}
                    ELSE IF fm.force \/ fm.read # now \/ fm.body = [note |-> Null]
                         THEN noted \ {fm.on} ELSE noted
        /\ Close(c)
        /\ UNCHANGED <<deskOps, deskStatus, assignee, audits, given>>

\* A statement of a request fails and the request ends: what it has committed
\* stays.  So does an update that names a severity, whose name is put in a
\* column of integers: nothing but its audit is stored.
DeskFails(c) == deskPc[c] # "idle" /\ Close(c) /\ UNCHANGED <<rowVars, deskOps, deskHistory>>

DeskNext ==
    \E c \in Client :
       \/ create_incident(c) \/ bulk_delete_incidents(c) \/ delete_incident(c)
       \/ change_incident_status(c) \/ WriteStatus(c)
       \/ assign_incident(c) \/ update_incident(c) \/ WriteIncident(c)
       \/ enrich_incident(c) \/ unenrich_incident(c)
       \/ get_enrichment_with_session(c) \/ _enrich_incident(c)
       \/ DeskFails(c)

DeskSpec == DeskInit /\ [][DeskNext]_deskVars

(***************************************************************************)
(* Properties.                                                             *)
(***************************************************************************)

\* The types of the incidents' columns and of the requests' state.
DeskTypeOK ==
    /\ deskStatus \in [Incident -> {"none", "firing", "deleted"} \cup Status]
    /\ assignee \in [Incident -> User \cup {NoUser}] /\ audits \subseteq Incident \X User
    /\ \A i \in Incident : \/ enrichments[i] = NoEnrichments
                           \/ DOMAIN enrichments[i] \subseteq {"note", "env"}
    /\ deskPc \in [Client -> {"idle", "delete", "status", "assign", "enrich", "merge"}]
    /\ \A c \in Client : form[c].on \in Incident \cup {NoIncident} /\ form[c].user \in User \cup {NoUser}
    /\ deskOps \in [Client -> 0..MaxRequests]

\* Whoever an incident is assigned to, other than the one it was created with,
\* is in its audit as assigned, whichever request assigned it and wherever that
\* request failed (assign_incident, update_incident, change_status).
AssigneeIsOnRecord ==
    \A i \in Incident : assignee[i] \in {NoUser, given[i]} \/ <<i, assignee[i]>> \in audits

\* A note on an incident stays until a request replaces all enrichments or sends
\* None for it, or one that had read the row before the note was written
\* overwrites it: no other enrichment without a note, or with an empty one,
\* erases it (_enrich_incident).
NoteStands == \A i \in noted : Text(enrichments[i])

\* Types, and the notes.
NotesAreSound == DeskTypeOK /\ NoteStands

=============================================================================
