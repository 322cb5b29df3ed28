------------------------------ MODULE LastAlert ------------------------------
(***************************************************************************)
(* The LastAlert row: what the gateway shows of an alert fingerprint.      *)
(*                                                                         *)
(* Two kinds of writers meet on it.  An occurrence of the alert creates or *)
(* repoints the row (set_last_alert, src/repositories/db.py) and may end a *)
(* dismissal; a user's request (the enrich, note, batch, assign, delete    *)
(* and un-enrich routes of src/routes/alerts.py through                    *)
(* src/services/enrichments_bl.py) writes its enrichment columns, commits, *)
(* and then publishes what it wrote.                                       *)
(*                                                                         *)
(* An update of an existing row is one step: SELECT ... FOR UPDATE holds   *)
(* the row until the commit.  A row that does not exist locks nothing, so  *)
(* its creation is two steps.  The assignee and ticket columns behave like *)
(* "deleted" and are left out; the tracking columns travel with "alert".   *)
(***************************************************************************)
EXTENDS Integers, Sequences, FiniteSets, Functions

CONSTANTS Fps,          \* fingerprints
          Writers,      \* calls of set_last_alert
          Requests,     \* users' requests
          NoRow,        \* no LastAlert row
          MaxTs,        \* bound: alert timestamps are 1..MaxTs
          MaxAttempts,  \* max_retries of set_last_alert
          MaxFaults,    \* bound: database faults in set_last_alert
          Payloads,     \* the enrichments a user may send
          ClearLists    \* the key lists a user may un-enrich

Null == "null"
Blank == "blank"   \* a note of white space only, or empty
Statuses == {"firing", "resolved"}
\* What the columns hold, and so what a payload may set them to.
AlertStatus == Statuses \cup {Null, "acknowledged", "suppressed"}
DismissMode == {Null, "permanent", "until_resolved", "dismiss_until"}
Until == {Null, "later"}
LastAlerts == [ts : Nat, first : Nat, alert : Writers, status : AlertStatus,
               status_disposable : BOOLEAN, dismiss_mode : DismissMode,
               dismissed_until : Until, note : {Null, Blank, "note"}, deleted : BOOLEAN]

ASSUME LastAlertAssumption ==
    /\ MaxTs \in Nat \ {0} /\ MaxFaults \in Nat
    /\ MaxAttempts \in Nat \ {0, 1}
    /\ NoRow \notin Writers \cup LastAlerts

\* A payload is a dictionary; what it has for a column the column can hold (the
\* flags are NOT NULL, so that a null for them always ends like StoreFails).
Typed(p, k, T) == k \in DOMAIN p => p[k] \in T
IsPayload(p) ==
    /\ p = [k \in DOMAIN p |-> p[k]]
    /\ Typed(p, "status", AlertStatus)
    /\ Typed(p, "status_disposable", BOOLEAN)
    /\ Typed(p, "dismiss_mode", DismissMode)
    /\ Typed(p, "dismissed_until", Until)
    /\ Typed(p, "note", {Null, Blank, "note"})
    /\ Typed(p, "deleted", BOOLEAN)
    /\ Typed(p, "dismissed", BOOLEAN)
    /\ Typed(p, "dismiss_until", Until)

ASSUME PayloadAssumption ==
    /\ \A p \in Payloads : IsPayload(p)
    /\ \A keys \in ClearLists : "status_disposable" \notin keys

VARIABLES
    row,      \* the LastAlert row of each fingerprint, or NoRow
    wpc,      \* where each call of set_last_alert is
    occ,      \* the occurrence it carries, NoRow before the call
    attempt,  \* its attempt
    faults,   \* database faults that hit it
    rpc,      \* where each request is
    req,      \* what it asks, while it is served
    todo,     \* the fingerprints it has still to write
    audits,   \* the AlertAudit rows: <<request, fingerprint, action>>
    applied,  \* the enrichments the database layer wrote for it
    event,    \* the event it published, and for which fingerprints
    sink,     \* where the event went: "no", "main" or "dlq"
    answer,   \* what its caller was told
    claim     \* history: the user's last status or dismiss write, per row

writerVars == <<wpc, occ, attempt, faults>>
requestVars == <<rpc, req, todo, audits, applied, event, sink, answer>>
vars == <<row, wpc, occ, attempt, faults, rpc, req, todo, audits, applied, event, sink,
          answer, claim>>

\* The columns tagged enrichable.
LASTALERT_ENRICHMENT_COLUMNS ==
    {"status", "status_disposable", "dismiss_mode", "dismissed_until", "note", "deleted"}
NoPayload == << >>
NoEvent == [to |-> << >>, enrichments |-> NoPayload, mixed |-> FALSE]
NoRequest == [route |-> "none", action |-> "none", fps |-> << >>, enrichments |-> NoPayload,
              dispose |-> FALSE, force |-> FALSE]

\* The row of an alert that has been resolved before: the lifecycle left its
\* status disposable.
ResolvedBefore(w) ==
    [ts |-> 1, first |-> 0, alert |-> w, status |-> "resolved", status_disposable |-> TRUE,
     dismiss_mode |-> Null, dismissed_until |-> Null, note |-> Null, deleted |-> FALSE]

Init ==
    /\ \E old \in [Fps -> Writers \cup {NoRow}] :  \* the writers that were there before
          /\ \A f, g \in Fps : f # g /\ old[f] # NoRow => old[f] # old[g]
          /\ row = [f \in Fps |-> IF old[f] = NoRow THEN NoRow ELSE ResolvedBefore(old[f])]
          /\ wpc = [w \in Writers |-> IF w \in Range(old) THEN "done" ELSE "idle"]
          /\ occ = [w \in Writers |->
                       IF w \in Range(old)
                       THEN [fp |-> CHOOSE f \in Fps : old[f] = w, ts |-> 1, status |-> "resolved"]
                       ELSE NoRow]
          /\ claim = [f \in Fps |->
                         IF old[f] = NoRow THEN NoRow
                         ELSE [shown |-> [status |-> "resolved", mode |-> Null, until |-> Null],
                               keep |-> TRUE, explicit |-> TRUE, since |-> {"resolved"}]]
    /\ attempt = [w \in Writers |-> 1]
    /\ faults = [w \in Writers |-> 0]
    /\ rpc = [r \in Requests |-> "idle"]
    /\ req = [r \in Requests |-> NoRequest]
    /\ todo = [r \in Requests |-> << >>]
    /\ audits = {}
    /\ applied = [r \in Requests |-> NoPayload]
    /\ event = [r \in Requests |-> NoEvent]
    /\ sink = [r \in Requests |-> "no"]
    /\ answer = [r \in Requests |-> "none"]

(***************************************************************************)
(* normalize_enrichments.                                                  *)
(***************************************************************************)

\* f, with g's value where f has none: f assigns to g, g is f's setdefault.
Over(f, g) == [x \in DOMAIN f \cup DOMAIN g |-> IF x \in DOMAIN f THEN f[x] ELSE g[x]]
Without(p, k) == [x \in DOMAIN p \ {k} |-> p[x]]
Get(p, k) == IF k \in DOMAIN p THEN p[k] ELSE Null

DismissUntil(p, ts) ==
    Over(Over([dismiss_mode |-> "dismiss_until", dismissed_until |-> ts], p),
         [status |-> "suppressed"])

\* The legacy "dismissed" flag, with or without a time.
TranslateDismissed(p) ==
    LET typed == Get(p, "dismissed_until")
        rest == Without(p, "dismissed")
        q == IF typed # Null THEN rest ELSE Without(rest, "dismiss_until")
        ts == IF typed # Null THEN typed ELSE Get(rest, "dismiss_until")
    IN  IF ~p["dismissed"]
        THEN Over(Over([dismiss_mode |-> Null, dismissed_until |-> Null], q), [status |-> Null])
        ELSE IF ts # Null THEN DismissUntil(q, ts)
             ELSE Over(q, [status |-> "suppressed", dismiss_mode |-> "permanent"])

normalize_enrichments(p) ==
    IF "dismissed" \in DOMAIN p THEN TranslateDismissed(p)
    ELSE IF "dismiss_until" \in DOMAIN p
         THEN IF p["dismiss_until"] # Null
              THEN DismissUntil(Without(p, "dismiss_until"), p["dismiss_until"])
              ELSE Without(p, "dismiss_until")
    ELSE IF "dismiss_mode" \in DOMAIN p
         THEN IF p["dismiss_mode"] # Null
              THEN Over(p, [status |-> "suppressed"])
              ELSE Over(p, [status |-> Null, dismissed_until |-> Null])
    ELSE p

\* Strict mode raises on a key that no branch consumed and no column takes.
Unknown(p) == ~(DOMAIN normalize_enrichments(p) \subseteq LASTALERT_ENRICHMENT_COLUMNS)

\* The routes translate "dismissed" before the service sees the payload.
_translate_dismiss_enrichments(p) ==
    IF "dismissed" \in DOMAIN p THEN TranslateDismissed(p) ELSE p

\* Mutated form of _apply_dispose_on_new_alert: "keep" leaves the old flag.
MutDisposeOnlyWhenAsked(p, dispose) ==
    IF dispose /\ ("status" \in DOMAIN p \/ "dismiss_mode" \in DOMAIN p)
    THEN Over([status_disposable |-> TRUE], p)
    ELSE p

_apply_dispose_on_new_alert(p, dispose) ==
    IF "status" \in DOMAIN p \/ "dismiss_mode" \in DOMAIN p
    THEN Over([status_disposable |-> dispose], p)
    ELSE p

\* Mutated form of Prepared: the event carries the payload as it was sent.
MutPreparedRaw(r) == _apply_dispose_on_new_alert(req[r].enrichments, req[r].dispose)

\* _enrich_entity_impl normalises once for the database and for the event.
Prepared(r) ==
    normalize_enrichments(
        _apply_dispose_on_new_alert(req[r].enrichments, req[r].dispose))

\* _apply_enrichments_to_last_alert: an empty note is written only with force.
_apply_enrichments_to_last_alert(la, p, force) ==
    [c \in DOMAIN la |->
        IF c \in DOMAIN p /\ (c = "note" /\ ~force => p["note"] \notin {Null, Blank})
        THEN p[c] ELSE la[c]]

\* History: a dismiss mode beside the legacy key for its time.
Mixed(p) == {"dismiss_mode", "dismiss_until"} \subseteq DOMAIN p

(***************************************************************************)
(* History: what the user last chose for a row, whether the request named   *)
(* a status or a dismiss mode, and the occurrences since.                   *)
(***************************************************************************)

Shown(la) == [status |-> la.status, mode |-> la.dismiss_mode, until |-> la.dismissed_until]
Chooses(p) ==
    DOMAIN p \cap {"status", "dismiss_mode", "dismissed_until", "status_disposable"} # {}
Claim(la, keep, explicit) ==
    [shown |-> Shown(la), keep |-> keep, explicit |-> explicit, since |-> {}]

(***************************************************************************)
(* set_last_alert                                                          *)
(***************************************************************************)

\* The caller has saved the occurrence itself.
Begin(w) ==
    /\ wpc[w] = "idle"
    /\ \E o \in [fp : Fps, ts : 1..MaxTs, status : Statuses] : occ' = [occ EXCEPT ![w] = o]
    /\ wpc' = [wpc EXCEPT ![w] = "read"]
    /\ UNCHANGED <<row, attempt, faults, requestVars, claim>>

apply_dismiss_lifecycle(la, status) ==
    IF status = "resolved" \/ la.status_disposable
    THEN [la EXCEPT !.status = status, !.status_disposable = TRUE,
                    !.dismiss_mode = Null, !.dismissed_until = Null]
    ELSE la

\* The row exists and is locked: a newer occurrence takes it over, an older
\* or simultaneous one changes nothing.
Repoint(w) ==
    LET o == occ[w] IN
    /\ wpc[w] = "read" /\ row[o.fp] # NoRow
    /\ IF row[o.fp].ts < o.ts
       THEN /\ row' = [row EXCEPT ![o.fp] =
                         apply_dismiss_lifecycle([@ EXCEPT !.ts = o.ts, !.alert = w],
                                                 o.status)]
            /\ claim' = [claim EXCEPT ![o.fp].since = @ \cup {o.status}]
       ELSE UNCHANGED <<row, claim>>
    /\ wpc' = [wpc EXCEPT ![w] = "done"]
    /\ UNCHANGED <<occ, attempt, faults, requestVars>>

SeeNoRow(w) ==
    /\ wpc[w] = "read" /\ row[occ[w].fp] = NoRow
    /\ wpc' = [wpc EXCEPT ![w] = "insert"]
    /\ UNCHANGED <<row, occ, attempt, faults, requestVars, claim>>

NewLastAlert(w) ==
    [ts |-> occ[w].ts, first |-> occ[w].ts, alert |-> w, status |-> Null,
     status_disposable |-> FALSE, dismiss_mode |-> Null, dismissed_until |-> Null,
     note |-> Null, deleted |-> FALSE]

Insert(w) ==
    LET f == occ[w].fp IN
    /\ wpc[w] = "insert" /\ row[f] = NoRow
    /\ row' = [row EXCEPT ![f] = NewLastAlert(w)]
    /\ claim' = [claim EXCEPT ![f] = Claim(NewLastAlert(w), TRUE, TRUE)]
    /\ wpc' = [wpc EXCEPT ![w] = "done"]
    /\ UNCHANGED <<occ, attempt, faults, requestVars>>

\* Mutated form of Retry: the last attempt is retried too.
MutRetryOnceMore(w) ==
    IF attempt[w] > MaxAttempts
    THEN wpc' = [wpc EXCEPT ![w] = "raised"] /\ UNCHANGED attempt
    ELSE /\ wpc' = [wpc EXCEPT ![w] = "read"]
         /\ attempt' = [attempt EXCEPT ![w] = @ + 1]

Retry(w) ==
    IF attempt[w] = MaxAttempts
    THEN wpc' = [wpc EXCEPT ![w] = "raised"] /\ UNCHANGED attempt
    ELSE /\ wpc' = [wpc EXCEPT ![w] = "read"]
         /\ attempt' = [attempt EXCEPT ![w] = @ + 1]

\* Mutated form of InsertCollides: the collision is raised.
MutCollisionRaised(w) ==
    /\ wpc[w] = "insert" /\ row[occ[w].fp] # NoRow
    /\ wpc' = [wpc EXCEPT ![w] = "raised"]
    /\ UNCHANGED <<row, occ, attempt, faults, requestVars, claim>>

\* Another creator committed first: IntegrityError, rolled back and retried.
InsertCollides(w) ==
    /\ wpc[w] = "insert" /\ row[occ[w].fp] # NoRow
    /\ Retry(w)
    /\ UNCHANGED <<row, occ, faults, requestVars, claim>>

\* The transaction fails and is rolled back: a deadlock, a lost savepoint or an
\* internal error is retried, any other OperationalError is raised.
DatabaseFault(w) ==
    /\ wpc[w] \in {"read", "insert"}
    /\ faults[w] < MaxFaults
    /\ faults' = [faults EXCEPT ![w] = @ + 1]
    /\ \/ Retry(w)
       \/ wpc' = [wpc EXCEPT ![w] = "raised"] /\ UNCHANGED attempt
    /\ UNCHANGED <<row, occ, requestVars, claim>>

(***************************************************************************)
(* The routes.                                                             *)
(***************************************************************************)

\* The alert table holds an occurrence of the fingerprint.
Known(f) == \E w \in Writers : wpc[w] # "idle" /\ occ[w].fp = f

Accept(r, route, fps, p, action, dispose, force) ==
    /\ req' = [req EXCEPT ![r] = [route |-> route, action |-> action, fps |-> fps, enrichments |-> p,
                                  dispose |-> dispose, force |-> force]]
    /\ todo' = [todo EXCEPT ![r] = fps]
    /\ rpc' = [rpc EXCEPT ![r] = "store"]
    /\ UNCHANGED <<row, writerVars, audits, applied, event, sink, answer, claim>>

Respond(r, a) ==
    /\ answer' = [answer EXCEPT ![r] = a]
    /\ rpc' = [rpc EXCEPT ![r] = "done"]
    /\ req' = [req EXCEPT ![r] = NoRequest]
    /\ todo' = [todo EXCEPT ![r] = << >>]

\* The action an enrichment is audited as.
get_enrichment_metadata(p) ==
    IF "status" \in DOMAIN p THEN IF p["status"] = "resolved" THEN "RESOLVE" ELSE "STATUS_CHANGE"
    ELSE IF Get(p, "note") \notin {Null, Blank} THEN "COMMENT" ELSE "GENERIC_ENRICH"

disposable_enrich_entity(r, f, p) ==
    Accept(r, "enrich", <<f>>, p, get_enrichment_metadata(p), TRUE, FALSE)

enrich_alert(r) ==
    /\ rpc[r] = "idle"
    /\ \E f \in Fps, sent \in Payloads :
          LET p == _translate_dismiss_enrichments(sent)
          IN  \/ disposable_enrich_entity(r, f, p)
              \/ Accept(r, "enrich", <<f>>, p, get_enrichment_metadata(p), FALSE, FALSE)

enrich_alert_note(r) ==
    /\ rpc[r] = "idle"
    /\ \E f \in Fps, n \in {Blank, "note"} :
          LET p == [note |-> n]
          IN  Accept(r, "enrich", <<f>>, p, get_enrichment_metadata(p), FALSE, FALSE)

assign_alert(r) ==
    /\ rpc[r] = "idle"
    /\ \E f \in Fps, dispose \in BOOLEAN,
          p \in {[status |-> "acknowledged"], [status |-> "acknowledged", note |-> "note"]} :
          Accept(r, "assign", <<f>>, p, "ACKNOWLEDGE", dispose, FALSE)

delete_alert(r) ==
    /\ rpc[r] = "idle"
    /\ \E f \in Fps, deleted \in BOOLEAN :
          Accept(r, "delete", <<f>>, [deleted |-> deleted], "DELETE_ALERT", FALSE, FALSE)

\* The keys a user un-enriches, as the columns to clear.
Cleared(keys) ==
    LET cols == (keys \ {"dismissed", "dismiss_until"})
                \cup (IF keys \cap {"dismissed", "dismiss_until"} = {} THEN {}
                      ELSE {"status", "dismiss_mode", "dismissed_until"})
    IN  [c \in cols |-> IF c = "deleted" THEN FALSE ELSE Null]

unenrich_alert(r) ==
    /\ rpc[r] = "idle"
    /\ \E f \in Fps, keys \in ClearLists :
          IF "assignees" \notin keys /\ Known(f)
          THEN Accept(r, "unenrich", <<f>>, Cleared(keys),
                      CASE "status" \in keys -> "STATUS_UNENRICH"
                        [] "status" \notin keys /\ "note" \in keys -> "UNCOMMENT"
                        [] OTHER -> "GENERIC_UNENRICH", FALSE, TRUE)
          ELSE /\ Respond(r, "failed")
               /\ UNCHANGED <<row, writerVars, audits, applied, event, sink, claim>>

\* The fingerprints are given, or are those of the rows a CEL filter selects.
batch_enrich_alerts(r) ==
    /\ rpc[r] = "idle"
    /\ \E p \in Payloads, dispose \in BOOLEAN :
          \/ \E fps \in {s \in UNION {[1..n -> Fps] : n \in 1..Cardinality(Fps)} :
                           \A i, j \in DOMAIN s : i # j => s[i] # s[j]} :
                Accept(r, "batch", fps, _translate_dismiss_enrichments(p),
                       get_enrichment_metadata(_translate_dismiss_enrichments(p)), dispose, FALSE)
          \/ \E a \in {"400", "ok"} :  \* not one selector, or nothing selected
                /\ Respond(r, a)
                /\ UNCHANGED <<row, writerVars, audits, applied, event, sink, claim>>

(***************************************************************************)
(* EnrichmentsBl                                                           *)
(***************************************************************************)

\* What an unexpected exception becomes: the assign and delete routes let it
\* reach the catch-all handler.
Failure(r) == IF req[r].route \in {"assign", "delete"} THEN "500" ELSE "failed"

\* ValueError, raised before the first write.
RejectUnknown(r) ==
    /\ rpc[r] = "store" /\ todo[r] = req[r].fps
    /\ Unknown(_apply_dispose_on_new_alert(req[r].enrichments, req[r].dispose))
    /\ Respond(r, "422")
    /\ UNCHANGED <<row, writerVars, audits, applied, event, sink, claim>>

\* _enrich_entity: one fingerprint's columns and its audit row, in one commit;
\* without a LastAlert row there is only the audit.
Store(r) ==
    LET f == Head(todo[r])
        p == normalize_enrichments(Prepared(r))
        la == _apply_enrichments_to_last_alert(row[f], p, req[r].force)
    IN  /\ rpc[r] = "store"
        /\ ~Unknown(_apply_dispose_on_new_alert(req[r].enrichments, req[r].dispose))
        /\ IF row[f] = NoRow
           THEN UNCHANGED <<row, claim>>
           ELSE /\ row' = [row EXCEPT ![f] = la]
                /\ claim' = IF Chooses(p)
                            THEN [claim EXCEPT ![f] =
                                    Claim(la, ~req[r].dispose,
                                          {"status", "dismiss_mode"}
                                              \cap DOMAIN req[r].enrichments # {})]
                            ELSE claim
        /\ audits' = audits \cup {<<r, f, req[r].action>>}
        /\ applied' = [applied EXCEPT ![r] = p]
        /\ todo' = [todo EXCEPT ![r] = Tail(@)]
        /\ rpc' = [rpc EXCEPT ![r] = IF Len(todo[r]) = 1 THEN "publish" ELSE "store"]
        /\ UNCHANGED <<writerVars, req, event, sink, answer>>

\* The database or, within a batch, Elasticsearch raised.
StoreFails(r) ==
    /\ rpc[r] = "store"
    /\ Respond(r, Failure(r))
    /\ UNCHANGED <<row, writerVars, audits, applied, event, sink, claim>>

\* produce() returned, from either topic; then Elasticsearch is updated, which
\* may raise, and the alert is read back.
Publish(r) ==
    /\ rpc[r] = "publish"
    /\ event' = [event EXCEPT ![r] = [to |-> req[r].fps, enrichments |-> Prepared(r),
                                      mixed |-> Mixed(req[r].enrichments)]]
    /\ \E t \in {"main", "dlq"} : sink' = [sink EXCEPT ![r] = t]
    /\ \/ Respond(r, Failure(r))
       \/ Respond(r, IF req[r].route = "enrich" /\ ~Known(req[r].fps[1])
                     THEN "failed" ELSE "ok")
    /\ UNCHANGED <<row, writerVars, audits, applied, claim>>

\* produce() raised: the commit stands.
PublishRaises(r) ==
    /\ rpc[r] = "publish"
    /\ Respond(r, Failure(r))
    /\ UNCHANGED <<row, writerVars, audits, applied, event, sink, claim>>

SetLastAlert(w) ==
    Begin(w) \/ Repoint(w) \/ SeeNoRow(w) \/ Insert(w) \/ InsertCollides(w) \/ DatabaseFault(w)

Serve(r) ==
    \/ enrich_alert(r) \/ enrich_alert_note(r) \/ assign_alert(r) \/ delete_alert(r)
    \/ unenrich_alert(r) \/ batch_enrich_alerts(r)
    \/ RejectUnknown(r) \/ Store(r) \/ StoreFails(r) \/ Publish(r) \/ PublishRaises(r)

Next == (\E w \in Writers : SetLastAlert(w)) \/ (\E r \in Requests : Serve(r))

Spec == Init /\ [][Next]_vars

(***************************************************************************)
(* Properties.                                                             *)
(***************************************************************************)

\* The types of the row, the occurrences and the requests.
TypeOK ==
    /\ \A f \in Fps :
          row[f] # NoRow =>
            row[f] \in LastAlerts /\ row[f].ts \in 1..MaxTs /\ row[f].first \in 0..MaxTs
    /\ wpc \in [Writers -> {"idle", "read", "insert", "done", "raised"}]
    /\ attempt \in [Writers -> 1..MaxAttempts]
    /\ faults \in [Writers -> 0..MaxFaults]
    /\ rpc \in [Requests -> {"idle", "store", "publish", "done"}]
    /\ sink \in [Requests -> {"no", "main", "dlq"}]
    /\ answer \in [Requests -> {"none", "ok", "failed", "400", "422", "500"}]
    /\ \A a \in audits : a[1] \in Requests /\ a[2] \in Fps

\* Whatever the order and the retries in which occurrences are set, the row
\* points at one that was set and that none of the others is newer than; its
\* first timestamp is never after its last.
NewestOccurrenceWins ==
    /\ \A w \in Writers :
          wpc[w] = "done" => row[occ[w].fp] # NoRow /\ row[occ[w].fp].ts >= occ[w].ts
    /\ \A f \in Fps : row[f] # NoRow =>
          /\ wpc[row[f].alert] = "done"
          /\ row[f].ts = occ[row[f].alert].ts
          /\ row[f].first <= row[f].ts

\* Two first occurrences racing to create the row both succeed: an occurrence
\* is given up only because the database itself failed.
CreationRaceSettles == \A w \in Writers : wpc[w] = "raised" => faults[w] > 0

\* The user's choice was ended by an occurrence: by a resolved one, or by any
\* if the choice was to be disposed of on a new alert.
Ended(f) == "resolved" \in claim[f].since \/ (~claim[f].keep /\ claim[f].since # {})

\* A status or dismissal the user asked for by name and chose to keep is shown
\* unchanged until a resolved occurrence, and one to be disposed of until the
\* next occurrence.
UserChoiceStands ==
    \A f \in Fps : row[f] # NoRow /\ claim[f].explicit /\ ~Ended(f)
                     => Shown(row[f]) = claim[f].shown

\* Once it ended, nothing of it is left: the row shows the newest occurrence's
\* own status and is not dismissed, however many occurrences follow.
EndedChoiceLeavesNothing ==
    \A f \in Fps : row[f] # NoRow /\ claim[f].explicit /\ Ended(f)
        => Shown(row[f]) = [status |-> occ[row[f].alert].status, mode |-> Null, until |-> Null]

Audited(r, f) == \E a \in audits : a[1] = r /\ a[2] = f

\* The consumer of the event gets the columns the database layer wrote (unless the
\* payload mixed the typed dismiss mode with an empty dismiss_until, which the
\* second normalisation of the database layer completes further), after
\* every fingerprint of the request was written and audited here, since the
\* event tells the consumer not to audit.
EventRepeatsTheStore ==
    \A r \in Requests : sink[r] # "no" =>
        /\ event[r].enrichments = applied[r] \/ event[r].mixed
        /\ \A i \in DOMAIN event[r].to : Audited(r, event[r].to[i])

\* A change that was stored but not published is not reported as done, and a
\* request rejected for its keys has changed nothing.
UnpublishedIsReported ==
    \A r \in Requests : rpc[r] = "done" =>
        /\ sink[r] = "no" /\ (\E f \in Fps : Audited(r, f)) => answer[r] \in {"failed", "500"}
        /\ answer[r] = "422" => ~\E f \in Fps : Audited(r, f)

\* The row after any number of concurrent occurrences.
OccurrencesSettle == NewestOccurrenceWins /\ CreationRaceSettles

\* A user's choice from the request to its end.
ChoiceLasts == UserChoiceStands /\ EndedChoiceLeavesNothing

\* The store, the event and the answer of a request agree.
RequestIsWhole == EventRepeatsTheStore /\ UnpublishedIsReported

=============================================================================
