------------------------------ MODULE Incidents ------------------------------
(***************************************************************************)
(* Incidents and the alerts linked to them: adding, removing, splitting    *)
(* and merging (src/repositories/db.py, called by                          *)
(* src/services/incidents_bl.py and src/routes/incidents.py), what the     *)
(* other requests change of the columns these use, and the resolution that *)
(* follows from the resolution of alerts (src/services/enrichments_bl.py). *)
(*                                                                         *)
(* Adding and removing are each a committed change of the links, then a    *)
(* reading of the incident and its alerts, then an UPDATE of the           *)
(* incident's aggregates; clients of several processes interleave between  *)
(* them.  One SQL statement is one step.  "services" stands for both       *)
(* affected_services and sources, which the code treats alike; an alert's  *)
(* service and severity do not change.                                     *)
(***************************************************************************)
EXTENDS IncidentRequests, Integers, Sequences, FiniteSets, SequencesExt

CONSTANTS Alert,      \* fingerprints
          Service,    \* the service of each alert
          Severity,   \* the severity of each alert, 1 being LOW
          MaxBatch,   \* bound: alerts named by one request
          MaxSources  \* bound: incidents merged by one request

Severities == 1..5   \* LOW to CRITICAL

ASSUME IncidentsAssumption ==
    /\ IsFiniteSet(Incident) /\ NoIncident \notin Incident
    /\ IsFiniteSet(Alert) /\ DOMAIN Service = Alert
    /\ Severity \in [Alert -> Severities]
    /\ MaxBatch \in Nat /\ MaxSources \in Nat /\ MaxRequests \in Nat

VARIABLES
    linked,       \* LastAlertToIncident rows with no deleted_at, per incident
    count,        \* alerts_count
    services,     \* affected_services, and likewise sources
    severity,     \* severity
    forced,       \* forced_severity
    status,       \* status
    merged,       \* merged_into_incident_id
    alertStatus,  \* an alert's effective status
    pc,           \* where each client is
    jobs,         \* the adds and removes its request has still to do
    tries,        \* attempts at the first of them
    new,          \* the alerts whose links that attempt changed
    values,       \* the values it computed for the UPDATE
    check,        \* the incidents whose resolution it has still to check
    dirty,        \* <<source, destination>>: what its merge has set and not committed
    ops,          \* requests each client made
    faulty,       \* a statement has failed
    seen,         \* history: alerts that were ever linked
    dropped,      \* history: alerts a user's request only removed
    reported,     \* history: alerts of a merge that was reported as failed
    contended,    \* history: alerts removed while another request was to remove them
    forcedTo,     \* history: the severity last forced, 0 for none
    overtaken,    \* history: incidents forced while a request had values for their UPDATE
    raced,        \* history: incidents whose alerts two requests changed at once
    misjudged     \* history: incidents that kept some of several services removed at once

incidentVars == <<linked, count, services, severity, forced, status, merged>>
clientVars == <<pc, jobs, tries, new, values, check, dirty, ops>>
linkHistory == <<seen, dropped, reported, contended, raced>>
forcedHistory == <<forcedTo, overtaken>>
historyVars == <<linkHistory, misjudged, forcedHistory>>
vars == <<incidentVars, alertStatus, clientVars, faulty, historyVars>>

Low == 1
NoValues == [services |-> {}, severity |-> Low]
Worst(S) == Max({Severity[f] : f \in S})
ServicesOf(S) == {Service[f] : f \in S}

\* The incidents hold the alerts that the event handler and earlier requests
\* linked, and nobody is changing them.
Init ==
    /\ status = [i \in Incident |-> "firing"]
    /\ linked \in [Incident -> SUBSET Alert]
    /\ count = [i \in Incident |-> Cardinality(linked[i])]
    /\ services = [i \in Incident |-> ServicesOf(linked[i])]
    /\ severity = [i \in Incident |-> IF linked[i] = {} THEN Low ELSE Worst(linked[i])]
    /\ forced = [i \in Incident |-> FALSE]
    /\ merged = [i \in Incident |-> NoIncident]
    /\ alertStatus = [f \in Alert |-> "firing"]
    /\ pc = [c \in Client |-> "idle"]
    /\ jobs = [c \in Client |-> << >>]
    /\ tries = [c \in Client |-> 1]
    /\ new = [c \in Client |-> {}]
    /\ values = [c \in Client |-> NoValues]
    /\ check = [c \in Client |-> {}]
    /\ dirty = [c \in Client |-> {}]
    /\ ops = [c \in Client |-> 0]
    /\ faulty = FALSE
    /\ seen = UNION {linked[i] : i \in Incident}
    /\ dropped = {} /\ reported = {} /\ contended = {} /\ raced = {}
    /\ misjudged = {} /\ overtaken = {}
    /\ forcedTo = [i \in Incident |-> 0]

(***************************************************************************)
(* Requests.                                                               *)
(***************************************************************************)

Batch == {S \in SUBSET Alert : S # {} /\ Cardinality(S) <= MaxBatch}

\* A job of a request: "of" is the incident being merged, if any; "drop" is
\* there for the history and says that the alerts go nowhere else.
AddJob(i, S, of) == [do |-> "add", to |-> i, alerts |-> S, of |-> of, drop |-> FALSE]
RemoveJob(i, S, of, drop) ==
    [do |-> "remove", to |-> i, alerts |-> S, of |-> of, drop |-> drop]

\* Bounds: a statement fails while no other request is in progress, and no
\* request starts after a failure.
Alone(c) == \A d \in Client \ {c} : pc[d] = "idle"
MayStart(c) == pc[c] = "idle" /\ ops[c] < MaxRequests /\ ~faulty

Start(c, js) ==
    /\ MayStart(c)
    /\ ops' = [ops EXCEPT ![c] = @ + 1]
    /\ jobs' = [jobs EXCEPT ![c] = js]
    /\ tries' = [tries EXCEPT ![c] = 1]
    /\ pc' = [pc EXCEPT ![c] = "link"]
    /\ UNCHANGED <<incidentVars, alertStatus, new, values, check, dirty, faulty, historyVars>>

add_alerts_to_incident(c) ==
    \E i \in Incident, S \in Batch : Start(c, <<AddJob(i, S, NoIncident)>>)

delete_alerts_from_incident(c) ==
    \E i \in Incident, S \in Batch :
        Start(c, <<RemoveJob(i, S, NoIncident, TRUE)>>)

\* Mutated form of split_incident: the alerts are removed first.
MutSplitRemovesFirst(c) ==
    \E i, d \in Incident, S \in Batch :
        /\ Start(c, <<RemoveJob(i, S, NoIncident, i = d), AddJob(d, S, NoIncident)>>)

\* The alerts are added to the other incident first.  With the incident itself
\* as the other one, that adds nothing and the alerts are only removed.
split_incident(c) ==
    \E i, d \in Incident, S \in Batch :
        /\ Start(c, <<AddJob(d, S, NoIncident), RemoveJob(i, S, NoIncident, i = d)>>)

\* merge_incidents_to_id reads the sources' alerts once, then moves them
\* source by source.
merge_incidents(c) ==
    \E d \in Incident, sources \in SUBSET Incident : \E order \in SetToSeqs(sources) :
        /\ sources # {} /\ Cardinality(sources) <= MaxSources
        /\ Start(c, [k \in 1..2 * Len(order) |->
                       LET s == order[(k + 1) \div 2] IN
                       IF k % 2 = 1 THEN RemoveJob(s, linked[s], s, FALSE)
                                    ELSE AddJob(d, linked[s], s)])

(***************************************************************************)
(* The end of a job, and of the request.                                   *)
(***************************************************************************)

Merging(c) == Head(jobs[c]).of # NoIncident

\* On to the jobs js, with d set by the merge and not committed.  The source of
\* a merge is marked in the session before its alerts are added.
NextJob(c, js, d) ==
    /\ jobs' = [jobs EXCEPT ![c] = js]
    /\ tries' = [tries EXCEPT ![c] = 1]
    /\ new' = [new EXCEPT ![c] = {}]
    /\ values' = [values EXCEPT ![c] = NoValues]
    /\ dirty' = [dirty EXCEPT ![c] =
                    IF js # << >> /\ Head(js).do = "add" /\ Head(js).of # NoIncident
                    THEN d \cup {<<Head(js).of, Head(js).to>>} ELSE d]
    /\ pc' = [pc EXCEPT ![c] = IF js # << >> THEN "link"
                               ELSE IF Merging(c) THEN "finish" ELSE "idle"]

\* A commit of the merge's session writes what it has set on its sources.
CommitMarks(c) ==
    LET marked == {p[1] : p \in dirty[c]} IN
    /\ status' = [i \in Incident |-> IF i \in marked THEN "merged" ELSE status[i]]
    /\ merged' = [i \in Incident |-> IF i \in marked
                                     THEN (CHOOSE p \in dirty[c] : p[1] = i)[2]
                                     ELSE merged[i]]
    /\ dirty' = [dirty EXCEPT ![c] = {}]

FinishMerge(c) ==
    /\ pc[c] = "finish"
    /\ CommitMarks(c)
    /\ pc' = [pc EXCEPT ![c] = "idle"]
    /\ UNCHANGED <<linked, count, services, severity, forced, alertStatus, jobs, tries, new,
                   values, check, ops, faulty, historyVars>>

\* That last commit fails: the request raises, and the marks are lost.
FinishRaises(c) ==
    /\ pc[c] = "finish" /\ Alone(c)
    /\ faulty' = TRUE
    /\ dirty' = [dirty EXCEPT ![c] = {}]
    /\ pc' = [pc EXCEPT ![c] = "idle"]
    /\ UNCHANGED <<incidentVars, alertStatus, jobs, tries, new, values, check, ops,
                   historyVars>>

(***************************************************************************)
(* add_alerts_to_incident                                                  *)
(***************************************************************************)

\* History: another request is between its change of the links of i and its UPDATE.
Race(c, i) ==
    raced' = IF \E d \in Client \ {c} : pc[d] \in {"read", "update"} /\ Head(jobs[d]).to = i
             THEN raced \cup {i} ELSE raced

\* The alerts that the incident does not hold are chosen; with none, the call ends.
AddSelect(c) ==
    LET j == Head(jobs[c])
        S == j.alerts \ linked[j.to]
    IN  /\ pc[c] = "link" /\ j.do = "add"
        /\ IF S = {}
           THEN NextJob(c, Tail(jobs[c]), dirty[c])
           ELSE /\ new' = [new EXCEPT ![c] = S]
                /\ pc' = [pc EXCEPT ![c] = "insert"]
                /\ UNCHANGED <<jobs, tries, values, dirty>>
        /\ UNCHANGED <<incidentVars, alertStatus, check, ops, faulty, historyVars>>

\* Their links are committed, with whatever the merge has set so far.
AddLink(c) ==
    LET i == Head(jobs[c]).to IN
    /\ pc[c] = "insert" /\ new[c] \cap linked[i] = {}
    /\ linked' = [linked EXCEPT ![i] = @ \cup new[c]]
    /\ CommitMarks(c)
    /\ pc' = [pc EXCEPT ![c] = "read"]
    /\ seen' = seen \cup new[c]
    /\ dropped' = dropped \ new[c] /\ reported' = reported \ new[c]
    /\ Race(c, i)
    /\ UNCHANGED <<count, services, severity, forced, alertStatus, jobs, tries, new, values,
                   check, ops, faulty, contended, misjudged, forcedHistory>>

\* Another request has linked one of them meanwhile: the IntegrityError rolls the
\* session back, a merge's marks with it, and the call is retried; after the third
\* time nobody catches it and the request ends.
AddCollides(c) ==
    /\ pc[c] = "insert" /\ new[c] \cap linked[Head(jobs[c]).to] # {}
    /\ dirty' = [dirty EXCEPT ![c] = {}]
    /\ new' = [new EXCEPT ![c] = {}]
    /\ IF tries[c] < 3
       THEN /\ tries' = [tries EXCEPT ![c] = @ + 1]
            /\ pc' = [pc EXCEPT ![c] = "link"]
            /\ UNCHANGED <<jobs, reported>>
       ELSE /\ tries' = [tries EXCEPT ![c] = 1]
            /\ pc' = [pc EXCEPT ![c] = "idle"]
            /\ jobs' = [jobs EXCEPT ![c] = << >>]
            /\ reported' = IF Merging(c) THEN reported \cup Head(jobs[c]).alerts ELSE reported
    /\ UNCHANGED <<incidentVars, alertStatus, values, check, ops, faulty, seen, dropped, contended,
                   raced, misjudged, forcedHistory>>

\* Mutated form of AddRead: the new alerts' services replace the others.
MutAddReplacesServices(c) ==
    LET i == Head(jobs[c]).to IN
    /\ pc[c] = "read" /\ Head(jobs[c]).do = "add"
    /\ values' = [values EXCEPT ![c] =
         [services |-> ServicesOf(new[c]),
          severity |-> IF forced[i] THEN severity[i]
                       ELSE IF count[i] # 0 THEN Max({severity[i], Worst(new[c])})
                       ELSE Worst(new[c])]]
    /\ pc' = [pc EXCEPT ![c] = "update"]
    /\ UNCHANGED <<incidentVars, alertStatus, jobs, tries, new, check, dirty, ops, faulty,
                   historyVars>>

AddRead(c) ==
    LET i == Head(jobs[c]).to IN
    /\ pc[c] = "read" /\ Head(jobs[c]).do = "add"
    /\ values' = [values EXCEPT ![c] =
         [services |-> services[i] \cup ServicesOf(new[c]),
          severity |-> IF forced[i] THEN severity[i]
                       ELSE IF count[i] # 0 THEN Max({severity[i], Worst(new[c])})
                       ELSE Worst(new[c])]]
    /\ pc' = [pc EXCEPT ![c] = "update"]
    /\ UNCHANGED <<incidentVars, alertStatus, jobs, tries, new, check, dirty, ops, faulty,
                   historyVars>>

\* The UPDATE of either call: the count is a subquery of the statement.
Update(c) ==
    LET i == Head(jobs[c]).to IN
    /\ pc[c] = "update"
    /\ count' = [count EXCEPT ![i] = Cardinality(linked[i])]
    /\ services' = [services EXCEPT ![i] = values[c].services]
    /\ severity' = [severity EXCEPT ![i] = values[c].severity]
    /\ NextJob(c, Tail(jobs[c]), dirty[c])
    /\ UNCHANGED <<linked, forced, status, merged, alertStatus, check, ops, faulty,
                   historyVars>>

(***************************************************************************)
(* remove_alerts_to_incident_by_incident_id                                *)
(***************************************************************************)

RemoveLink(c) ==
    LET j == Head(jobs[c]) IN
    /\ pc[c] = "link" /\ j.do = "remove"
    /\ linked' = [linked EXCEPT ![j.to] = @ \ j.alerts]
    /\ pc' = [pc EXCEPT ![c] = "read"]
    /\ dropped' = IF j.drop THEN dropped \cup j.alerts ELSE dropped
    /\ Race(c, j.to)
    /\ contended' = contended \cup {f \in j.alerts : \E d \in Client \ {c} :
                        \E k \in DOMAIN jobs[d] : jobs[d][k].do = "remove" /\ f \in jobs[d][k].alerts}
    /\ UNCHANGED <<count, services, severity, forced, status, merged, alertStatus, jobs, tries,
                   new, values, check, dirty, ops, faulty, seen, reported, misjudged, forcedHistory>>

\* The elements of the sequence "wanted" that are not found in the one-shot
\* iterator "rows": each membership test goes on where the last one stopped, so
\* that the first n are found when they stand in rows in their order.
Found(n, wanted, rows) ==
    \E at \in [1..n -> DOMAIN rows] :
        /\ \A k \in 1..n : rows[at[k]] = wanted[k]
        /\ \A k, l \in 1..n : k < l => at[k] < at[l]
NotFound(wanted, rows) == {wanted[n] : n \in {k \in DOMAIN wanted : ~Found(k, wanted, rows)}}

\* The services of the removed alerts, a set, are tested one by one against
\* the query's result, whose order is the database's.
RemoveRead(c) ==
    LET i == Head(jobs[c]).to
        gone == ServicesOf(Head(jobs[c]).alerts)
        existed == gone \cap ServicesOf(linked[i])
    IN  /\ pc[c] = "read" /\ Head(jobs[c]).do = "remove"
        /\ \E wanted \in SetToSeqs(gone), rows \in SetToSeqs(existed) :
              values' = [values EXCEPT ![c] =
                [services |-> services[i] \ NotFound(wanted, rows),
                 severity |-> IF forced[i] THEN severity[i]
                              ELSE IF linked[i] # {} THEN Worst(linked[i]) ELSE Low]]
        /\ pc' = [pc EXCEPT ![c] = "update"]
        /\ misjudged' = IF Cardinality(gone) > 1 /\ existed # {} THEN misjudged \cup {i} ELSE misjudged
        /\ UNCHANGED <<incidentVars, alertStatus, jobs, tries, new, check, dirty, ops, faulty,
                       linkHistory, forcedHistory>>

(***************************************************************************)
(* A statement of a job fails with OperationalError.  What was committed   *)
(* stays; what a merge has set may be rolled back with the statement.      *)
(***************************************************************************)

Fault(c, do) ==
    /\ Alone(c)
    /\ pc[c] \in {"link", "insert", "read", "update"} /\ Head(jobs[c]).do = do
    /\ faulty' = TRUE

Retried(c) ==
    /\ tries' = [tries EXCEPT ![c] = @ + 1]
    /\ pc' = [pc EXCEPT ![c] = "link"]
    /\ new' = [new EXCEPT ![c] = {}]
    /\ values' = [values EXCEPT ![c] = NoValues]
    /\ dirty' \in {dirty, [dirty EXCEPT ![c] = {}]}
    /\ UNCHANGED <<incidentVars, alertStatus, jobs, check, ops, historyVars>>

\* Mutated form of AddRetried: retried without a limit.
MutAddRetriedForever(c) == Fault(c, "add") /\ Retried(c)

\* retry_on_db_error calls add_alerts_to_incident again, three times in all.
AddRetried(c) == Fault(c, "add") /\ tries[c] < 3 /\ Retried(c)

\* Then it raises: a merge reports the source as failed and goes on, any
\* other request ends.
AddRaises(c) ==
    /\ Fault(c, "add") /\ tries[c] = 3
    /\ \E d \in {dirty[c], {}} :
          NextJob(c, IF Merging(c) THEN Tail(jobs[c]) ELSE << >>, d)
    /\ reported' = IF Merging(c) THEN reported \cup Head(jobs[c]).alerts ELSE reported
    /\ UNCHANGED <<incidentVars, alertStatus, check, ops, seen, dropped, contended, raced,
                   misjudged, forcedHistory>>

\* The second call finds the session's transaction unusable (as after a lost
\* connection) and raises what nobody catches: the request ends with an error.
AddAborts(c) ==
    /\ Fault(c, "add")
    /\ jobs' = [jobs EXCEPT ![c] = << >>]
    /\ tries' = [tries EXCEPT ![c] = 1]
    /\ new' = [new EXCEPT ![c] = {}]
    /\ values' = [values EXCEPT ![c] = NoValues]
    /\ dirty' = [dirty EXCEPT ![c] = {}]
    /\ pc' = [pc EXCEPT ![c] = "idle"]
    /\ reported' = IF Merging(c) THEN reported \cup Head(jobs[c]).alerts ELSE reported
    /\ UNCHANGED <<incidentVars, alertStatus, check, ops, seen, dropped, contended, raced,
                   misjudged, forcedHistory>>

\* remove_alerts_to_incident_by_incident_id is not retried; a merge logs the
\* error and goes on to add the alerts.
RemoveRaises(c) ==
    /\ Fault(c, "remove")
    /\ NextJob(c, IF Merging(c) THEN Tail(jobs[c]) ELSE << >>, dirty[c])
    /\ UNCHANGED <<incidentVars, alertStatus, check, ops, historyVars>>

(***************************************************************************)
(* Single-commit requests.                                                 *)
(***************************************************************************)

Request(c) == MayStart(c) /\ ops' = [ops EXCEPT ![c] = @ + 1]
ClientIdle == <<jobs, tries, new, values, check, dirty, faulty>>
JobIdle == <<ClientIdle, historyVars>>

change_status(c) ==
    /\ Request(c)
    /\ \E i \in Incident, s \in {"firing", "acknowledged", "resolved"} :
          status' = [status EXCEPT ![i] = s]
    /\ UNCHANGED <<linked, count, services, severity, forced, merged, alertStatus, pc, JobIdle>>

update_severity(c) ==
    /\ Request(c)
    /\ \E i \in Incident, s \in {Severity[f] : f \in Alert} :
          /\ severity' = [severity EXCEPT ![i] = s]
          /\ forced' = [forced EXCEPT ![i] = TRUE]
          /\ forcedTo' = [forcedTo EXCEPT ![i] = s]
          /\ overtaken' = IF \E d \in Client : pc[d] = "update" /\ Head(jobs[d]).to = i
                          THEN overtaken \cup {i} ELSE overtaken \ {i}
    /\ UNCHANGED <<linked, count, services, status, merged, alertStatus, pc, ClientIdle,
                   linkHistory, misjudged>>

\* The links of a deleted incident stay.
delete_incident_by_id(c) ==
    /\ Request(c)
    /\ \E i \in Incident : status' = [status EXCEPT ![i] = "deleted"]
    /\ UNCHANGED <<linked, count, services, severity, forced, merged, alertStatus, pc, JobIdle>>

(***************************************************************************)
(* The resolution of an alert, and check_incident_resolution after it.     *)
(***************************************************************************)

\* A user resolves an alert (LastAlert!enrich_alert): its incidents are read.
ResolveAlert(c) ==
    /\ Request(c)
    /\ \E f \in Alert :
          /\ alertStatus' = [alertStatus EXCEPT ![f] = "resolved"]
          /\ check' = [check EXCEPT ![c] = {i \in Incident : f \in linked[i]}]
          /\ pc' = [pc EXCEPT ![c] = IF \E i \in Incident : f \in linked[i]
                                     THEN "check" ELSE "idle"]
    /\ UNCHANGED <<incidentVars, jobs, tries, new, values, dirty, faulty, historyVars>>

is_all_alerts_resolved(i) ==
    count[i] # 0 /\ \A f \in linked[i] : alertStatus[f] = "resolved"

check_incident_resolution(c) ==
    /\ pc[c] = "check"
    /\ \E i \in check[c] :
          /\ status' = IF is_all_alerts_resolved(i)
                       THEN [status EXCEPT ![i] = "resolved"] ELSE status
          /\ check' = [check EXCEPT ![c] = @ \ {i}]
          /\ pc' = [pc EXCEPT ![c] = IF check[c] = {i} THEN "idle" ELSE "check"]
    /\ UNCHANGED <<linked, count, services, severity, forced, merged, alertStatus, jobs, tries,
                   new, values, dirty, ops, faulty, historyVars>>

\* A new occurrence of a resolved alert.
Refire ==
    /\ \E f \in Alert :
          /\ alertStatus[f] = "resolved"
          /\ alertStatus' = [alertStatus EXCEPT ![f] = "firing"]
    /\ UNCHANGED <<incidentVars, clientVars, faulty, historyVars>>

Job(c) == AddSelect(c) \/ AddLink(c) \/ AddCollides(c) \/ AddRead(c) \/ RemoveLink(c) \/ RemoveRead(c) \/ Update(c)

Next ==
    \/ \E c \in Client :
          \/ add_alerts_to_incident(c) \/ delete_alerts_from_incident(c)
          \/ split_incident(c) \/ merge_incidents(c)
          \/ Job(c) \/ FinishMerge(c) \/ FinishRaises(c)
          \/ AddRetried(c) \/ AddRaises(c) \/ AddAborts(c) \/ RemoveRaises(c)
          \/ change_status(c) \/ update_severity(c) \/ delete_incident_by_id(c)
          \/ ResolveAlert(c) \/ check_incident_resolution(c)
    \/ Refire

Spec == Init /\ [][Next]_vars

(***************************************************************************)
(* Properties.                                                             *)
(***************************************************************************)

\* The types of the incidents' columns and of the clients' state.
TypeOK ==
    /\ linked \in [Incident -> SUBSET Alert]
    /\ count \in [Incident -> 0..Cardinality(Alert)]
    /\ services \in [Incident -> SUBSET ServicesOf(Alert)]
    /\ severity \in [Incident -> Severities]
    /\ forced \in [Incident -> BOOLEAN]
    /\ status \in [Incident -> {"firing", "acknowledged", "resolved", "merged", "deleted"}]
    /\ merged \in [Incident -> Incident \cup {NoIncident}]
    /\ forcedTo \in [Incident -> {0} \cup Severities] /\ overtaken \subseteq Incident
    /\ pc \in [Client -> {"idle", "link", "insert", "read", "update", "check", "finish"}]
    /\ tries \in [Client -> 1..3]
    /\ \A c \in Client : dirty[c] \subseteq Incident \X Incident

\* A client is changing the incident's links or aggregates.
Busy(i) == \E c \in Client : pc[c] \in {"link", "insert", "read", "update"} /\ Head(jobs[c]).to = i

\* Whatever the interleaving of adds, removes, splits and merges, an incident
\* that nobody is changing counts exactly the alerts linked to it.
CountMatchesLinks ==
    \A i \in Incident : ~Busy(i) /\ ~faulty => count[i] = Cardinality(linked[i])

\* An alert that moves between incidents is never lost on the way: one that no
\* incident holds was removed by a user (or by a split into the incident it was
\* in), is about to be added, belongs to a merge that was reported as failed,
\* whichever statement failed, or two requests were moving it at once: each finds
\* it in the other's destination and removes it from its own source.
MovedIsNeverLost ==
    \A f \in seen :
        \/ \E i \in Incident : f \in linked[i]
        \/ f \in dropped \cup reported \cup contended
        \/ \E c \in Client : \E k \in DOMAIN jobs[c] :
              jobs[c][k].do = "add" /\ f \in jobs[c][k].alerts

\* Unless two requests changed an incident's alerts at once or a statement
\* failed, the severity of an incident with alerts that no user forced is that of
\* the worst of them: the alert that set it may go, and the severity the incident
\* was created with does not count.
SeverityIsWorst ==
    \A i \in Incident \ raced : ~Busy(i) /\ ~faulty /\ ~forced[i] /\ linked[i] # {} =>
        severity[i] = Worst(linked[i])

\* A severity a user forced stays the one last forced, whatever is added, removed
\* or fails afterwards, even while two requests change the alerts at once; except
\* where it was forced between a request's reading of the incident and its UPDATE,
\* which writes the severity read before.
ForcedStands ==
    \A i \in Incident \ overtaken : forced[i] => severity[i] = forcedTo[i]

\* Likewise an incident's services are exactly those of its alerts, as long as no
\* removal took alerts of several services and left alerts of some of them.
ServicesAreOfAlerts ==
    \A i \in Incident \ (raced \cup misjudged) : ~Busy(i) /\ ~faulty => services[i] = ServicesOf(linked[i])

\* What an incident stores about its alerts follows its links.
AggregatesFollowLinks ==
    CountMatchesLinks /\ SeverityIsWorst /\ ForcedStands /\ ServicesAreOfAlerts

=============================================================================
