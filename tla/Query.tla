------------------------------- MODULE Query -------------------------------
(***************************************************************************)
(* Searching alerts and incidents with a CEL filter: the count, the pages, *)
(* the options of the facets (src/repositories/alerts.py, incidents.py,    *)
(* facets.py, facets_query_builder) and the preflight of a filter          *)
(* (routes/cel.py), while other requests change the tables.                *)
(*                                                                         *)
(* A client asks for the count and then for the pages one after the other, *)
(* each in a session of its own.  A field of the joined table is written   *)
(* incident.name ("dot"), incident['name'] ("index") or                    *)
(* alert.incident.name ("prefix"): the queries look at the text for some   *)
(* decisions and at the mapped fields for others.                          *)
(***************************************************************************)
EXTENDS CelToSql, SequencesExt

CONSTANTS
    Alert,      \* fingerprints
    Incident,   \* names of incidents
    HardLimit,  \* KEEP_ALERTS_HARD_LIMIT
    PageSize,   \* QueryDto.limit of the client
    Searches,   \* filters the clients search with
    Drafts,     \* filters the editor checks
    MaxWrites   \* bound: changes of the tables

ASSUME QueryBounds == {HardLimit, PageSize} \subseteq Nat \ {0}

VARIABLES
    rows,      \* rows[a]: the last alert joined with its occurrence
    links,     \* lastalerttoincident, the removed links included
    firing,    \* incidents whose status is firing
    facet,     \* the tenant's own facet, or NoFacet: of alerts, or "alert.severity" of incidents
    request,   \* the client's search
    draft,     \* the editor's check
    writes     \* changes so far

vars == <<rows, links, firing, facet, request, draft, writes>>

NoRow == [time |-> 0]
NoFacet == "no facet"
NoDraft == [cel |-> Empty, alerts |-> TRUE, events |-> TRUE]

Notations == {"dot", "index", "prefix"}

(* "at" is where the client stands; "steady" that the tables have not      *)
(* changed since its first query.                                          *)
Idle == [at |-> "idle", kind |-> "alerts", cel |-> Empty, own |-> Empty,
         note |-> "dot", total |-> 0, seen |-> << >>, pages |-> 0,
         steady |-> TRUE, options |-> {}]

--------------------------------------------------------------------------------
(* The tables as the queries see them *)

Present == {a \in Alert : rows[a] # NoRow}

(* get_threeshold_query: the time of the HardLimit-th newest alert *)
Recent ==
    {a \in Present : Cardinality({b \in Present : rows[b].time > rows[a].time}) < HardLimit}

Links(a) == {i \in Incident : <<a, i>> \in links}

(* The outer joins: one row for each link of an alert, a single row for an *)
(* alert without any; the incident is there only when one of the alert's   *)
(* incidents is firing.                                                    *)
JoinIncidents(a) ==
    IF Links(a) = {} THEN {<<a, Null>>} ELSE {<<a, i>> : i \in Links(a)}

Row(p) ==
    rows[p[1]] @@
    [incident |-> IF Links(p[1]) \intersect firing = {} THEN Null ELSE p[2]]

(* __build_query_for_filtering: the rows that pass the filter *)
Found(cel, joined) ==
    {p \in UNION {IF joined THEN JoinIncidents(a) ELSE {<<a, Null>>} : a \in Recent} :
        Selected(cel, Row(p))}

Involved(cel) == IF Filter(cel) = None THEN {} ELSE Fields(cel)

(* field_name.startswith("incident."): not for alert.incident.name *)
FetchesIncidents(cel, note) == "incident" \in Involved(cel) /\ note # "prefix"

(* The filter names the table but the query does not join it *)
NotJoined(cel, note) ==
    /\ "incident" \in Fields(Filter(cel))
    /\ ~ FetchesIncidents(cel, note)

(* "incident." in cel *)
Textual(cel, note) == "incident" \in Fields(cel) /\ note # "index"

Distinct(found) == {p[1] : p \in found}

MutCountsRows(cel, note) ==
    Cardinality(Found(cel, FetchesIncidents(cel, note)))

(* count(distinct alert_id) when the text mentions an incident, count(1) otherwise *)
build_total_alerts_query(cel, note) ==
    LET found == Found(cel, FetchesIncidents(cel, note))
    IN  Cardinality(IF Textual(cel, note) THEN Distinct(found) ELSE found)

(* order by timestamp desc: alerts of one instant come in any order *)
Orders(S) ==
    {s \in SetToSeqs(S) :
        \A i, j \in DOMAIN s : i < j => rows[s[i]].time >= rows[s[j]].time}

(* The limit of a page, cut so that no page reaches past the hard limit *)
PageLimit(offset) ==
    IF offset + PageSize > HardLimit THEN HardLimit - offset ELSE PageSize

--------------------------------------------------------------------------------
(* Searching alerts *)

Tables == <<rows, links, firing, facet>>

query_alerts_count(cel, note) ==
    /\ request.at = "idle" /\ draft = NoDraft
    /\ request' = [Idle EXCEPT
           !.cel = cel, !.note = note,
           !.at = CASE convert_to_sql_str_v2(cel) # "ok" -> "refused"
                    [] NotJoined(cel, note) -> "failed"
                    [] OTHER -> "counted",
           !.total = IF convert_to_sql_str_v2(cel) = "ok" /\ ~ NotJoined(cel, note)
                     THEN build_total_alerts_query(cel, note) ELSE 0]
    /\ UNCHANGED <<Tables, draft, writes>>

(* One page; a client stops at the first that is shorter than it asked for *)
query_alerts ==
    /\ request.at = "counted"
    /\ LET offset == request.pages * PageSize
           found == Distinct(Found(request.cel, FetchesIncidents(request.cel, request.note)))
       IN  \E s \in Orders(found) :
              LET last == offset + PageLimit(offset)
                  page == SubSeq(s, offset + 1, IF last < Len(s) THEN last ELSE Len(s))
              IN  request' = [request EXCEPT
                      !.seen = @ \o page, !.pages = @ + 1,
                      !.at = IF Len(page) < PageSize THEN "done" ELSE "counted"]
    /\ UNCHANGED <<Tables, draft, writes>>

Finish ==
    /\ request.at \notin {"idle", "listing"}
    /\ request' = Idle
    /\ UNCHANGED <<Tables, draft, writes>>

--------------------------------------------------------------------------------
(* Listing incidents: the count and the page are two statements of one     *)
(* session.  Here "severity" is the severity of a linked alert.            *)

FetchesAlerts(cel) == "severity" \in Involved(cel)

(* Outer joins to the links and their alerts *)
JoinAlerts(i) ==
    LET of == {a \in Alert : <<a, i>> \in links}
    IN  IF of = {} THEN {<<i, Null>>} ELSE {<<i, a>> : a \in of}

AlertOf(p) ==
    IF p[2] \in Alert /\ rows[p[2]] # NoRow THEN rows[p[2]] @@ [incident |-> p[1]]
    ELSE [severity |-> Null, status |-> Null, chosen |-> Null, assignee |-> Null,
          incident |-> p[1], time |-> 0]

FoundIncidents(cel, joined) ==
    {p \in UNION {IF joined THEN JoinAlerts(i) ELSE {<<i, Null>>} : i \in Incident} :
        Selected(cel, AlertOf(p))}

(* count(distinct id) when the text has "alert.", count(1) otherwise *)
last_incidents_total_count(cel, note) ==
    LET found == FoundIncidents(cel, FetchesAlerts(cel))
    IN  Cardinality(IF "severity" \in Fields(cel) /\ note # "index" THEN Distinct(found) ELSE found)

(* Distinct incidents when the alerts are joined; every order of them, for *)
(* the client may sort by any column.                                      *)
LastIncidents(cel) == SetToSeqs(Distinct(FoundIncidents(cel, FetchesAlerts(cel))))

(* An unknown field gives an empty list here, every other refusal a 400 *)
get_last_incidents_by_cel(cel, note) ==
    /\ request.at = "idle" /\ draft = NoDraft
    /\ Fields(cel) \subseteq {"severity", "nowhere"}
    /\ LET verdict == convert_to_sql_str_v2(cel)
       IN  request' = [Idle EXCEPT
               !.kind = "incidents", !.cel = cel, !.note = note,
               !.at = CASE verdict = "ok" -> "listing"
                        [] verdict = "UNKNOWN_FIELD" -> "done"
                        [] OTHER -> "refused",
               !.total = IF verdict # "ok" THEN 0 ELSE last_incidents_total_count(cel, note)]
    /\ UNCHANGED <<Tables, draft, writes>>

ListIncidents ==
    /\ request.at = "listing"
    /\ \E s \in LastIncidents(request.cel) :
          request' = [request EXCEPT !.seen = s, !.at = "done"]
    /\ UNCHANGED <<Tables, draft, writes>>

--------------------------------------------------------------------------------
(* Facets *)

MutFinalCel(cel, own) == IF own = Empty THEN cel ELSE own

(* " && ".join([cel, facet's cel]): the texts are joined without           *)
(* parentheses, and && binds more tightly than ||.                         *)
FinalCel(cel, own) ==
    CASE cel = Empty -> own
      [] own = Empty -> cel
      [] cel.node = "or" /\ own.node = "or" ->
           Or(Or(cel.left, And(cel.right, own.left)), own.right)
      [] cel.node = "or" -> Or(cel.left, And(cel.right, own))
      [] own.node = "or" -> Or(And(cel, own.left), own.right)
      [] OTHER -> And(cel, own)

(* The facets there are: a static one, and the tenant's own of that kind *)
get_facets(paths) == {facet} \intersect paths
get_alert_facets == {"severity"} \union get_facets({"incident", "nowhere"})

(* One option for each value: the number of distinct entities that have it. *)
(* value gives the value of each pair the query joined.                    *)
build_facet_subquery(path, value) ==
    {<<path, v, Cardinality(Distinct({p \in DOMAIN value : value[p] = v}))>> : v \in Range(value)}

(* Members of an enumeration without a match are listed with zero.         *)
FacetOptions(path, enum_values, value) ==
    LET options == build_facet_subquery(path, value)
    IN  options \union {<<path, v, 0>> : v \in enum_values \ {o[2] : o \in options}}

(* Incidents are joined when the filter or the facet names one; a path     *)
(* that is not mapped has no options.                                      *)
AlertFacet(path, cel) ==
    IF path \notin Mapped THEN {}
    ELSE FacetOptions(path, get_property_metadata(path).enum_values,
             [p \in Found(cel, "incident" \in Involved(cel) \union {path}) |-> Column(Row(p), path)])

(* The severity facet has a filter of its own. *)
fetch_alert_facet_options(cel, own) ==
    /\ request.at = "idle" /\ draft = NoDraft
    /\ LET final == FinalCel(cel, own)
           refused == convert_to_sql_str_v2(final) # "ok"
       IN  request' = [Idle EXCEPT
               !.cel = cel, !.own = own,
               !.at = IF refused THEN "refused" ELSE "options",
               !.options = IF refused THEN {}
                           ELSE UNION {AlertFacet(path, IF path = "severity" THEN final ELSE cel) :
                                       path \in get_alert_facets}]
    /\ UNCHANGED <<Tables, draft, writes>>

(* Of incidents: the static facet on their status, whose own severity and   *)
(* assignee are columns like any other, and the tenant's own one.          *)
get_incident_facets == {"state"} \union get_facets({"alert.severity"})

(* Three of its members; no incident here is ever acknowledged. *)
IncidentStatus == {"firing", "resolved", "acknowledged"}
State(i) == IF i \in firing THEN "firing" ELSE "resolved"

(* Alerts are joined when the facet or the filter names one of their       *)
(* columns.                                                                *)
IncidentFacet(path, cel) ==
    LET found == FoundIncidents(cel, FetchesAlerts(cel) \/ path = "alert.severity")
    IN  IF path = "state" THEN FacetOptions(path, IncidentStatus, [p \in found |-> State(p[1])])
        ELSE FacetOptions(path, EnumValues, [p \in found |-> AlertOf(p).severity])

get_incident_facets_data(cel) == UNION {IncidentFacet(path, cel) : path \in get_incident_facets}

(* The converter's refusals are not caught here; each facet is asked with  *)
(* the same filter of its own.                                             *)
fetch_inicident_facet_options(cel, own) ==
    /\ request.at = "idle" /\ draft = NoDraft
    /\ Fields(cel) \union Fields(own) \subseteq {"severity", "nowhere"}
    /\ LET final == FinalCel(cel, own)
           refused == convert_to_sql_str_v2(final) # "ok"
       IN  request' = [Idle EXCEPT
               !.kind = "incidents", !.cel = cel, !.own = own,
               !.at = IF refused THEN "failed" ELSE "options",
               !.options = IF refused THEN {}
                           ELSE get_incident_facets_data(final)]
    /\ UNCHANGED <<Tables, draft, writes>>

(* A facet's path is not checked when it is created *)
add_facet(path) ==
    /\ facet = NoFacet /\ request.at = "idle" /\ draft = NoDraft
    /\ writes < MaxWrites /\ writes' = writes + 1
    /\ facet' = path
    /\ UNCHANGED <<rows, links, firing, request, draft>>

(* Deleting a facet that is gone raises and leaves the table as it is *)
delete_facet ==
    /\ request.at = "idle" /\ draft = NoDraft
    /\ writes < MaxWrites /\ writes' = writes + 1
    /\ facet' = NoFacet
    /\ UNCHANGED <<rows, links, firing, request, draft>>

--------------------------------------------------------------------------------
(* Other requests and the event handler change the tables *)

Writes ==
    /\ draft = NoDraft
    /\ writes < MaxWrites /\ writes' = writes + 1
    /\ request' = [request EXCEPT !.steady = FALSE]

(* An occurrence arrives: later than every other, or in the same instant *)
Arrive(a, severity) ==
    LET newest == IF Present = {} THEN 0
                  ELSE CHOOSE t \in {rows[b].time : b \in Present} :
                          \A b \in Present : rows[b].time <= t
    IN  /\ Writes
        /\ \E t \in {newest, newest + 1} \ {0} :
              rows' = [rows EXCEPT ![a] =
                  [time |-> t, severity |-> severity, status |-> "low",
                   chosen |-> Null, assignee |-> Null]]
        /\ UNCHANGED <<links, firing, facet, draft>>

Correlate(a, i) ==
    /\ Writes
    /\ a \in Present
    /\ links' = links \union {<<a, i>>}
    /\ firing' = firing \union {i}
    /\ UNCHANGED <<rows, facet, draft>>

Resolve(i) ==
    /\ Writes
    /\ firing' = firing \ {i}
    /\ UNCHANGED <<rows, links, facet, draft>>

--------------------------------------------------------------------------------
(* The editor.  A check reads no table: it is explored on the empty one.   *)

validate(cel) ==
    /\ draft = NoDraft /\ request = Idle /\ writes = 0
    /\ draft' = [cel |-> cel,
                 alerts |-> validate_alert_filter_cel(cel),
                 events |-> validate_event_filter_cel(cel)]
    /\ UNCHANGED <<Tables, request, writes>>

CloseEditor ==
    /\ draft # NoDraft
    /\ draft' = NoDraft
    /\ UNCHANGED <<Tables, request, writes>>

--------------------------------------------------------------------------------

Init ==
    /\ rows = [a \in Alert |-> NoRow]
    /\ links = {} /\ firing = {}
    /\ facet = NoFacet
    /\ request = Idle
    /\ draft = NoDraft
    /\ writes = 0

Next ==
    \/ \E cel \in Searches :
          \/ \E note \in Notations :
                \/ query_alerts_count(cel, note)
                \/ get_last_incidents_by_cel(cel, note)
          \/ \E own \in Searches :
                fetch_alert_facet_options(cel, own) \/ fetch_inicident_facet_options(cel, own)
    \/ query_alerts \/ ListIncidents \/ Finish
    \/ \E path \in {"incident", "nowhere", "alert.severity"} : add_facet(path)
    \/ delete_facet
    \/ \E a \in Alert, severity \in EnumValues : Arrive(a, severity)
    \/ \E a \in Alert, i \in Incident : Correlate(a, i)
    \/ \E i \in Incident : Resolve(i)
    \/ \E cel \in Drafts : validate(cel)
    \/ CloseEditor

Spec == Init /\ [][Next]_vars

--------------------------------------------------------------------------------
(* Properties *)

(* The variables have their types, and no client ever receives more alerts *)
(* than the hard limit allows, however many share an instant               *)
(* (query_last_alerts).                                                    *)
TypeOK ==
    /\ \A a \in Alert : rows[a] = NoRow \/ rows[a].severity \in EnumValues
    /\ links \subseteq Alert \X Incident
    /\ firing \subseteq Incident
    /\ facet \in {NoFacet, "incident", "nowhere", "alert.severity"}
    /\ writes \in 0 .. MaxWrites
    /\ request.at \in {"idle", "counted", "listing", "done", "refused", "failed", "options"}
    /\ request.kind = "alerts" => Len(request.seen) <= HardLimit

(* Every row the converter can be asked about *)
AllRows ==
    [severity : EnumValues, status : {"low", "info"}, chosen : {Null, "critical"},
     assignee : {Null, "", "ann"}, incident : {Null, "i1"}]

ExactOn(cel, row) ==
    (\A f \in Compared(cel) : Column(row, f) # Null)
        => (Selected(cel, row) <=> Says(cel, row))

Plain(cel) ==
    convert_to_sql_str_v2(cel) = "ok" /\ ~ AsksHas(cel) /\ ~ DropsAlternative(cel)

(* The SQL of an accepted filter selects the rows the filter describes:    *)
(* order comparisons follow the enumeration, literals match in any case,   *)
(* a bare field tests that it is set and not false, negation and the       *)
(* logical operators keep their meaning.  Claimed for rows in which the    *)
(* compared fields are set, and not for has() nor for a disjunction one of *)
(* whose operands the mapper drops (convert_to_sql_str_v2).                *)
FilterIsExact ==
    Plain(draft.cel) => \A row \in AllRows : ExactOn(draft.cel, row)

DistinctTimes ==
    \A a, b \in Present : a # b => rows[a].time # rows[b].time

(* While nothing changes, the pages a client reads hold every alert of the *)
(* filter once, as many as the count said, however many incidents an alert *)
(* is in and wherever the hard limit cuts; the same for the incidents of a *)
(* list.  Claimed for fields written with dots, and for alerts whose times *)
(* differ (build_total_alerts_query, build_alerts_query).                  *)
PagesAreTheTotal ==
    request.at = "done" /\ request.steady /\ request.note = "dot"
        /\ (request.kind = "alerts" => DistinctTimes)
        => /\ Len(request.seen) = request.total
           /\ Cardinality({request.seen[k] : k \in DOMAIN request.seen}) = request.total

(* A row satisfies the filter and the facet's own filter.                  *)
Both(row) == Says(request.cel, row) /\ Says(request.own, row)

(* The options of one facet: each value with the number of its entities.   *)
Counted(path, values, entities(_)) ==
    {o \in request.options : o[1] = path /\ o[2] # Null} =
    {<<path, v, Cardinality(entities(v))>> : v \in values}

(* An option of a facet counts the recent alerts, or the incidents, that   *)
(* have its value and satisfy the filter and the facet's own filter, each  *)
(* once however many rows the joins give it, and every member of an        *)
(* enumeration has its option: the severities of alerts, the statuses of   *)
(* incidents, and the severities of their alerts when the tenant has that  *)
(* facet.  Claimed when neither filter is a disjunction at its top         *)
(* (build_facets_data_query, get_facet_options).                           *)
FacetsCountBoth ==
    LET AlertsOf(v) == {a \in Recent : rows[a].severity = v /\ \E p \in JoinIncidents(a) : Both(Row(p))}
        IncidentsIn(v) == {i \in Incident : State(i) = v /\ \E p \in JoinAlerts(i) : Both(AlertOf(p))}
        IncidentsWith(v) == {i \in Incident : \E p \in JoinAlerts(i) :
                                AlertOf(p).severity = v /\ Both(AlertOf(p))}
    IN  request.at = "options" /\ request.steady
            /\ (\A cel \in {request.cel, request.own} : cel.node # "or" /\ Plain(cel))
        => IF request.kind = "alerts" THEN Counted("severity", EnumValues, AlertsOf)
           ELSE /\ Counted("state", IncidentStatus, IncidentsIn)
                /\ facet = "alert.severity" => Counted("alert.severity", EnumValues, IncidentsWith)

(* What a client that reads page by page receives.                         *)
PagesAreSound == TypeOK /\ PagesAreTheTotal

=============================================================================
