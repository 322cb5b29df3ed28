------------------------------- MODULE Rules -------------------------------
(***************************************************************************)
(* The rules users and the environment configure: deduplication rules      *)
(* (services/alert_deduplicator, routes/deduplications.py), correlation    *)
(* rules (routes/rules.py), CSV mapping rules (routes/mapping.py),         *)
(* extraction rules (routes/extraction.py) and maintenance windows         *)
(* (routes/maintenance.py).                                                *)
(*                                                                         *)
(* An update or a deletion selects the row, changes the object in memory   *)
(* and commits: the ORM writes only the columns whose value differs from   *)
(* the one it loaded, and an UPDATE that matches no row is an error.  A    *)
(* deduplication rule is checked in one session and changed in another.    *)
(* Every start-up provisions the deduplication rules of its environment,   *)
(* one commit per rule; replicas of a rolling deployment, each with its    *)
(* own environment, do so at the same time.  The evaluation of an alert    *)
(* (apply_deduplication) is called by the event handler, which shares this *)
(* code and stores the hash it is left with.  A mapping or an extraction   *)
(* rule may be executed against a stored alert (services/enrichments_bl.py).*)
(*                                                                         *)
(* A table that only one rule is ever looked up in has one row here; rows  *)
(* and their columns are small numbers.  Requests refused before they read *)
(* or change a row are left out.                                           *)
(***************************************************************************)
EXTENDS Integers, Sequences, FiniteSets, FiniteSetsExt

CONSTANTS Names,      \* names of deduplication rules
          Provs,      \* providers that alerts come from
          Clients,    \* concurrent requests
          Replicas,   \* concurrent start-ups
          None,
          MaxRules,   \* bound: deduplication rules made
          MaxWork     \* bound: requests, start-ups and alerts

ASSUME RulesAssumption ==
    /\ MaxRules \in Nat /\ MaxWork \in Nat
    /\ None \notin Names \cup Provs \cup {"db", "db2", "list", "*"}
    /\ \A rule \in [name : Names, prov : Provs, mode : {"partial", "strict", "loose"}, provisioned : BOOLEAN] :
          rule # None

VARIABLES
    dedup,      \* alertdeduplicationrule: the rule per id
    made,       \* ids given out
    installed,  \* installed and linked providers
    row,        \* the other tables, one row each
    gen,        \* rows created per table
    req,        \* what each client's request has read
    boot,       \* what each start-up has read and has left to do
    events,     \* enrichmentevent: the recorded executions of mapping and extraction rules
    last,       \* per provider the last alert stored, with its hash and the rule it was judged by
    work,       \* requests, start-ups and alerts so far
    settled,    \* history: the environment of the last start-up no other one overlapped
    torn,       \* history: the window was last written by an update that loaded an older row
    missed      \* history: a repeated alert was not judged a full duplicate

dedupVars == <<dedup, made>>
rowVars == <<row, gen, torn>>
alertVars == <<last, missed>>
vars == <<dedupVars, installed, rowVars, req, boot, events, alertVars, work, settled>>

Ids == 1 .. MaxRules
Kinds == {"correlation", "mapping", "extraction", "maintenance"}
Bit == 0 .. 1
\* full_deduplication and ignore_fields: not full; full ignoring nothing; full ignoring last_received
Modes == {"partial", "strict", "loose"}
DedupRows == [name : Names, prov : Provs, mode : Modes, provisioned : BOOLEAN]
Envs == UNION {[S -> Provs] : S \in SUBSET Names}
Columns == [correlation |-> {"body", "deleted"}, mapping |-> {"body", "rows", "multi"},
            extraction |-> {"regex", "priority"}, maintenance |-> {"start", "duration", "end"}]

Idle == [pc |-> "idle", kind |-> None, gen |-> 0, id |-> 0, seen |-> None, want |-> None]
Off == [pc |-> "off", env |-> None, known |-> {}, stale |-> {}, done |-> {}, alone |-> TRUE]

Init ==
    /\ dedup = [i \in Ids |-> None] /\ made = 0 /\ installed \in SUBSET Provs
    /\ row = [k \in Kinds |-> None] /\ gen = [k \in Kinds |-> 0]
    /\ req = [c \in Clients |-> Idle] /\ boot = [r \in Replicas |-> Off]
    /\ events = {} /\ last = [p \in Provs |-> None] /\ work = 0
    /\ settled = None /\ torn = FALSE /\ missed = FALSE

Work == work < MaxWork /\ work' = work + 1
Begin(c) == req[c].pc = "idle" /\ Work
Done(c) == req' = [req EXCEPT ![c] = Idle]

-----------------------------------------------------------------------------
(* Correlation, mapping, extraction and maintenance rules. *)

Window(s, d) == [start |-> s, duration |-> d, end |-> s + d]

Create(c, k, new) ==
    /\ Begin(c) /\ row[k] = None
    /\ row' = [row EXCEPT ![k] = new]
    /\ gen' = [gen EXCEPT ![k] = @ + 1]
    /\ torn' = (torn /\ k # "maintenance")
    /\ UNCHANGED <<dedupVars, installed, req, boot, events, alertVars, settled>>

create_rule(c) == \E b \in Bit : Create(c, "correlation", [body |-> b, deleted |-> 0])
\* A CSV mapping comes with rows.
create_mapping_rule(c) == \E b, m \in Bit : Create(c, "mapping", [body |-> b, rows |-> 1, multi |-> m])
create_extraction_rule(c) == \E new \in [Columns.extraction -> Bit] : Create(c, "extraction", new)
create_maintenance_rule(c) == \E s, d \in Bit : Create(c, "maintenance", Window(s, d))

\* The row is loaded.
Select(c, k, pc, want) ==
    /\ Begin(c) /\ row[k] # None
    /\ req' = [req EXCEPT ![c] =
                 [Idle EXCEPT !.pc = pc, !.kind = k, !.gen = gen[k], !.seen = row[k], !.want = want]]
    /\ UNCHANGED <<dedupVars, installed, rowVars, boot, events, alertVars, settled>>

\* A correlation rule is updated whether it is deleted or not.
update_rule(c) == \E b \in Bit : Select(c, "correlation", "update", [body |-> b])

\* The rows stay when the body has none; an empty list replaces them.
update_mapping_rule(c) ==
    \E want \in [{"body"} -> Bit] \cup [{"body", "rows"} -> Bit] : Select(c, "mapping", "update", want)

\* Only the fields the body sets are assigned; it must set the regular expression.
update_extraction_rule(c) ==
    \E want \in [{"regex"} -> Bit] \cup [Columns.extraction -> Bit] : Select(c, "extraction", "update", want)

update_maintenance_rule(c) == \E s, d \in Bit : Select(c, "maintenance", "update", Window(s, d))

\* Correlation rules are flagged, the others are removed.
delete_rule(c) ==
    row["correlation"] # None /\ row["correlation"].deleted = 0
    /\ Select(c, "correlation", "update", [deleted |-> 1])
delete_mapping_rule(c) == Select(c, "mapping", "remove", <<>>)
delete_extraction_rule(c) == Select(c, "extraction", "remove", <<>>)
delete_maintenance_rule(c) == Select(c, "maintenance", "remove", <<>>)

\* Mutant: the whole row is written back.
MutFlushWholeRow(now, seen, want) ==
    [f \in DOMAIN now |-> IF f \in DOMAIN want THEN want[f] ELSE seen[f]]

\* The columns an UPDATE names are those whose value differs from the loaded one.
Flush(now, seen, want) ==
    [f \in DOMAIN now |-> IF f \in DOMAIN want /\ want[f] # seen[f] THEN want[f] ELSE now[f]]

CommitUpdate(c) ==
    LET q == req[c]
        k == q.kind
        there == row[k] # None /\ gen[k] = q.gen  \* else the UPDATE matches nothing: StaleDataError
    IN /\ q.pc = "update"
       /\ row' = [row EXCEPT ![k] = IF there THEN Flush(@, q.seen, q.want) ELSE @]
       /\ torn' = IF there /\ k = "maintenance" THEN row[k] # q.seen ELSE torn
       /\ Done(c)
       /\ UNCHANGED <<dedupVars, installed, gen, boot, events, alertVars, work, settled>>

\* A DELETE that matches nothing only warns.
CommitRemove(c) ==
    LET k == req[c].kind
    IN /\ req[c].pc = "remove"
       /\ row' = [row EXCEPT ![k] = IF gen[k] = req[c].gen THEN None ELSE @]
       /\ Done(c)
       /\ UNCHANGED <<dedupVars, installed, gen, torn, boot, events, alertVars, work, settled>>

-----------------------------------------------------------------------------
(* Executing a mapping or an extraction rule against a stored alert. *)

\* An attribute of an alert: absent, one of two names, or a list (of the first name).
Attributes == {"app", "site"}
Values == {None, "db", "db2", "list"}
Alerts == [Attributes -> Values]
\* re.search(pattern, value)
Found(pattern, value) == pattern = value \/ (pattern = "db" /\ value \in {"db2", "list"})

\* What the two bodies and the two sets of rows of a mapping rule stand for.
Matchers(rule) == IF rule.body = 0 THEN <<<<"app", "site">>>> ELSE <<<<"app">>, <<"site">>>>
Rows(rule) ==
    IF rule.rows = 0 THEN <<>>
    ELSE <<[app |-> "db2", site |-> None, owner |-> None], [app |-> "db", site |-> "*", owner |-> "ops"]>>

\* all(...) and any(...) over verdicts: the first that differs from v decides.
FirstNot(s, v) ==
    LET at == {i \in DOMAIN s : s[i] # v} IN IF at = {} THEN v ELSE s[Min(at)]

\* _is_match, or equal, or the wildcard; the wildcard is tried as a regular expression first
\* and re.error is not caught.
Verdict(value, pattern) ==
    CASE value # None /\ pattern = "*" -> "error"
      [] value # None /\ pattern \notin {None, "*"} -> IF Found(pattern, value) THEN "yes" ELSE "no"
      [] OTHER -> IF value = pattern \/ pattern = "*" THEN "yes" ELSE "no"

_check_matcher(alert, r, matcher) ==
    FirstNot([i \in DOMAIN matcher |-> Verdict(alert[matcher[i]], r[matcher[i]])], "yes")

\* Mutant: the scan ends at the first row whether it matches or not.
MutScanFirstRow(rule, alert) ==
    LET ms == Matchers(rule)
        tests == [n \in DOMAIN Rows(rule) |->
                    FirstNot([i \in DOMAIN ms |-> _check_matcher(alert, Rows(rule)[n], ms[i])], "no")]
    IN IF tests = <<>> THEN 0 ELSE IF tests[1] = "error" THEN -1 ELSE IF tests[1] = "yes" THEN 1 ELSE 0

\* The first row some matcher accepts: its number, 0 if there is none, -1 after an error.
Scan(rule, alert) ==
    LET ms == Matchers(rule)
        tests == [n \in DOMAIN Rows(rule) |->
                    FirstNot([i \in DOMAIN ms |-> _check_matcher(alert, Rows(rule)[n], ms[i])], "no")]
        hits == {n \in DOMAIN tests : tests[n] # "no"}
    IN IF hits = {} THEN 0 ELSE IF tests[Min(hits)] = "error" THEN -1 ELSE Min(hits)

\* What is left of a row without the matchers' attributes and the empty cells.
Added(rule, r) ==
    {k \in DOMAIN r : r[k] # None /\ ~\E i \in DOMAIN Matchers(rule) : k \in Range(Matchers(rule)[i])}

\* Of a multi-level rule the first attribute alone counts, and its value is a list of names.
MultiLevel(rule, alert) ==
    LET value == alert[Matchers(rule)[1][1]]
    IN CASE value = None -> "failure"
         [] value = "list" -> IF \E r \in Range(Rows(rule)) : r[Matchers(rule)[1][1]] = "db"
                              THEN "raised" ELSE "failure"
         [] OTHER -> "raised"  \* not JSON

\* A row that enriches is handed to enrich_entity by position, which takes keywords only: TypeError,
\* before anything is written.
check_if_match_and_enrich(rule, alert) ==
    LET ms == Matchers(rule)
        n == Scan(rule, alert)
    IN CASE ~\E i \in DOMAIN ms : \A a \in Range(ms[i]) : alert[a] # None -> "skipped"
         [] OTHER ->
              CASE rule.multi = 1 -> MultiLevel(rule, alert)
                [] rule.multi = 0 /\ n = 0 -> "failure"
                [] rule.multi = 0 /\ n = -1 -> "raised"
                [] rule.multi = 0 /\ n > 0 ->
                     IF Added(rule, Rows(rule)[n]) = {} THEN "failure" ELSE "raised"

\* The attribute is empty, the condition is false or fails, the regular expression is found (and
\* enrich_entity raises, as above) or is not.
run_extraction_rules == {"skipped", "raised"}

execute_rule(c) == \E alert \in Alerts : Select(c, "mapping", "run", alert)
execute_extraction_rule(c) == Select(c, "extraction", "run", None)

\* The event is stored, unless storing it fails, which is logged and ignored; the rule may be gone.
_track_enrichment_event(k, rule, alert, status) ==
    \/ events' = events \cup {[kind |-> k, rule |-> rule, alert |-> alert, status |-> status]}
    \/ events' = events

RunRule(c) ==
    LET q == req[c]
    IN /\ q.pc = "run"
       /\ \E status \in IF q.kind = "mapping" THEN {check_if_match_and_enrich(q.seen, q.want)}
                                              ELSE run_extraction_rules :
             IF status = "raised" THEN UNCHANGED events
             ELSE _track_enrichment_event(q.kind, q.seen, q.want, status)
       /\ Done(c)
       /\ UNCHANGED <<dedupVars, installed, rowVars, boot, alertVars, work, settled>>

-----------------------------------------------------------------------------
(* Deduplication rules. *)

\* Providers come and go (module Providers); the rules that name them stay.
ProviderChanges ==
    /\ Work
    /\ \E p \in Provs : installed' = (installed \ {p}) \cup ({p} \ installed)
    /\ UNCHANGED <<dedupVars, rowVars, req, boot, events, alertVars, settled>>

Insert(new) ==
    /\ made < MaxRules
    /\ made' = made + 1
    /\ dedup' = [dedup EXCEPT ![made + 1] = new]

\* The providers of the alerts looked at, but for the installed ones (no provider here is a "group").
get_linked_providers(sampled) == {p \in Provs \ installed : p \in sampled}

\* POST, and PUT of the id of a provider's default rule: the provider must be an installed one whose
\* secret can be read, or a linked one.  At most 10000 alerts are looked at, whichever they are.
create_deduplication_rule(c) ==
    /\ Begin(c)
    /\ \E readable \in SUBSET installed, sampled \in SUBSET {q \in Provs : last[q] # None} :
       \E p \in readable \cup get_linked_providers(sampled), n \in Names, m \in Modes :
          req' = [req EXCEPT ![c] = [Idle EXCEPT !.pc = "insert",
                    !.want = [name |-> n, prov |-> p, mode |-> m, provisioned |-> FALSE]]]
    /\ UNCHANGED <<dedupVars, installed, rowVars, boot, events, alertVars, settled>>

InsertRule(c) ==
    /\ req[c].pc = "insert"
    /\ Insert(req[c].want) /\ Done(c)
    /\ UNCHANGED <<installed, rowVars, boot, events, alertVars, work, settled>>

\* Mutant: provisioned rules are changed like any other.
MutMayChangeAny(rule) == rule # None

\* 409 for a provisioned rule.
MayChange(rule) == rule # None /\ ~rule.provisioned

\* The provider an update names is not looked up.
update_deduplication_rule(c) ==
    /\ Begin(c)
    /\ \E i \in Ids, n \in Names, p \in Provs, m \in Modes :
          /\ MayChange(dedup[i])
          /\ req' = [req EXCEPT ![c] = [Idle EXCEPT !.pc = "change", !.id = i,
                       !.want = [name |-> n, prov |-> p, mode |-> m]]]
    /\ UNCHANGED <<dedupVars, installed, rowVars, boot, events, alertVars, settled>>

\* db.update_deduplication_rule; the rule may be gone (ValueError).
Change(i, n, p, m) ==
    dedup' = [dedup EXCEPT ![i] = IF @ = None THEN None
                                  ELSE [@ EXCEPT !.name = n, !.prov = p, !.mode = m]]

ChangeRule(c) ==
    /\ req[c].pc = "change"
    /\ Change(req[c].id, req[c].want.name, req[c].want.prov, req[c].want.mode)
    /\ Done(c)
    /\ UNCHANGED <<made, installed, rowVars, boot, events, alertVars, work, settled>>

delete_deduplication_rule(c) ==
    /\ Begin(c)
    /\ \E i \in Ids : MayChange(dedup[i])
                      /\ req' = [req EXCEPT ![c] = [Idle EXCEPT !.pc = "erase", !.id = i]]
    /\ UNCHANGED <<dedupVars, installed, rowVars, boot, events, alertVars, settled>>

\* db.delete_deduplication_rule; the rule may be gone, which is no error.
Erase(i) == dedup' = [dedup EXCEPT ![i] = None]

EraseRule(c) ==
    /\ req[c].pc = "erase"
    /\ Erase(req[c].id)
    /\ Done(c)
    /\ UNCHANGED <<made, installed, rowVars, boot, events, alertVars, work, settled>>

-----------------------------------------------------------------------------
(* Provisioning at start-up. *)

Booting(r) == boot[r].pc # "off"
BootIdle == <<installed, rowVars, req, events, alertVars>>

\* Without any rule in the environment nothing is read and nothing is deprovisioned; a rule
\* whose provider is not installed ends the start-up before it changes anything.
provision_deduplication_rules_from_env(r) ==
    /\ ~Booting(r) /\ Work
    /\ \E env \in Envs :
          /\ DOMAIN env # {} /\ \A n \in DOMAIN env : env[n] \in installed
          /\ boot' = [s \in Replicas |->
                        IF s = r THEN [Off EXCEPT !.pc = "read", !.env = env,
                                               !.alone = \A t \in Replicas : ~Booting(t)]
                        ELSE [boot[s] EXCEPT !.alone = ~Booting(s)]]
    /\ settled' = None
    /\ UNCHANGED <<dedupVars, BootIdle>>

\* The rules to delete, and the rule each name is known by: of two rules of one name, either.
ReadProvisioned(r) ==
    LET mine == {i \in Ids : dedup[i] # None /\ dedup[i].provisioned}
    IN /\ boot[r].pc = "read"
       /\ \E known \in SUBSET mine :
             /\ \A i \in mine : \E j \in known : dedup[i].name = dedup[j].name
             /\ \A i, j \in known : dedup[i].name = dedup[j].name => i = j
             /\ boot' = [boot EXCEPT ![r].pc = "delete",
                           ![r].known = {<<dedup[i].name, i>> : i \in known},
                           ![r].stale = {i \in mine : dedup[i].name \notin DOMAIN boot[r].env}]
       /\ UNCHANGED <<dedupVars, BootIdle, work, settled>>

DeleteStale(r) ==
    /\ boot[r].pc = "delete"
    /\ \E i \in boot[r].stale :
          /\ Erase(i)
          /\ boot' = [boot EXCEPT ![r].stale = @ \ {i}]
    /\ UNCHANGED <<made, BootIdle, work, settled>>

StaleGone(r) ==
    /\ boot[r].pc = "delete" /\ boot[r].stale = {}
    /\ boot' = [boot EXCEPT ![r].pc = "write"]
    /\ UNCHANGED <<dedupVars, BootIdle, work, settled>>

\* One name of the environment: its rule is updated, or created when the name was not known.
\* The environment leaves the settings at their defaults.
Known(r, n) == {e[2] : e \in {f \in boot[r].known : f[1] = n}}

Provision(r, n) ==
    \/ \E i \in Known(r, n) : dedup[i] # None /\ Change(i, n, boot[r].env[n], "partial") /\ made' = made
    \/ Known(r, n) = {} /\ Insert([name |-> n, prov |-> boot[r].env[n], mode |-> "partial", provisioned |-> TRUE])

ProvisionName(r) ==
    /\ boot[r].pc = "write"
    /\ \E n \in DOMAIN boot[r].env \ boot[r].done :
          /\ Provision(r, n)
          /\ boot' = [boot EXCEPT ![r].done = @ \cup {n}]
    /\ UNCHANGED <<BootIdle, work, settled>>

\* The known rule is gone (ValueError), or the process is stopped: the start-up ends where it is.
Abort(r) ==
    /\ Booting(r)
    /\ boot' = [boot EXCEPT ![r] = Off]
    /\ UNCHANGED <<dedupVars, BootIdle, work, settled>>

Provisioned(r) ==
    /\ boot[r].pc = "write" /\ boot[r].done = DOMAIN boot[r].env
    /\ settled' = IF boot[r].alone THEN boot[r].env ELSE settled
    /\ boot' = [boot EXCEPT ![r] = Off]
    /\ UNCHANGED <<dedupVars, BootIdle, work>>

-----------------------------------------------------------------------------
(* The evaluation of an alert. *)

get_custom_deduplication_rule(p) == {i \in Ids : dedup[i] # None /\ dedup[i].prov = p}

\* The fields left out of the hash; a rule that is not full takes the default rule's.
IgnoredFields(mode) == IF mode = "strict" THEN {} ELSE {"last_received"}

Hash(value, received, mode) ==
    [f \in {"value", "last_received"} \ IgnoredFields(mode) |-> IF f = "value" THEN value ELSE received]

\* The hashes of the fingerprints' last alerts: here a provider's alerts share a fingerprint.
get_last_alert_hashes_by_fingerprints == [p \in {q \in Provs : last[q] # None} |-> last[p].hash]

Judged(p, hash) ==
    LET hashes == get_last_alert_hashes_by_fingerprints
    IN CASE p \in DOMAIN hashes /\ hashes[p] = hash -> "full"
         [] p \in DOMAIN hashes /\ hashes[p] # hash -> "partial"
         [] OTHER -> "none"

\* Two rules of one provider make one_or_none raise: the alert is not evaluated.
apply_deduplication(p) ==
    LET rules == get_custom_deduplication_rule(p)
        mode == IF rules = {} THEN "loose" ELSE dedup[CHOOSE i \in rules : TRUE].mode
    IN /\ Work
       /\ Cardinality(rules) <= 1
       /\ \E value \in Bit :
             LET hash == Hash(value, work, mode)
                 \* judged as the alert before it was, and the same but for its time
                 repeat == last[p] # None /\ last[p].mode = mode /\ mode # "strict" /\ last[p].value = value
             IN /\ last' = [last EXCEPT ![p] = [value |-> value, hash |-> hash, mode |-> mode]]
                /\ missed' = (missed \/ (repeat /\ Judged(p, hash) # "full"))
       /\ UNCHANGED <<dedupVars, installed, rowVars, req, boot, events, settled>>

-----------------------------------------------------------------------------
Next ==
    \/ \E c \in Clients :
          \/ create_rule(c) \/ update_rule(c) \/ delete_rule(c)
          \/ create_mapping_rule(c) \/ update_mapping_rule(c) \/ delete_mapping_rule(c) \/ execute_rule(c)
          \/ create_extraction_rule(c) \/ update_extraction_rule(c) \/ delete_extraction_rule(c)
          \/ execute_extraction_rule(c)
          \/ create_maintenance_rule(c) \/ update_maintenance_rule(c) \/ delete_maintenance_rule(c)
          \/ CommitUpdate(c) \/ CommitRemove(c) \/ RunRule(c)
          \/ create_deduplication_rule(c) \/ InsertRule(c)
          \/ update_deduplication_rule(c) \/ ChangeRule(c)
          \/ delete_deduplication_rule(c) \/ EraseRule(c)
    \/ ProviderChanges
    \/ \E r \in Replicas :
          \/ provision_deduplication_rules_from_env(r) \/ ReadProvisioned(r)
          \/ DeleteStale(r) \/ StaleGone(r) \/ ProvisionName(r)
          \/ Abort(r) \/ Provisioned(r)
    \/ \E p \in Provs : apply_deduplication(p)

Spec == Init /\ [][Next]_vars

-----------------------------------------------------------------------------
(* Properties. *)

\* Every variable holds values of its kind; rules are given out in order of their ids.
TypeOK ==
    /\ dedup \in [Ids -> DedupRows \cup {None}] /\ made \in 0 .. MaxRules
    /\ \A i \in Ids : dedup[i] # None => i <= made
    /\ installed \subseteq Provs
    /\ \A k \in Kinds : row[k] = None \/ (DOMAIN row[k] = Columns[k] /\ \A f \in DOMAIN row[k] : row[k][f] \in 0 .. 2)
    /\ \A e \in events : e.kind \in {"mapping", "extraction"} /\ e.status \in {"skipped", "failure"}
    /\ gen \in [Kinds -> Nat] /\ DOMAIN req = Clients /\ DOMAIN boot = Replicas
    /\ \A r \in Replicas : boot[r].env \in Envs \cup {None} /\ boot[r].done \subseteq Names /\ boot[r].stale \subseteq Ids
    /\ settled \in Envs \cup {None} /\ torn \in BOOLEAN /\ missed \in BOOLEAN
    /\ work \in 0 .. MaxWork

\* After a start-up that no other one overlapped, the provisioned deduplication rules are those of
\* its environment, each for its provider - whatever rules users create, change or delete meanwhile
\* and later (provision_deduplication_rules; the 409 of the update and delete requests).
ProvisionSettles ==
    settled # None =>
        /\ \A n \in DOMAIN settled : \E i \in Ids :
              dedup[i] # None /\ dedup[i].provisioned /\ dedup[i].name = n /\ dedup[i].prov = settled[n]
        /\ \A i \in Ids : dedup[i] # None /\ dedup[i].provisioned => dedup[i].name \in DOMAIN settled

\* A request changes only the columns it assigns, even when it commits over a row that others
\* changed since it loaded it: a deleted correlation rule is not brought back by an update that
\* loaded it earlier, and two partial updates of an extraction rule both stand.
WritesStayInTheirColumns ==
    [][\A k \in Kinds : row[k] # None /\ row'[k] # None /\ gen'[k] = gen[k] =>
         \A f \in Columns[k] : row'[k][f] # row[k][f] =>
            \E c \in Clients : /\ req[c].pc = "update" /\ req[c].kind = k /\ f \in DOMAIN req[c].want
                               /\ row'[k][f] = req[c].want[f] /\ req'[c].pc = "idle"]_vars

\* A maintenance window ends its duration after its start, unless its last update had loaded the row
\* before another update changed it: the two then write different columns of the three.
WindowEnds ==
    row["maintenance"] # None /\ ~torn =>
        row["maintenance"].end = row["maintenance"].start + row["maintenance"].duration

\* The alert has what a matcher asks of a row: the same value, nothing on both sides, or anything
\* where the row says "*".
Agrees(alert, r, matcher) ==
    \A a \in Range(matcher) : r[a] = "*" \/ alert[a] = r[a] \/ (alert[a] # None /\ Found(r[a], alert[a]))

\* A recorded execution of a mapping rule says the truth about the rule as it was read: "skipped"
\* only if the alert lacks something every matcher needs, "failure" only if each row that has
\* something to add disagrees with the alert or follows one that agrees (check_if_match_and_enrich).
RecordedRunIsRight ==
    \A e \in events : e.kind = "mapping" =>
        LET ms == Range(Matchers(e.rule))
            rows == Rows(e.rule)
            hits == {n \in DOMAIN rows : \E m \in ms : Agrees(e.alert, rows[n], m)}
        IN /\ e.status = "skipped" <=> \A m \in ms : \E a \in Range(m) : e.alert[a] = None
           /\ e.status = "failure" /\ e.rule.multi = 0 =>
                \A n \in hits : Added(e.rule, rows[n]) # {} => \E i \in hits : i < n

\* An alert that repeats the one before it in everything but its time is a full duplicate, as long as
\* the rule it is judged by is the default one, is not full, or ignores last_received
\* (_apply_deduplication_rule, get_deduplication_rules).
RepeatIsDuplicate == ~missed

\* Deduplication rules: how they are provisioned and what they decide.
DeduplicationHolds == TypeOK /\ ProvisionSettles /\ RepeatIsDuplicate

\* Mapping rules and maintenance windows say what their rows say.
RowsAreTold == WindowEnds /\ RecordedRunIsRight

=============================================================================
