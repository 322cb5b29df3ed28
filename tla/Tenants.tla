------------------------------- MODULE Tenants -------------------------------
(***************************************************************************)
(* Tenants, the role grants on them, and the operators that route alerts   *)
(* to them (src/routes/tenants.py, src/routes/operators.py).  An operator  *)
(* is provisioned by a saga over Kong, the database and Grafana            *)
(* (src/services/operator_provisoioning.py) that undoes the completed      *)
(* steps, last first, when a later one fails.                              *)
(*                                                                         *)
(* A caller is a person with one request at a time.  Every step is one     *)
(* call of one store, so requests interleave between the check of the      *)
(* caller's role and the change it allows, and between the reading and the *)
(* writing of Grafana's policy tree.  Every call of the saga, of Kong, of  *)
(* the database or of Grafana, may fail before or after it took effect (an *)
(* answer that was lost).  Requests that are refused without changing      *)
(* anything are left out, and so are the routes that only read.            *)
(***************************************************************************)
EXTENDS Integers, FiniteSets

CONSTANTS TenantIds, TenantNames,
          Callers, Superadmins,
          Subjects,        \* what a grant names: users and groups
          Groups,          \* the subjects that are Keycloak groups
          SubjectsOf,      \* get_subjects: the subjects of each caller's token
          OpNames,         \* operator names: Kong usernames, Grafana contact points
          None,
          Assignments,     \* role_mappings a tenant can be created with
          InitialAdmins,   \* the admins of the tenants that exist from the start
          MaxOps,          \* bound: requests
          MaxActive,       \* bound: requests at a time
          MaxSagas,        \* bound: provisionings
          MaxFaults,       \* bound: failed calls of a saga, changes of the URL
          MaxKeys          \* bound: ids and keys Kong and the gateway generate

ASSUME TenantsAssumption ==
    /\ Superadmins \subseteq Callers /\ Groups \subseteq Subjects
    /\ SubjectsOf \in [Callers -> SUBSET Subjects]
    /\ Assignments \subseteq [Subjects -> 0..3]
    /\ InitialAdmins \in [TenantIds -> SUBSET Subjects]
    /\ MaxOps \in Nat /\ MaxActive \in Nat /\ MaxSagas \in Nat
    /\ MaxFaults \in Nat /\ MaxKeys \in Nat
    /\ None \notin TenantNames \cup OpNames

VARIABLES
    tenant,     \* tenant table: the name of each tenant that exists
    grant,      \* tenant_role_grant: a strength, 0 for no grant
    operators,  \* operator table
    kong,       \* per username: the consumer's id (0: none) and its key-auth credentials
    contact,    \* per contact point: webhook URL and credentials (0: none)
    policies,   \* contact points with a sub-policy under Send-Alert
    url,        \* ALERTS_TO_CONSOLE_URL
    drawn,      \* ids and keys drawn so far
    req,        \* what each caller's request has found out so far
    ops, sagas, faults,
    excused,    \* history: tenants whose grants a superadmin or a former admin changed
    contested,  \* history: names worked on by two requests, or by one while the row stood
    retired,    \* history: names whose operator was deleted
    orphaned,   \* history: names whose row stands although its insertion failed
    reused,     \* history: names provisioned while a contact point of that name stood
    overwritten \* history: somebody else's sub-policy was overwritten

history == <<contested, retired, orphaned, reused, overwritten, sagas>>
grantVars == <<tenant, grant, excused>>
sagaVars == <<operators, kong, contact, policies, drawn, history>>
vars == <<grantVars, sagaVars, url, req, ops, faults>>

\* _ROLE_STRENGTH
admin == 3
editor == 2
viewer == 1
Roles == viewer..admin

\* A request: its step, what it is about, how many of the ProvisioningSteps are
\* complete (Kong consumer, Kong key, operator row), and what it has read.
Idle == [pc |-> "idle", t |-> None, s |-> None, role |-> 0, found |-> FALSE,
         name |-> None, group |-> None, done |-> 0, consumer |-> 0, key |-> 0, tree |-> {}]
SagaPCs == {"consumer", "postConsumer", "keys", "postKey", "keysAgain", "explicitKey",
            "row", "contact", "policies", "putPolicies", "rollback"}
PCs == {"idle", "rename", "add", "grant", "remove"} \cup SagaPCs
Consumerless == [id |-> 0, keys |-> {}]
NoContact == [url |-> 0, cred |-> 0]

Init ==
    /\ \E f \in [{t \in TenantIds : InitialAdmins[t] # {}} -> TenantNames] :
          /\ \A t, u \in DOMAIN f : f[t] = f[u] => t = u
          /\ tenant = [t \in TenantIds |-> IF t \in DOMAIN f THEN f[t] ELSE None]
    /\ grant = [t \in TenantIds |-> [s \in Subjects |-> IF s \in InitialAdmins[t] THEN admin ELSE 0]]
    /\ operators = {} /\ kong = [n \in OpNames |-> Consumerless]
    /\ contact = [n \in OpNames |-> NoContact] /\ policies = {}
    /\ url = 1 /\ drawn = 0
    /\ req = [c \in Callers |-> Idle]
    /\ ops = 0 /\ sagas = 0 /\ faults = 0
    /\ excused = {} /\ contested = {} /\ retired = {} /\ orphaned = {} /\ reused = {}
    /\ overwritten = FALSE

(***************************************************************************)
(* Roles                                                                   *)
(***************************************************************************)
Strongest(roles) == CHOOSE r \in roles : \A q \in roles : q <= r
get_tenant_role_for_subjects(t, subjects) == Strongest({0} \cup {grant[t][s] : s \in subjects})
resolve_tenant_role(c, t) ==
    IF c \in Superadmins THEN admin ELSE get_tenant_role_for_subjects(t, SubjectsOf[c])
\* Mutated form of _guard_self_modification: every caller is exempt.
MutGuardNobody(c, s) == TRUE
_guard_self_modification(c, s) == c \in Superadmins \/ s \notin SubjectsOf[c]

Existing == {t \in TenantIds : tenant[t] # None}
NameFree(name) == \A t \in Existing : tenant[t] # name

\* A request enters with the fields r, at the step r.pc.
Begin(c, r) ==
    /\ req[c] = Idle /\ ops < MaxOps
    /\ Cardinality({d \in Callers : req[d] # Idle}) < MaxActive
    /\ ops' = ops + 1
    /\ req' = [req EXCEPT ![c] = r]
End(c) == req' = [req EXCEPT ![c] = Idle]
Put(c, r) == req' = [req EXCEPT ![c] = r]

(***************************************************************************)
(* Tenants and grants                                                      *)
(***************************************************************************)
\* POST /tenants: the tenant and its grants in one transaction.
create_tenant_endpoint(c) ==
    \E t \in TenantIds \ Existing, name \in TenantNames, roles \in Assignments :
        /\ req[c] = Idle /\ ops < MaxOps /\ ops' = ops + 1
        /\ c \in Superadmins /\ NameFree(name)
        /\ \E s \in Subjects : roles[s] = admin
        /\ tenant' = [tenant EXCEPT ![t] = name]
        /\ grant' = [grant EXCEPT ![t] = roles]
        /\ UNCHANGED <<excused, sagaVars, url, req, faults>>

\* require_tenant_admin, in a session of its own, before the handler runs.
Authorize(c) ==
    \E t \in Existing, op \in {"rename", "add", "remove"} :
        /\ resolve_tenant_role(c, t) >= admin
        /\ Begin(c, [Idle EXCEPT !.pc = op, !.t = t])
        /\ UNCHANGED <<grantVars, sagaVars, url, faults>>

update_tenant_endpoint(c) ==
    /\ req[c].pc = "rename"
    /\ End(c)
    /\ \/ \E name \in {n \in TenantNames : NameFree(n)} : tenant' = [tenant EXCEPT ![req[c].t] = name]
       \/ UNCHANGED tenant          \* TenantNameConflict, or the name it had
    /\ UNCHANGED <<grant, excused, sagaVars, url, ops, faults>>

\* Who changes grants now without being an admin of the tenant at this moment.
Excuse(c, t) ==
    excused' = IF c \in Superadmins \/ get_tenant_role_for_subjects(t, SubjectsOf[c]) < admin
               THEN excused \cup {t} ELSE excused

\* POST /roles: add_grant looks for the grant ...
add_role_endpoint(c) ==
    \E s \in Subjects, role \in Roles :
        /\ req[c].pc = "add" /\ _guard_self_modification(c, s)
        /\ Put(c, [req[c] EXCEPT !.pc = "grant", !.s = s, !.role = role,
                                 !.found = grant[req[c].t][s] # 0])
        /\ UNCHANGED <<grantVars, sagaVars, url, ops, faults>>

\* ... and inserts or updates it.  A grant that came or went in between fails
\* the commit.
add_grant(c) ==
    LET r == req[c] IN
    /\ r.pc = "grant"
    /\ End(c)
    /\ IF r.found = (grant[r.t][r.s] # 0)
       THEN grant' = [grant EXCEPT ![r.t][r.s] = r.role] /\ Excuse(c, r.t)
       ELSE UNCHANGED <<grant, excused>>
    /\ UNCHANGED <<tenant, sagaVars, url, ops, faults>>

\* DELETE /roles.
remove_role_endpoint(c) ==
    \E s \in Subjects :
        /\ req[c].pc = "remove" /\ _guard_self_modification(c, s)
        /\ End(c)
        /\ grant' = [grant EXCEPT ![req[c].t][s] = 0]
        /\ Excuse(c, req[c].t)
        /\ UNCHANGED <<tenant, sagaVars, url, ops, faults>>

(***************************************************************************)
(* Provisioning of an operator                                             *)
(***************************************************************************)
InFlight(n) == {c \in Callers : req[c].name = n}
Rows(n) == {o \in operators : o.name = n}

Fault == faults < MaxFaults /\ faults' = faults + 1
Draw == drawn < MaxKeys /\ drawn' = drawn + 1

\* POST /operators: an editor of the tenant, with a group of their own.
create_operator_endpoint(c) ==
    \E t \in Existing, n \in OpNames, g \in Groups :
        /\ resolve_tenant_role(c, t) >= editor
        /\ c \in Superadmins \/ g \in SubjectsOf[c]
        /\ sagas < MaxSagas /\ sagas' = sagas + 1
        /\ Begin(c, [Idle EXCEPT !.pc = "consumer", !.t = t, !.name = n, !.group = g])
        /\ contested' = IF Rows(n) # {} \/ InFlight(n) # {} THEN contested \cup {n} ELSE contested
        /\ reused' = IF contact[n] # NoContact THEN reused \cup {n} ELSE reused
        /\ UNCHANGED <<grantVars, operators, kong, contact, policies, drawn, retired, orphaned,
                       overwritten, url, faults>>

At(c, p) == req[c].pc = p
Goto(c, p) == Put(c, [req[c] EXCEPT !.pc = p])
\* mark_step_complete, and on to the next step.
Complete(c, p, consumer, key) ==
    Put(c, [req[c] EXCEPT !.pc = p, !.done = @ + 1, !.consumer = consumer, !.key = key])
\* A step raised: the completed steps are rolled back.
Fail(c) == Goto(c, "rollback")

\* GET /consumers/{operator}; found, the consumer is used as it is.
_ensure_consumer(c) ==
    LET k == kong[req[c].name] IN
    /\ At(c, "consumer")
    /\ \/ k.id # 0 /\ Complete(c, "keys", k.id, 0) /\ UNCHANGED faults
       \/ k.id = 0 /\ Goto(c, "postConsumer") /\ UNCHANGED faults
       \/ Fault /\ Fail(c)
    /\ UNCHANGED <<grantVars, sagaVars, url, ops>>

\* POST /consumers; a conflict fetches the consumer somebody else created.
_create_consumer_or_fetch_existing(c) ==
    LET n == req[c].name IN
    /\ At(c, "postConsumer")
    /\ \/ /\ kong[n].id # 0
          /\ Complete(c, "keys", kong[n].id, 0)
          /\ UNCHANGED <<kong, drawn, faults>>
       \/ /\ kong[n].id = 0 /\ Draw
          /\ kong' = [kong EXCEPT ![n] = [id |-> drawn + 1, keys |-> {}]]
          /\ \/ Complete(c, "keys", drawn + 1, 0) /\ UNCHANGED faults
             \/ Fault /\ Fail(c)                                  \* the answer was lost
       \/ Fault /\ Fail(c) /\ UNCHANGED <<kong, drawn>>
    /\ UNCHANGED <<grantVars, operators, contact, policies, history, url, ops>>

\* Credentials are listed and deleted under the consumer's id: 404 once it is gone.
_delete_all_consumer_key_auths(c) ==
    LET n == req[c].name IN
    /\ At(c, "keys") \/ At(c, "keysAgain")
    /\ \/ /\ kong[n].id = req[c].consumer
          /\ kong' = [kong EXCEPT ![n].keys = {}]
          /\ Goto(c, IF At(c, "keys") THEN "postKey" ELSE "explicitKey") /\ UNCHANGED faults
       \/ kong[n].id # req[c].consumer /\ Fail(c) /\ UNCHANGED <<kong, faults>>
       \/ Fault /\ Fail(c) /\ UNCHANGED kong
    /\ UNCHANGED <<grantVars, operators, contact, policies, drawn, history, url, ops>>

\* Where _sync_key_auth goes when Kong's answer carried the key it generated.
Synced(c, key) == Complete(c, "row", req[c].consumer, key)
\* Mutated form of Omitted: the gateway's own key is posted beside the one Kong
\* generated and did not show.
MutOmittedKeepsFirst(c) == Goto(c, "explicitKey")
\* ... and when the answer omitted it: replace it by an explicit one.
Omitted(c) == Goto(c, "keysAgain")

_post_key_auth(c) ==
    LET n == req[c].name IN
    /\ At(c, "postKey") \/ At(c, "explicitKey")
    /\ \/ /\ kong[n].id = req[c].consumer /\ Draw
          /\ kong' = [kong EXCEPT ![n].keys = @ \cup {drawn + 1}]
          /\ \/ Synced(c, drawn + 1) /\ UNCHANGED faults
             \/ At(c, "postKey") /\ Omitted(c) /\ UNCHANGED faults
             \/ Fault /\ Fail(c)
       \/ kong[n].id # req[c].consumer /\ Fail(c) /\ UNCHANGED <<kong, drawn, faults>>
       \/ Fault /\ Fail(c) /\ UNCHANGED <<kong, drawn>>
    /\ UNCHANGED <<grantVars, operators, contact, policies, history, url, ops>>

ensure_consumer(c) == _ensure_consumer(c) \/ _create_consumer_or_fetch_existing(c)
create_or_update_api_key(c) == _delete_all_consumer_key_auths(c) \/ _post_key_auth(c)

\* The operator's row; name and group are unique.  The commit may be answered with
\* an error, or the refresh after it fail, when the row is stored: the step is not
\* complete then, and the rollback leaves the row.
InsertOperator(c) ==
    LET r == req[c]
        stored == operators \cup {[name |-> r.name, group |-> r.group, tenant |-> r.t, apikey |-> r.key]}
        taken == \E o \in operators : o.name = r.name \/ o.group = r.group IN
    /\ At(c, "row")
    /\ \/ ~taken /\ operators' = stored /\ Complete(c, "contact", r.consumer, r.key)
          /\ UNCHANGED <<orphaned, faults>>
       \/ taken /\ Fail(c) /\ UNCHANGED <<operators, orphaned, faults>>   \* OperatorNameTaken, OperatorGroupTaken
       \/ ~taken /\ Fault /\ Fail(c) /\ operators' = stored /\ orphaned' = orphaned \cup {r.name}
       \/ Fault /\ Fail(c) /\ UNCHANGED <<operators, orphaned>>
    /\ UNCHANGED <<grantVars, kong, contact, policies, drawn, contested, retired, reused, overwritten,
                   sagas, url, ops>>

_webhook_contact_point_unchanged(n) == contact[n].url = url

\* The listing and the change are one step: the row keeps every other
\* provisioning of the name from getting here.
_provision_contact_point(c) ==
    LET n == req[c].name
        posted == [contact EXCEPT ![n] = [url |-> url, cred |-> req[c].key]] IN
    /\ At(c, "contact")
    /\ \/ contact' = (IF _webhook_contact_point_unchanged(n) THEN contact ELSE posted)
          /\ Goto(c, "policies") /\ UNCHANGED faults
       \/ Fault /\ Fail(c) /\ contact' \in {contact, posted}
    /\ UNCHANGED <<grantVars, operators, kong, policies, drawn, history, url, ops>>

_get_policy_tree(c) ==
    /\ At(c, "policies")
    /\ \/ Put(c, [req[c] EXCEPT !.pc = "putPolicies", !.tree = policies]) /\ UNCHANGED faults
       \/ Fault /\ Fail(c)
    /\ UNCHANGED <<grantVars, sagaVars, url, ops>>

\* The tree that is put back: the one that was read, with the sub-policy appended.
Edited(c) == req[c].tree \cup {req[c].name}

_provision_sub_policy(c) ==
    /\ At(c, "putPolicies")
    /\ \/ policies' = Edited(c) /\ End(c) /\ UNCHANGED faults
       \/ Fault /\ Fail(c) /\ policies' \in {policies, Edited(c)}
    /\ overwritten' = (overwritten \/ policies \ (req[c].tree \cup policies') # {})
    /\ UNCHANGED <<grantVars, operators, kong, contact, drawn, contested, retired, orphaned,
                   reused, sagas, url, ops>>

ensure_grafana_connections(c) ==
    _provision_contact_point(c) \/ _get_policy_tree(c) \/ _provision_sub_policy(c)

\* One completed step is undone, by the operator's name: whatever bears it goes.
Undo(s, n) ==
    \/ s = 3 /\ operators' = operators \ Rows(n) /\ UNCHANGED kong
    \/ s = 2 /\ kong' = [kong EXCEPT ![n].keys = {}] /\ UNCHANGED operators
    \/ s = 1 /\ kong' = [kong EXCEPT ![n] = Consumerless] /\ UNCHANGED operators

\* A step whose undoing fails is logged, and the rollback goes on.  Grafana is
\* the last step and nothing can fail after it, so it is never among them.
_rollback_provisioning(c) ==
    LET r == req[c] IN
    /\ At(c, "rollback")
    /\ IF r.done = 0
       THEN End(c) /\ UNCHANGED <<operators, kong, faults, contested>>
       ELSE /\ Put(c, [r EXCEPT !.done = @ - 1])
            /\ \/ Undo(r.done, r.name) /\ UNCHANGED <<faults, contested>>
               \/ Fault /\ contested' = contested \cup {r.name} /\ UNCHANGED <<operators, kong>>
    /\ UNCHANGED <<grantVars, contact, policies, drawn, retired, orphaned, reused, overwritten, sagas,
                   url, ops>>

\* DELETE /operators/{id}: the row only; the caller is an admin of its tenant.
delete_operator_endpoint(c) ==
    \E o \in operators :
        /\ req[c] = Idle /\ ops < MaxOps /\ ops' = ops + 1
        /\ resolve_tenant_role(c, o.tenant) >= admin
        /\ operators' = operators \ {o}
        /\ retired' = retired \cup {o.name} /\ orphaned' = orphaned \ {o.name}
        /\ contested' = IF InFlight(o.name) # {} THEN contested \cup {o.name} ELSE contested
        /\ UNCHANGED <<grantVars, kong, contact, policies, drawn, reused, overwritten, sagas,
                       url, req, faults>>

\* The gateway is restarted with another console URL.
ConsoleMoves ==
    /\ url = 1 /\ url' = 2 /\ Fault
    /\ \A c \in Callers : req[c] = Idle
    /\ UNCHANGED <<grantVars, sagaVars, req, ops>>

Next ==
    \/ \E c \in Callers :
        \/ create_tenant_endpoint(c) \/ Authorize(c) \/ update_tenant_endpoint(c)
        \/ add_role_endpoint(c) \/ add_grant(c) \/ remove_role_endpoint(c)
        \/ create_operator_endpoint(c) \/ ensure_consumer(c) \/ create_or_update_api_key(c)
        \/ InsertOperator(c) \/ ensure_grafana_connections(c) \/ _rollback_provisioning(c)
        \/ delete_operator_endpoint(c)
    \/ ConsoleMoves

Spec == Init /\ [][Next]_vars

(***************************************************************************)
(* Properties                                                              *)
(***************************************************************************)
Keys == 1..MaxKeys
\* Types; names and groups of operators, and names of tenants, are unique
\* (uq_operator_name, uq_operator_group, and the tenant's name).
TypeOK ==
    /\ tenant \in [TenantIds -> TenantNames \cup {None}]
    /\ \A t, u \in Existing : tenant[t] = tenant[u] => t = u
    /\ grant \in [TenantIds -> [Subjects -> 0..admin]]
    /\ operators \subseteq [name : OpNames, group : Groups, tenant : TenantIds, apikey : Keys]
    /\ \A o, p \in operators : o.name = p.name \/ o.group = p.group => o = p
    /\ kong \in [OpNames -> [id : 0..MaxKeys, keys : SUBSET Keys]]
    /\ contact \in [OpNames -> [url : 0..2, cred : 0..MaxKeys]]
    /\ policies \subseteq OpNames /\ url \in 1..2 /\ drawn \in 0..MaxKeys
    /\ req \in [Callers -> [pc : PCs, t : TenantIds \cup {None}, s : Subjects \cup {None},
                             role : 0..admin, found : BOOLEAN, name : OpNames \cup {None},
                             group : Groups \cup {None}, done : 0..3, consumer : 0..MaxKeys,
                             key : 0..MaxKeys, tree : SUBSET OpNames]]
    /\ ops \in 0..MaxOps /\ sagas \in 0..MaxSagas /\ faults \in 0..MaxFaults
    /\ excused \subseteq TenantIds /\ overwritten \in BOOLEAN
    /\ contested \subseteq OpNames /\ retired \subseteq OpNames /\ orphaned \subseteq OpNames
    /\ reused \subseteq OpNames

\* A tenant loses its last admin only to a superadmin, or to somebody whose own
\* admin grant was removed after require_tenant_admin let the request through:
\* _guard_self_modification keeps every other request from locking the tenant.
LockoutNeedsStaleAuthority ==
    \A t \in Existing \ excused : \E s \in Subjects : grant[t][s] = admin

\* Once nobody provisions a name, Kong accepts exactly the key of its row: the
\* saga replaces what Kong generated without showing it, and a failed saga
\* leaves no credential behind.  A row whose insertion failed after it was stored
\* is left without any key: the rollback undoes the steps before it, not it.
\* Contested names (a second provisioning of the name, an undoing that failed)
\* and names whose operator was deleted are excepted: deletion leaves Kong's
\* consumer as it is.
KongFollowsRows ==
    \A n \in OpNames \ contested :
        InFlight(n) = {} =>
            \/ kong[n].keys = IF n \in orphaned THEN {} ELSE {o.apikey : o \in Rows(n)}
            \/ Rows(n) = {} /\ n \in retired

\* An operator whose provisioning succeeded has a contact point with its key and
\* a sub-policy that routes to it.  The key may be an older operator's where a
\* contact point of that name was left behind, and the sub-policy may be gone
\* where two provisionings overlapped between reading and writing the tree.
OperatorIsWired ==
    \A o \in operators :
        InFlight(o.name) = {} /\ o.name \notin contested \cup orphaned =>
            /\ contact[o.name] # NoContact
            /\ contact[o.name].cred = o.apikey \/ o.name \in reused
            /\ o.name \in policies \/ overwritten

\* The database, Kong and Grafana agree on the operators.
OperatorsAgree == TypeOK /\ KongFollowsRows /\ OperatorIsWired

=============================================================================
