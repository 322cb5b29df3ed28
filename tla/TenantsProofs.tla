--------------------------- MODULE TenantsProofs ---------------------------
(***************************************************************************)
(* The invariants of the module Tenants, for every set of tenants,         *)
(* callers, subjects and operator names.                                   *)
(*                                                                         *)
(* That a tenant keeps an admin rests on what a request still knows of its *)
(* caller when it changes a grant.  That Kong, the database and Grafana    *)
(* agree on an operator rests on what the saga of its name has done at     *)
(* each step, on the way there and on the way back; a name that no second  *)
(* request works on is in the hands of one saga at a time.                 *)
(***************************************************************************)
EXTENDS Tenants, TLAPS

Requests == [pc : PCs, t : TenantIds \cup {None}, s : Subjects \cup {None}, role : 0..admin, found : BOOLEAN,
             name : OpNames \cup {None}, group : Groups \cup {None}, done : 0..3, consumer : 0..MaxKeys,
             key : 0..MaxKeys, tree : SUBSET OpNames]
OnGrants == {"rename", "add", "grant", "remove"}

\* The steps that are complete at each step of a saga.
DoneAt(pc, done) ==
    /\ pc \in {"consumer", "postConsumer"} => done = 0
    /\ pc \in {"keys", "postKey", "keysAgain", "explicitKey"} => done = 1
    /\ pc = "row" => done = 2
    /\ pc \in {"contact", "policies", "putPolicies"} => done = 3

\* What the request of a caller holds at each of its steps.
Held(c, r) ==
    /\ r \in Requests
    /\ r.pc \notin SagaPCs => r.name = None
    /\ r.pc \in OnGrants => r.t \in TenantIds
    /\ r.pc = "grant" => r.s \in Subjects /\ r.role \in Roles /\ _guard_self_modification(c, r.s)
    /\ r.pc \in SagaPCs => r.name \in OpNames /\ r.group \in Groups /\ r.t \in TenantIds
    /\ DoneAt(r.pc, r.done)
    /\ r.pc \in {"row", "contact", "policies", "putPolicies"} => r.key \in Keys

Asked ==
    /\ req \in [Callers -> Requests]
    /\ \A c \in Callers : Held(c, req[c]) /\ (req[c].pc \in OnGrants => tenant[req[c].t] # None)

OperatorRows == [name : OpNames, group : Groups, tenant : TenantIds, apikey : Keys]

Typed ==
    /\ tenant \in [TenantIds -> TenantNames \cup {None}]
    /\ grant \in [TenantIds -> [Subjects -> 0..admin]]
    /\ operators \subseteq OperatorRows
    /\ kong \in [OpNames -> [id : 0..MaxKeys, keys : SUBSET Keys]]
    /\ contact \in [OpNames -> [url : 0..2, cred : 0..MaxKeys]]
    /\ policies \subseteq OpNames /\ url \in 1..2 /\ drawn \in 0..MaxKeys
    /\ ops \in 0..MaxOps /\ sagas \in 0..MaxSagas /\ faults \in 0..MaxFaults
    /\ excused \subseteq TenantIds /\ overwritten \in BOOLEAN
    /\ contested \subseteq OpNames /\ retired \subseteq OpNames /\ orphaned \subseteq OpNames /\ reused \subseteq OpNames

TenantNamesDiffer == \A t, u \in TenantIds : tenant[t] # None /\ tenant[t] = tenant[u] => t = u
RowsDiffer == \A o, p \in operators : o.name = p.name \/ o.group = p.group => o = p

\* A name at rest: Kong has the key of its row, and Grafana routes to it.
Quiet(n) ==
    /\ Rows(n) = {} => n \notin orphaned /\ (kong[n].keys = {} \/ n \in retired)
    /\ n \in orphaned => kong[n].keys = {}
    /\ n \notin orphaned => \A o \in Rows(n) :
          /\ kong[n].keys = {o.apikey}
          /\ contact[n] # NoContact
          /\ contact[n].cred = o.apikey \/ n \in reused
          /\ n \in policies \/ overwritten

\* A name in the hands of one saga, which has come to the step pc, completed done steps and has key.
Worked(n, pc, done, key) ==
    /\ n \in orphaned => pc = "rollback" /\ done # 3 /\ Rows(n) # {}
    /\ done # 3 /\ n \notin orphaned => Rows(n) = {}
    /\ done = 3 => kong[n].keys = {key} /\ \E o \in Rows(n) : o.apikey = key
    /\ done = 0 => kong[n].keys = {} \/ (n \in retired /\ n \notin orphaned)
    /\ pc \in {"postKey", "explicitKey"} => kong[n].keys = {}
    /\ pc = "row" => kong[n].keys = {key}
    /\ pc \in SagaPCs \ {"policies", "putPolicies", "rollback"} => contact[n] = NoContact \/ n \in reused
    /\ pc \in {"policies", "putPolicies"} =>
          contact[n] # NoContact /\ (contact[n].cred = key \/ n \in reused)

Alone(c, n) == \A d \in Callers \ {c} : req[d].name # n

NamesInOrder ==
    \A n \in OpNames \ contested :
        /\ (\A c \in Callers : req[c].name # n) => Quiet(n)
        /\ \A c \in Callers : req[c].name = n =>
              Alone(c, n) /\ Worked(n, req[c].pc, req[c].done, req[c].key)

TenantsInv ==
    /\ Typed /\ TenantNamesDiffer /\ RowsDiffer
    /\ Asked /\ LockoutNeedsStaleAuthority /\ NamesInOrder

-----------------------------------------------------------------------------
(* Roles. *)

\* Strongest is the greatest of a set of strengths.
LEMMA StrongestIs ==
    ASSUME NEW S \in SUBSET (0..3), S # {}
    PROVE  Strongest(S) \in S /\ \A q \in S : q <= Strongest(S)
<1>1. \E r \in S : \A q \in S : q <= r
  <2>1. CASE 3 \in S
    BY <2>1
  <2>2. CASE 3 \notin S /\ 2 \in S
    BY <2>2
  <2>3. CASE 3 \notin S /\ 2 \notin S /\ 1 \in S
    BY <2>3
  <2>4. CASE 3 \notin S /\ 2 \notin S /\ 1 \notin S
    <3>1. \A q \in S : q = 0
      BY <2>4
    <3>2. PICK r \in S : r = 0
      BY <3>1
    <3>3. 0 <= 0
      OBVIOUS
    <3> QED
      BY <3>1, <3>2, <3>3, Zenon
  <2> QED
    BY <2>1, <2>2, <2>3, <2>4
<1> QED
  BY <1>1 DEF Strongest

\* Who is an admin of a tenant has an admin grant on it.
LEMMA AdminHasGrant ==
    ASSUME NEW c \in Callers, NEW t \in TenantIds, grant \in [TenantIds -> [Subjects -> 0..admin]],
           ~(get_tenant_role_for_subjects(t, SubjectsOf[c]) < admin)
    PROVE  \E s \in SubjectsOf[c] : s \in Subjects /\ grant[t][s] = admin
<1>1. SubjectsOf[c] \subseteq Subjects
  BY TenantsAssumption
<1>2. PICK S : S = {0} \cup {grant[t][s] : s \in SubjectsOf[c]}
  OBVIOUS
<1>3. S \in SUBSET (0..3) /\ S # {}
  BY <1>1, <1>2 DEF admin
<1>4. Strongest(S) \in S
  BY <1>3, StrongestIs
<1>5. ~(Strongest(S) < 3)
  BY <1>2 DEF get_tenant_role_for_subjects, admin
<1>6. Strongest(S) = 3
  <2>1. PICK m \in 0..3 : m = Strongest(S)
    BY <1>3, <1>4
  <2> QED
    BY <1>5, <2>1
<1>7. \E s \in SubjectsOf[c] : grant[t][s] = 3
  BY <1>2, <1>4, <1>6
<1> QED
  BY <1>1, <1>7 DEF admin

\* Whoever changes the grant of a subject on a tenant is no longer an admin of it, is a superadmin,
\* or keeps an admin grant of their own.
LEMMA GuardedChange ==
    ASSUME TenantsInv, NEW c \in Callers, NEW t \in TenantIds, NEW s \in Subjects, NEW role \in 0..admin,
           _guard_self_modification(c, s),
           grant' = [grant EXCEPT ![t][s] = role], Excuse(c, t), UNCHANGED tenant
    PROVE  LockoutNeedsStaleAuthority' /\ grant' \in [TenantIds -> [Subjects -> 0..admin]] /\ excused' \subseteq TenantIds
<1>1. grant \in [TenantIds -> [Subjects -> 0..admin]] /\ excused \subseteq TenantIds
  BY DEF TenantsInv, Typed
<1>2. grant' \in [TenantIds -> [Subjects -> 0..admin]]
  BY <1>1
<1>3. excused \subseteq excused' /\ excused' \subseteq TenantIds
  BY <1>1 DEF Excuse
<1>4. \A u \in TenantIds \ {t} : grant'[u] = grant[u]
  BY <1>1
<1>5. \A r \in Subjects \ {s} : grant'[t][r] = grant[t][r]
  BY <1>1
<1>6. ASSUME t \notin excused'
      PROVE  \E r \in Subjects : grant'[t][r] = admin
  <2>1. c \notin Superadmins /\ ~(get_tenant_role_for_subjects(t, SubjectsOf[c]) < admin)
    BY <1>6 DEF Excuse
  <2>2. PICK r \in SubjectsOf[c] : r \in Subjects /\ grant[t][r] = admin
    BY <1>1, <2>1, AdminHasGrant
  <2>3. r # s
    BY <2>1, <2>2 DEF _guard_self_modification
  <2> QED
    BY <1>5, <2>2, <2>3
<1>7. ASSUME NEW u \in Existing' \ excused'
      PROVE  \E r \in Subjects : grant'[u][r] = admin
  <2>1. u \in TenantIds /\ u \in Existing \ excused
    BY <1>3 DEF Existing
  <2> QED
    BY <1>4, <1>6, <2>1 DEF TenantsInv, LockoutNeedsStaleAuthority
<1> QED
  BY <1>2, <1>3, <1>7 DEF LockoutNeedsStaleAuthority

-----------------------------------------------------------------------------
(* One request moves. *)

LEMMA IdleHeld ==
    ASSUME NEW c \in Callers
    PROVE  Held(c, Idle) /\ Idle.pc = "idle" /\ Idle.name = None
<1>1. Idle.pc = "idle" /\ Idle.name = None
  BY DEF Idle
<1>2. Idle \in Requests
  <2>1. "idle" \in PCs /\ 0 \in 0..admin /\ 0 \in 0..3 /\ 0 \in 0..MaxKeys
    BY TenantsAssumption DEF PCs, admin
  <2> QED
    BY <2>1 DEF Idle, Requests
<1>3. Idle.pc \notin SagaPCs \cup OnGrants
  BY <1>1 DEF SagaPCs, OnGrants
<1>4. DoneAt(Idle.pc, Idle.done)
  BY <1>1 DEF DoneAt
<1>5. Idle.pc \notin {"grant", "row", "contact", "policies", "putPolicies"}
  BY <1>1
<1> QED
  BY <1>1, <1>2, <1>3, <1>4, <1>5, Zenon DEF Held

\* The requests after a step of one of them; tenants are never removed.
LEMMA AskedStep ==
    ASSUME Asked, NEW c \in Callers, NEW x, Held(c, x), req' = [req EXCEPT ![c] = x],
           \A t \in TenantIds : tenant[t] # None => tenant'[t] # None,
           x.pc \in OnGrants => tenant'[x.t] # None
    PROVE  /\ Asked'
           /\ req'[c] = x /\ \A d \in Callers \ {c} : req'[d] = req[d]
<1>1. req'[c] = x /\ \A d \in Callers \ {c} : req'[d] = req[d]
  BY DEF Asked
<1>2. req' \in [Callers -> Requests]
  BY DEF Asked, Held
<1>3. ASSUME NEW d \in Callers
      PROVE  Held(d, req'[d]) /\ (req'[d].pc \in OnGrants => tenant'[req'[d].t] # None)
  <2>1. CASE d = c
    BY <2>1, <1>1
  <2>2. CASE d # c
    <3>1. Held(d, req[d]) /\ (req[d].pc \in OnGrants => tenant[req[d].t] # None)
      BY DEF Asked
    <3>2. req[d].pc \in OnGrants => req[d].t \in TenantIds
      BY <3>1 DEF Held
    <3> QED
      BY <1>1, <2>2, <3>1, <3>2
  <2> QED
    BY <2>1, <2>2
<1> QED
  BY <1>1, <1>2, <1>3 DEF Asked, Held

\* The names after a step on one of them.
LEMMA NamesStep ==
    ASSUME NamesInOrder, NEW c \in Callers, NEW n \in OpNames, NEW x,
           req'[c] = x, \A d \in Callers \ {c} : req'[d] = req[d],
           req[c].name \in {n, None}, x.name \in {n, None},
           \A m \in OpNames \ {n} : /\ Rows(m)' = Rows(m) /\ kong'[m] = kong[m] /\ contact'[m] = contact[m]
                                    /\ (m \in retired' <=> m \in retired) /\ (m \in reused' <=> m \in reused)
                                    /\ (m \in orphaned' <=> m \in orphaned)
                                    /\ (m \in policies => m \in policies' \/ overwritten'),
           contested \subseteq contested', overwritten => overwritten',
           n \notin contested' /\ x.name = n => Alone(c, n) /\ Worked(n, x.pc, x.done, x.key)',
           n \notin contested' /\ x.name # n /\ Alone(c, n) => Quiet(n)',
           n \notin contested' /\ x.name # n => Alone(c, n)
    PROVE  NamesInOrder'
<1>0. n # None /\ None \notin OpNames
  BY TenantsAssumption
<1>1. ASSUME NEW m \in OpNames, m \notin contested', \A d \in Callers : req'[d].name # m
      PROVE  Quiet(m)'
  <2>1. CASE m = n
    BY <1>1, <2>1 
  <2>2. CASE m # n
    <3>1. \A d \in Callers : req[d].name # m
      BY <1>0, <1>1, <2>2
    <3>2. Quiet(m)
      BY <1>1, <3>1 DEF NamesInOrder
    <3> QED
      BY <2>2, <3>2 DEF Quiet
  <2> QED
    BY <2>1, <2>2
<1>2. ASSUME NEW m \in OpNames, m \notin contested', NEW e \in Callers, req'[e].name = m
      PROVE  Alone(e, m)' /\ Worked(m, req[e].pc, req[e].done, req[e].key)'
  <2>1. CASE m = n
    <3>1. CASE e = c
      BY <1>2, <2>1, <3>1 DEF Alone, Worked
    <3>2. CASE e # c
      BY <1>2, <2>1, <3>2 DEF Alone
    <3> QED
      BY <3>1, <3>2
  <2>2. CASE m # n
    <3>1. e # c /\ req[e].name = m
      BY <1>0, <1>2, <2>2
    <3>2. Alone(e, m) /\ Worked(m, req[e].pc, req[e].done, req[e].key)
      BY <1>2, <3>1 DEF NamesInOrder
    <3>3. Alone(e, m)'
      BY <1>0, <2>2, <3>2 DEF Alone
    <3>4. req'[e] = req[e]
      BY <3>1
    <3>5. Worked(m, req[e].pc, req[e].done, req[e].key)'
      BY <2>2, <3>2, <3>4 DEF Worked
    <3> QED
      BY <3>3, <3>5
  <2> QED
    BY <2>1, <2>2
<1> QED
  BY <1>1, <1>2 DEF NamesInOrder

\* No saga and no row is touched.
LEMMA NamesKept ==
    ASSUME NamesInOrder, NEW c \in Callers, NEW x,
           req'[c] = x, \A d \in Callers \ {c} : req'[d] = req[d],
           req[c].name = None, x.name = None, UNCHANGED sagaVars
    PROVE  NamesInOrder'
<1>0. None \notin OpNames
  BY TenantsAssumption
<1>1. UNCHANGED <<operators, kong, contact, policies, contested, retired, orphaned, reused, overwritten>>
  BY DEF sagaVars, history
<1>2. ASSUME NEW n \in OpNames \ contested, \A d \in Callers : req'[d].name # n
      PROVE  Quiet(n)'
  <2>1. \A d \in Callers : req[d].name # n
    BY <1>0, <1>2
  <2>2. Quiet(n)
    BY <2>1 DEF NamesInOrder
  <2> QED
    BY <1>1, <2>2 DEF Quiet, Rows
<1>3. ASSUME NEW n \in OpNames \ contested, NEW e \in Callers, req'[e].name = n
      PROVE  Alone(e, n)' /\ Worked(n, req[e].pc, req[e].done, req[e].key)'
  <2>1. e # c /\ req'[e] = req[e] /\ req[e].name = n
    BY <1>0, <1>3
  <2>2. Alone(e, n) /\ Worked(n, req[e].pc, req[e].done, req[e].key)
    BY <2>1 DEF NamesInOrder
  <2>3. Alone(e, n)'
    BY <1>0, <2>2 DEF Alone
  <2>4. Worked(n, req[e].pc, req[e].done, req[e].key)'
    BY <1>1, <2>1, <2>2 DEF Worked, Rows
  <2> QED
    BY <2>3, <2>4
<1> QED
  BY <1>1, <1>2, <1>3 DEF NamesInOrder

-----------------------------------------------------------------------------
(* Tenants and grants. *)

\* What does not depend on tenants and grants.
LEMMA SagaVarsKept ==
    ASSUME Typed, RowsDiffer, UNCHANGED <<sagaVars, url>>, faults' \in 0..MaxFaults, ops' \in 0..MaxOps,
           tenant' \in [TenantIds -> TenantNames \cup {None}], grant' \in [TenantIds -> [Subjects -> 0..admin]],
           excused' \subseteq TenantIds
    PROVE  Typed' /\ RowsDiffer'
BY DEF Typed, RowsDiffer, sagaVars, history

LEMMA CountedOp ==
    ASSUME Typed, ops < MaxOps, ops' = ops + 1
    PROVE  ops' \in 0..MaxOps
BY TenantsAssumption DEF Typed

LEMMA CreateTenantKeepsInv ==
    ASSUME TenantsInv, NEW c \in Callers, create_tenant_endpoint(c)
    PROVE  TenantsInv'
<1>1. PICK t \in TenantIds \ Existing, name \in TenantNames, roles \in Assignments :
        /\ ops < MaxOps /\ ops' = ops + 1 /\ NameFree(name)
        /\ \E s \in Subjects : roles[s] = admin
        /\ tenant' = [tenant EXCEPT ![t] = name]
        /\ grant' = [grant EXCEPT ![t] = roles]
        /\ UNCHANGED <<excused, sagaVars, url, req, faults>>
  BY DEF create_tenant_endpoint
<1>2. roles \in [Subjects -> 0..admin]
  BY TenantsAssumption DEF admin
<1>3. tenant[t] = None /\ name # None
  BY TenantsAssumption DEF Existing
<1>4. /\ tenant'[t] = name /\ \A u \in TenantIds \ {t} : tenant'[u] = tenant[u]
      /\ grant'[t] = roles /\ \A u \in TenantIds \ {t} : grant'[u] = grant[u]
      /\ tenant' \in [TenantIds -> TenantNames \cup {None}]
      /\ grant' \in [TenantIds -> [Subjects -> 0..admin]]
  BY <1>1, <1>2 DEF TenantsInv, Typed
<1>5. ops' \in 0..MaxOps
  BY <1>1, CountedOp DEF TenantsInv
<1>6. faults' \in 0..MaxFaults /\ excused' \subseteq TenantIds
  BY <1>1 DEF TenantsInv, Typed
<1>7. Typed' /\ RowsDiffer'
  BY <1>1, <1>4, <1>5, <1>6, SagaVarsKept DEF TenantsInv
<1>8. TenantNamesDiffer'
  <2>1. \A u \in TenantIds : tenant[u] # None => tenant[u] # name
    BY <1>1 DEF NameFree, Existing
  <2> QED
    BY <1>3, <1>4, <2>1 DEF TenantsInv, TenantNamesDiffer
<1>9. LockoutNeedsStaleAuthority'
  <2>1. ASSUME NEW u \in TenantIds, tenant'[u] # None, u \notin excused
        PROVE  \E s \in Subjects : grant'[u][s] = admin
    <3>1. CASE u = t
      BY <1>1, <1>4, <3>1
    <3>2. CASE u # t
      BY <1>4, <2>1, <3>2 DEF TenantsInv, LockoutNeedsStaleAuthority, Existing
    <3> QED
      BY <3>1, <3>2
  <2> QED
    BY <1>1, <2>1 DEF LockoutNeedsStaleAuthority, Existing
<1>10. Asked'
  <2>1. \A u \in TenantIds : tenant[u] # None => tenant'[u] # None
    BY <1>3, <1>4
  <2>2. \A d \in Callers : req[d].pc \in OnGrants => req[d].t \in TenantIds
    BY DEF TenantsInv, Asked, Held
  <2> QED
    BY <1>1, <2>1, <2>2 DEF TenantsInv, Asked, Held
<1>11. NamesInOrder'
  BY <1>1 DEF TenantsInv, NamesInOrder, sagaVars, history, Quiet, Worked, Rows, Alone
<1> QED
  BY <1>7, <1>8, <1>9, <1>10, <1>11 DEF TenantsInv

\* A step of a request on a tenant, which touches no saga.
LEMMA TenantStep ==
    ASSUME TenantsInv, NEW c \in Callers, NEW x, Held(c, x), x.pc \notin SagaPCs, req[c].pc \notin SagaPCs,
           req' = [req EXCEPT ![c] = x], x.pc \in OnGrants => tenant'[x.t] # None,
           UNCHANGED <<sagaVars, url, faults>>, ops' \in 0..MaxOps,
           tenant' \in [TenantIds -> TenantNames \cup {None}], TenantNamesDiffer',
           \A t \in TenantIds : tenant[t] # None => tenant'[t] # None,
           grant' \in [TenantIds -> [Subjects -> 0..admin]], excused' \subseteq TenantIds,
           LockoutNeedsStaleAuthority'
    PROVE  TenantsInv'
<1>1. Asked' /\ req'[c] = x /\ \A d \in Callers \ {c} : req'[d] = req[d]
  BY AskedStep DEF TenantsInv
<1>2. x.name = None /\ req[c].name = None
  BY DEF TenantsInv, Asked, Held
<1>3. NamesInOrder'
  BY <1>1, <1>2, NamesKept DEF TenantsInv
<1>4. faults' \in 0..MaxFaults
  BY DEF TenantsInv, Typed
<1>5. Typed' /\ RowsDiffer'
  BY <1>4, SagaVarsKept DEF TenantsInv
<1> QED
  BY <1>1, <1>3, <1>5 DEF TenantsInv

\* The same, for a step that leaves tenants and grants as they are.
LEMMA GrantsKept ==
    ASSUME TenantsInv, UNCHANGED grantVars
    PROVE  /\ tenant' \in [TenantIds -> TenantNames \cup {None}] /\ TenantNamesDiffer'
           /\ \A t \in TenantIds : tenant[t] # None => tenant'[t] # None
           /\ grant' \in [TenantIds -> [Subjects -> 0..admin]] /\ excused' \subseteq TenantIds
           /\ LockoutNeedsStaleAuthority'
BY DEF TenantsInv, Typed, TenantNamesDiffer, LockoutNeedsStaleAuthority, Existing, grantVars

LEMMA AuthorizeKeepsInv ==
    ASSUME TenantsInv, NEW c \in Callers, Authorize(c)
    PROVE  TenantsInv'
<1>1. PICK t \in Existing, op \in {"rename", "add", "remove"} :
        Begin(c, [Idle EXCEPT !.pc = op, !.t = t]) /\ UNCHANGED <<grantVars, sagaVars, url, faults>>
  BY DEF Authorize
<1>2. PICK x : x = [Idle EXCEPT !.pc = op, !.t = t]
  OBVIOUS
<1>3. x.pc = op /\ x.t = t /\ x.name = None /\ t \in TenantIds /\ tenant[t] # None
  BY <1>2 DEF Idle, Existing
<1>4. Held(c, x)
  <2>1. op \in PCs /\ op \notin SagaPCs /\ op \in OnGrants
        /\ op \notin {"grant", "row", "contact", "policies", "putPolicies"} /\ DoneAt(op, x.done)
    BY DEF PCs, SagaPCs, OnGrants, DoneAt
  <2>2. Idle \in Requests
    BY IdleHeld DEF Held
  <2>3. x \in Requests
    BY <1>2, <1>3, <2>1, <2>2 DEF Requests
  <2> QED
    BY <1>3, <2>1, <2>3, Zenon DEF Held
<1>5. req[c] = Idle /\ req' = [req EXCEPT ![c] = x] /\ ops' \in 0..MaxOps
  BY <1>1, <1>2, CountedOp DEF Begin, TenantsInv
<1>6. req[c].pc \notin SagaPCs /\ x.pc \notin SagaPCs
  BY <1>3, <1>5, IdleHeld DEF SagaPCs
<1>7. x.pc \in OnGrants => tenant'[x.t] # None
  BY <1>1, <1>3 DEF grantVars
<1> QED
  BY <1>1, <1>4, <1>5, <1>6, <1>7, TenantStep, GrantsKept

\* A request on a tenant ends.
LEMMA EndOnTenant ==
    ASSUME NEW c \in Callers, End(c)
    PROVE  \E x : Held(c, x) /\ x.pc \notin SagaPCs /\ x.pc \notin OnGrants /\ req' = [req EXCEPT ![c] = x]
<1>1. PICK x : x = Idle
  OBVIOUS
<1>2. Held(c, x) /\ x.pc = "idle"
  BY <1>1, IdleHeld
<1> QED
  BY <1>1, <1>2 DEF End, SagaPCs, OnGrants

LEMMA UpdateTenantKeepsInv ==
    ASSUME TenantsInv, NEW c \in Callers, update_tenant_endpoint(c)
    PROVE  TenantsInv'
<1>1. req[c].pc = "rename" /\ End(c) /\ UNCHANGED <<grant, excused, sagaVars, url, ops, faults>>
  BY DEF update_tenant_endpoint
<1>2. PICK x : Held(c, x) /\ x.pc \notin SagaPCs /\ x.pc \notin OnGrants /\ req' = [req EXCEPT ![c] = x]
  BY <1>1, EndOnTenant
<1>3. PICK t \in TenantIds : t = req[c].t /\ tenant[t] # None
  BY <1>1 DEF TenantsInv, Asked, Held, OnGrants
<1>4. req[c].pc \notin SagaPCs /\ ops' \in 0..MaxOps
  BY <1>1 DEF SagaPCs, TenantsInv, Typed
<1>5. CASE UNCHANGED tenant
  BY <1>1, <1>2, <1>4, <1>5, GrantsKept, TenantStep DEF grantVars
<1>6. ASSUME NEW name \in {n \in TenantNames : NameFree(n)}, tenant' = [tenant EXCEPT ![t] = name]
      PROVE  TenantsInv'
  <2>1. /\ tenant'[t] = name /\ \A u \in TenantIds \ {t} : tenant'[u] = tenant[u]
        /\ tenant' \in [TenantIds -> TenantNames \cup {None}]
    BY <1>6 DEF TenantsInv, Typed
  <2>2. name # None
    BY TenantsAssumption
  <2>3. \A u \in TenantIds : tenant[u] # None => tenant[u] # name
    BY DEF NameFree, Existing
  <2>4. TenantNamesDiffer'
    BY <2>1, <2>2, <2>3 DEF TenantsInv, TenantNamesDiffer
  <2>5. \A u \in TenantIds : tenant'[u] # None <=> tenant[u] # None
    BY <1>3, <2>1, <2>2
  <2>6. LockoutNeedsStaleAuthority'
    BY <1>1, <2>5 DEF TenantsInv, LockoutNeedsStaleAuthority, Existing
  <2>7. grant' \in [TenantIds -> [Subjects -> 0..admin]] /\ excused' \subseteq TenantIds
    BY <1>1 DEF TenantsInv, Typed
  <2> QED
    BY <1>1, <1>2, <1>4, <2>1, <2>4, <2>5, <2>6, <2>7, TenantStep
<1> QED
  BY <1>3, <1>5, <1>6 DEF update_tenant_endpoint

LEMMA AddRoleKeepsInv ==
    ASSUME TenantsInv, NEW c \in Callers, add_role_endpoint(c)
    PROVE  TenantsInv'
<1>1. PICK r : r = req[c]
  OBVIOUS
<1>2. PICK s \in Subjects, role \in Roles :
        /\ r.pc = "add" /\ _guard_self_modification(c, s)
        /\ req' = [req EXCEPT ![c] = [r EXCEPT !.pc = "grant", !.s = s, !.role = role, !.found = grant[r.t][s] # 0]]
        /\ UNCHANGED <<grantVars, sagaVars, url, ops, faults>>
  BY <1>1 DEF add_role_endpoint, Put
<1>3. Held(c, r) /\ r.t \in TenantIds /\ tenant[r.t] # None
  BY <1>1, <1>2 DEF TenantsInv, Asked, Held, OnGrants
<1>4. PICK found \in BOOLEAN : found = (grant[r.t][s] # 0)
  OBVIOUS
<1>5. PICK x : x = [r EXCEPT !.pc = "grant", !.s = s, !.role = role, !.found = found]
  OBVIOUS
<1>6. x.pc = "grant" /\ x.t = r.t /\ x.s = s /\ x.role = role /\ x.name = r.name /\ x.done = r.done
  BY <1>3, <1>5 DEF Held, Requests
<1>7. "grant" \in PCs /\ "grant" \notin SagaPCs /\ "grant" \in OnGrants /\ r.pc \notin SagaPCs
      /\ DoneAt("grant", r.done)
  BY <1>2 DEF PCs, SagaPCs, OnGrants, DoneAt
<1>8. x \in Requests
  <2>1. role \in 0..admin
    BY DEF Roles, viewer, admin
  <2> QED
    BY <1>3, <1>5, <1>7, <2>1 DEF Held, Requests
<1>9. Held(c, x)
  <2>1. r.name = None
    BY <1>3, <1>7 DEF Held
  <2> QED
    BY <1>2, <1>3, <1>6, <1>7, <1>8, <2>1, Zenon DEF Held
<1>10. req' = [req EXCEPT ![c] = x]
  BY <1>2, <1>4, <1>5
<1>11. ops' \in 0..MaxOps /\ tenant'[x.t] # None
  BY <1>2, <1>3, <1>6 DEF TenantsInv, Typed, grantVars
<1> QED
  BY <1>1, <1>2, <1>6, <1>7, <1>9, <1>10, <1>11, GrantsKept, TenantStep

LEMMA AddGrantKeepsInv ==
    ASSUME TenantsInv, NEW c \in Callers, add_grant(c)
    PROVE  TenantsInv'
<1>1. PICK r : r = req[c]
  OBVIOUS
<1>2. /\ r.pc = "grant" /\ End(c) /\ UNCHANGED <<tenant, sagaVars, url, ops, faults>>
      /\ IF r.found = (grant[r.t][r.s] # 0)
         THEN grant' = [grant EXCEPT ![r.t][r.s] = r.role] /\ Excuse(c, r.t)
         ELSE UNCHANGED <<grant, excused>>
  BY <1>1 DEF add_grant
<1>3. PICK x : Held(c, x) /\ x.pc \notin SagaPCs /\ x.pc \notin OnGrants /\ req' = [req EXCEPT ![c] = x]
  BY <1>2, EndOnTenant
<1>4. r.t \in TenantIds /\ r.s \in Subjects /\ r.role \in 0..admin /\ _guard_self_modification(c, r.s)
  BY <1>1, <1>2 DEF TenantsInv, Asked, Held, OnGrants, Requests
<1>5. req[c].pc \notin SagaPCs /\ ops' \in 0..MaxOps
  BY <1>1, <1>2 DEF SagaPCs, TenantsInv, Typed
<1>6. CASE UNCHANGED <<grant, excused>>
  BY <1>2, <1>3, <1>5, <1>6, GrantsKept, TenantStep DEF grantVars
<1>7. CASE grant' = [grant EXCEPT ![r.t][r.s] = r.role] /\ Excuse(c, r.t)
  <2>1. LockoutNeedsStaleAuthority' /\ grant' \in [TenantIds -> [Subjects -> 0..admin]] /\ excused' \subseteq TenantIds
    BY <1>2, <1>4, <1>7, GuardedChange
  <2>2. tenant' \in [TenantIds -> TenantNames \cup {None}] /\ TenantNamesDiffer'
        /\ \A t \in TenantIds : tenant[t] # None => tenant'[t] # None
    BY <1>2 DEF TenantsInv, Typed, TenantNamesDiffer
  <2> QED
    BY <1>2, <1>3, <1>5, <2>1, <2>2, TenantStep
<1> QED
  BY <1>2, <1>6, <1>7

LEMMA RemoveRoleKeepsInv ==
    ASSUME TenantsInv, NEW c \in Callers, remove_role_endpoint(c)
    PROVE  TenantsInv'
<1>1. PICK r : r = req[c]
  OBVIOUS
<1>2. PICK s \in Subjects :
        /\ r.pc = "remove" /\ _guard_self_modification(c, s) /\ End(c)
        /\ grant' = [grant EXCEPT ![r.t][s] = 0] /\ Excuse(c, r.t)
        /\ UNCHANGED <<tenant, sagaVars, url, ops, faults>>
  BY <1>1 DEF remove_role_endpoint
<1>3. PICK x : Held(c, x) /\ x.pc \notin SagaPCs /\ x.pc \notin OnGrants /\ req' = [req EXCEPT ![c] = x]
  BY <1>2, EndOnTenant
<1>4. r.t \in TenantIds /\ 0 \in 0..admin
  BY <1>1, <1>2 DEF TenantsInv, Asked, Held, OnGrants, admin
<1>5. req[c].pc \notin SagaPCs /\ ops' \in 0..MaxOps
  BY <1>1, <1>2 DEF SagaPCs, TenantsInv, Typed
<1>6. LockoutNeedsStaleAuthority' /\ grant' \in [TenantIds -> [Subjects -> 0..admin]] /\ excused' \subseteq TenantIds
  BY <1>2, <1>4, GuardedChange
<1>7. tenant' \in [TenantIds -> TenantNames \cup {None}] /\ TenantNamesDiffer'
      /\ \A t \in TenantIds : tenant[t] # None => tenant'[t] # None
  BY <1>2 DEF TenantsInv, Typed, TenantNamesDiffer
<1> QED
  BY <1>2, <1>3, <1>5, <1>6, <1>7, TenantStep

-----------------------------------------------------------------------------
(* The steps of a saga. *)

\* A saga moves on: what it is about stays.
LEMMA HeldOn ==
    ASSUME NEW c \in Callers, NEW r, Held(c, r), r.pc \in SagaPCs,
           NEW x \in Requests, x.pc \in SagaPCs, x.name = r.name, x.group = r.group, x.t = r.t,
           DoneAt(x.pc, x.done), x.pc \in {"row", "contact", "policies", "putPolicies"} => x.key \in Keys
    PROVE  Held(c, x) /\ x.pc \notin OnGrants /\ x.name \in OpNames
<1>1. x.pc \notin OnGrants /\ x.pc # "grant"
  BY DEF OnGrants, SagaPCs
<1>2. r.name \in OpNames /\ r.group \in Groups /\ r.t \in TenantIds
  BY DEF Held
<1> QED
  BY <1>1, <1>2, Zenon DEF Held

LEMMA GotoMoves ==
    ASSUME NEW c \in Callers, NEW r, Held(c, r), r.pc \in SagaPCs, r = req[c],
           NEW p \in SagaPCs, Goto(c, p), DoneAt(p, r.done),
           p \in {"row", "contact", "policies", "putPolicies"} => r.key \in Keys
    PROVE  \E x : /\ Held(c, x) /\ x.pc \notin OnGrants /\ req' = [req EXCEPT ![c] = x]
                  /\ x.pc = p /\ x.name = r.name /\ x.done = r.done /\ x.key = r.key
<1>1. PICK x : x = [r EXCEPT !.pc = p]
  OBVIOUS
<1>2. x.pc = p /\ x.name = r.name /\ x.done = r.done /\ x.key = r.key /\ x.group = r.group /\ x.t = r.t
  BY <1>1 DEF Held, Requests
<1>3. x \in Requests
  <2>1. p \in PCs
    BY DEF PCs
  <2> QED
    BY <1>1, <2>1 DEF Held, Requests
<1>4. Held(c, x) /\ x.pc \notin OnGrants
  BY <1>2, <1>3, HeldOn
<1> QED
  BY <1>1, <1>2, <1>4 DEF Goto, Put

LEMMA FailMoves ==
    ASSUME NEW c \in Callers, NEW r, Held(c, r), r.pc \in SagaPCs, r = req[c], Fail(c)
    PROVE  \E x : /\ Held(c, x) /\ x.pc \notin OnGrants /\ req' = [req EXCEPT ![c] = x]
                  /\ x.pc = "rollback" /\ x.name = r.name /\ x.done = r.done /\ x.key = r.key
<1>1. "rollback" \in SagaPCs /\ DoneAt("rollback", r.done)
      /\ "rollback" \notin {"row", "contact", "policies", "putPolicies"}
  BY DEF SagaPCs, DoneAt
<1> QED
  BY <1>1, GotoMoves DEF Fail

LEMMA CompleteMoves ==
    ASSUME NEW c \in Callers, NEW r, Held(c, r), r.pc \in SagaPCs, r = req[c],
           NEW p \in SagaPCs, NEW i \in 0..MaxKeys, NEW k \in 0..MaxKeys, NEW d \in 0..3, d = r.done + 1,
           Complete(c, p, i, k), DoneAt(p, d), p \in {"row", "contact", "policies", "putPolicies"} => k \in Keys
    PROVE  \E x : /\ Held(c, x) /\ x.pc \notin OnGrants /\ req' = [req EXCEPT ![c] = x]
                  /\ x.pc = p /\ x.name = r.name /\ x.done = d /\ x.key = k
<1>1. PICK x : x = [r EXCEPT !.pc = p, !.done = d, !.consumer = i, !.key = k]
  OBVIOUS
<1>2. x.pc = p /\ x.name = r.name /\ x.done = d /\ x.key = k /\ x.group = r.group /\ x.t = r.t
  BY <1>1 DEF Held, Requests
<1>3. x \in Requests
  <2>1. p \in PCs
    BY DEF PCs
  <2> QED
    BY <1>1, <2>1 DEF Held, Requests
<1>4. Held(c, x) /\ x.pc \notin OnGrants
  BY <1>2, <1>3, HeldOn
<1>5. req' = [req EXCEPT ![c] = x]
  BY <1>1 DEF Complete, Put, Held, Requests
<1> QED
  BY <1>2, <1>4, <1>5

\* A step of the saga of a name, which leaves every other name alone.
LEMMA SagaStep ==
    ASSUME TenantsInv, NEW c \in Callers, NEW r, r = req[c], NEW n \in OpNames, r.name = n,
           NEW x, Held(c, x), x.pc \notin OnGrants, x.name \in {n, None}, req' = [req EXCEPT ![c] = x],
           UNCHANGED grantVars, Typed', RowsDiffer',
           \A m \in OpNames \ {n} : /\ Rows(m)' = Rows(m) /\ kong'[m] = kong[m] /\ contact'[m] = contact[m]
                                    /\ (m \in policies => m \in policies' \/ overwritten'),
           contested \subseteq contested', \A m \in OpNames \ {n} : m \in contested' => m \in contested,
           retired' = retired, reused' = reused, overwritten => overwritten',
           \A m \in OpNames \ {n} : m \in orphaned' <=> m \in orphaned,
           n \notin contested' /\ Worked(n, r.pc, r.done, r.key) /\ x.name = n => Worked(n, x.pc, x.done, x.key)',
           n \notin contested' /\ Worked(n, r.pc, r.done, r.key) /\ x.name = None => Quiet(n)'
    PROVE  TenantsInv'
<1>0. n # None
  BY TenantsAssumption
<1>1. \A t \in TenantIds : tenant[t] # None => tenant'[t] # None
  BY DEF grantVars
<1>2. Asked' /\ req'[c] = x /\ \A d \in Callers \ {c} : req'[d] = req[d]
  BY <1>1, AskedStep DEF TenantsInv
<1>3. n \notin contested' => Alone(c, n) /\ Worked(n, r.pc, r.done, r.key)
  BY DEF TenantsInv, NamesInOrder
<1>4. NamesInOrder'
  BY <1>0, <1>2, <1>3, NamesStep DEF TenantsInv
<1>5. TenantNamesDiffer' /\ LockoutNeedsStaleAuthority'
  BY GrantsKept
<1> QED
  BY <1>2, <1>4, <1>5 DEF TenantsInv

\* A step that only reads, or whose call failed before it took effect.
LEMMA SagaReads ==
    ASSUME TenantsInv, NEW c \in Callers, NEW r, r = req[c], r.name \in OpNames,
           NEW x, Held(c, x), x.pc \notin OnGrants, x.name = r.name, req' = [req EXCEPT ![c] = x],
           UNCHANGED <<grantVars, sagaVars, url, ops>>, faults' \in 0..MaxFaults,
           Worked(r.name, r.pc, r.done, r.key) => Worked(r.name, x.pc, x.done, x.key)
    PROVE  TenantsInv'
<1>1. PICK n \in OpNames : n = r.name
  OBVIOUS
<1>2. UNCHANGED <<operators, kong, contact, policies, contested, retired, orphaned, reused, overwritten>>
  BY DEF sagaVars, history
<1>3. \A m \in OpNames : Rows(m)' = Rows(m)
  BY <1>2 DEF Rows
<1>4. Typed' /\ RowsDiffer'
  <2>1. /\ tenant' \in [TenantIds -> TenantNames \cup {None}] /\ grant' \in [TenantIds -> [Subjects -> 0..admin]]
        /\ excused' \subseteq TenantIds
    BY GrantsKept
  <2>2. ops' \in 0..MaxOps
    BY DEF TenantsInv, Typed
  <2> QED
    BY <2>1, <2>2, SagaVarsKept DEF TenantsInv
<1>5. Worked(n, r.pc, r.done, r.key) => Worked(n, x.pc, x.done, x.key)'
  <2>1. Worked(n, x.pc, x.done, x.key) => Worked(n, x.pc, x.done, x.key)'
    BY <1>2, <1>3 DEF Worked
  <2> QED
    BY <1>1, <2>1
<1>6. x.name # None
  BY TenantsAssumption
<1> QED
  BY <1>1, <1>2, <1>3, <1>4, <1>5, <1>6, SagaStep

\* A saga that fails keeps what it has completed.
LEMMA FailWorked ==
    ASSUME NEW n \in OpNames, NEW pc, NEW done, NEW key, Worked(n, pc, done, key)
    PROVE  Worked(n, "rollback", done, key)
<1>1. "rollback" \notin {"postKey", "explicitKey", "row", "policies", "putPolicies"}
      /\ "rollback" \notin SagaPCs \ {"policies", "putPolicies", "rollback"}
  BY DEF SagaPCs
<1> QED
  BY <1>1 DEF Worked

LEMMA Faulted ==
    ASSUME TenantsInv, Fault \/ UNCHANGED faults
    PROVE  faults' \in 0..MaxFaults
BY TenantsAssumption DEF TenantsInv, Typed, Fault

LEMMA FailReads ==
    ASSUME TenantsInv, NEW c \in Callers, NEW r, r = req[c], r.pc \in SagaPCs, Fail(c), Fault \/ UNCHANGED faults,
           UNCHANGED <<grantVars, sagaVars, url, ops>>
    PROVE  TenantsInv'
<1>1. Held(c, r) /\ r.name \in OpNames
  BY DEF TenantsInv, Asked, Held
<1>2. PICK x : /\ Held(c, x) /\ x.pc \notin OnGrants /\ req' = [req EXCEPT ![c] = x]
               /\ x.pc = "rollback" /\ x.name = r.name /\ x.done = r.done /\ x.key = r.key
  BY <1>1, FailMoves
<1>3. Worked(r.name, r.pc, r.done, r.key) => Worked(r.name, x.pc, x.done, x.key)
  BY <1>1, <1>2, FailWorked
<1> QED
  BY <1>1, <1>2, <1>3, Faulted, SagaReads

LEMMA EnsureConsumerKeepsInv ==
    ASSUME TenantsInv, NEW c \in Callers, _ensure_consumer(c)
    PROVE  TenantsInv'
<1>1. PICK r : r = req[c]
  OBVIOUS
<1>2. PICK n : n = r.name
  OBVIOUS
<1>3. r.pc = "consumer" /\ r.pc \in SagaPCs /\ UNCHANGED <<grantVars, sagaVars, url, ops>>
  BY <1>1 DEF _ensure_consumer, At, SagaPCs
<1>4. Held(c, r) /\ n \in OpNames /\ r.done = 0
  BY <1>1, <1>2, <1>3 DEF TenantsInv, Asked, Held, DoneAt
<1>5. CASE kong[n].id # 0 /\ Complete(c, "keys", kong[n].id, 0) /\ UNCHANGED faults
  <2>1. PICK i \in 0..MaxKeys : i = kong[n].id
    BY <1>4 DEF TenantsInv, Typed
  <2>2. "keys" \in SagaPCs /\ DoneAt("keys", 1) /\ "keys" \notin {"row", "contact", "policies", "putPolicies"}
    BY DEF SagaPCs, DoneAt
  <2>3. 0 \in 0..MaxKeys /\ 1 = r.done + 1 /\ 1 \in 0..3
    BY <1>4, TenantsAssumption
  <2>4. PICK x : /\ Held(c, x) /\ x.pc \notin OnGrants /\ req' = [req EXCEPT ![c] = x]
                 /\ x.pc = "keys" /\ x.name = r.name /\ x.done = 1 /\ x.key = 0
    BY <1>1, <1>3, <1>4, <1>5, <2>1, <2>2, <2>3, CompleteMoves
  <2>5. Worked(n, r.pc, r.done, r.key) => Worked(n, "keys", 1, 0)
    BY <1>3, <1>4 DEF Worked, SagaPCs
  <2> QED
    BY <1>1, <1>2, <1>3, <1>4, <1>5, <2>4, <2>5, Faulted, SagaReads
<1>6. CASE kong[n].id = 0 /\ Goto(c, "postConsumer") /\ UNCHANGED faults
  <2>1. "postConsumer" \in SagaPCs /\ DoneAt("postConsumer", r.done)
        /\ "postConsumer" \notin {"row", "contact", "policies", "putPolicies"}
    BY <1>4 DEF SagaPCs, DoneAt
  <2>2. PICK x : /\ Held(c, x) /\ x.pc \notin OnGrants /\ req' = [req EXCEPT ![c] = x]
                 /\ x.pc = "postConsumer" /\ x.name = r.name /\ x.done = r.done /\ x.key = r.key
    BY <1>1, <1>3, <1>4, <1>6, <2>1, GotoMoves
  <2>3. Worked(n, r.pc, r.done, r.key) => Worked(n, "postConsumer", r.done, r.key)
    BY <1>3, <1>4 DEF Worked, SagaPCs
  <2> QED
    BY <1>1, <1>2, <1>3, <1>4, <1>6, <2>2, <2>3, Faulted, SagaReads
<1>7. CASE Fault /\ Fail(c)
  BY <1>1, <1>3, <1>7, FailReads
<1> QED
  BY <1>1, <1>2, <1>5, <1>6, <1>7 DEF _ensure_consumer

KongRecords == [id : 0..MaxKeys, keys : SUBSET Keys]

\* A step that changes what Kong has for the name.
LEMMA KongStep ==
    ASSUME TenantsInv, NEW c \in Callers, NEW r, r = req[c], NEW n \in OpNames, r.name = n,
           NEW x, Held(c, x), x.pc \notin OnGrants, x.name = n, req' = [req EXCEPT ![c] = x],
           NEW k \in KongRecords, kong' = [kong EXCEPT ![n] = k], drawn' \in 0..MaxKeys, faults' \in 0..MaxFaults,
           UNCHANGED <<grantVars, operators, contact, policies, history, url, ops>>,
           Worked(n, r.pc, r.done, r.key) => Worked(n, x.pc, x.done, x.key)'
    PROVE  TenantsInv' 
<1>1. UNCHANGED <<contested, retired, orphaned, reused, overwritten, sagas, operators, contact, policies>>
  BY DEF history
<1>2. /\ \A m \in OpNames : Rows(m)' = Rows(m)
      /\ \A m \in OpNames \ {n} : kong'[m] = kong[m]
      /\ kong' \in [OpNames -> KongRecords]
  BY <1>1 DEF Rows, TenantsInv, Typed, KongRecords
<1>3. Typed' /\ RowsDiffer'
  BY <1>1, <1>2 DEF TenantsInv, Typed, RowsDiffer, grantVars, KongRecords
<1>4. x.name # None
  BY TenantsAssumption
<1> QED
  BY <1>1, <1>2, <1>3, <1>4, SagaStep

LEMMA Drawn ==
    ASSUME TenantsInv, Draw
    PROVE  drawn + 1 \in Keys /\ drawn + 1 \in 0..MaxKeys /\ drawn' = drawn + 1
BY TenantsAssumption DEF TenantsInv, Typed, Draw, Keys

LEMMA CreateConsumerKeepsInv ==
    ASSUME TenantsInv, NEW c \in Callers, _create_consumer_or_fetch_existing(c)
    PROVE  TenantsInv'
<1>1. PICK r : r = req[c]
  OBVIOUS
<1>2. PICK n : n = r.name
  OBVIOUS
<1>3. r.pc = "postConsumer" /\ r.pc \in SagaPCs
      /\ UNCHANGED <<grantVars, operators, contact, policies, history, url, ops>>
  BY <1>1 DEF _create_consumer_or_fetch_existing, At, SagaPCs
<1>4. Held(c, r) /\ n \in OpNames /\ r.done = 0
  BY <1>1, <1>2, <1>3 DEF TenantsInv, Asked, Held, DoneAt
<1>5. "keys" \in SagaPCs /\ DoneAt("keys", 1) /\ "keys" \notin {"row", "contact", "policies", "putPolicies"}
  BY DEF SagaPCs, DoneAt
<1>6. 0 \in 0..MaxKeys /\ 1 = r.done + 1 /\ 1 \in 0..3
  BY <1>4, TenantsAssumption
<1>7. ASSUME NEW i \in 0..MaxKeys, Complete(c, "keys", i, 0)
      PROVE  \E x : /\ Held(c, x) /\ x.pc \notin OnGrants /\ req' = [req EXCEPT ![c] = x]
                    /\ x.pc = "keys" /\ x.name = r.name /\ x.done = 1 /\ x.key = 0
  BY <1>1, <1>3, <1>4, <1>5, <1>6, <1>7, CompleteMoves
<1>8. CASE kong[n].id # 0 /\ Complete(c, "keys", kong[n].id, 0) /\ UNCHANGED <<kong, drawn, faults>>
  <2>1. PICK i \in 0..MaxKeys : i = kong[n].id
    BY <1>4 DEF TenantsInv, Typed
  <2>2. PICK x : /\ Held(c, x) /\ x.pc \notin OnGrants /\ req' = [req EXCEPT ![c] = x]
                 /\ x.pc = "keys" /\ x.name = r.name /\ x.done = 1 /\ x.key = 0
    BY <1>7, <1>8, <2>1
  <2>3. Worked(n, r.pc, r.done, r.key) => Worked(n, "keys", 1, 0)
    BY <1>3, <1>4 DEF Worked, SagaPCs
  <2>4. UNCHANGED sagaVars
    BY <1>3, <1>8 DEF sagaVars
  <2> QED
    BY <1>1, <1>2, <1>3, <1>4, <1>8, <2>2, <2>3, <2>4, Faulted, SagaReads
<1>9. CASE /\ kong[n].id = 0 /\ Draw
           /\ kong' = [kong EXCEPT ![n] = [id |-> drawn + 1, keys |-> {}]]
           /\ (Complete(c, "keys", drawn + 1, 0) /\ UNCHANGED faults) \/ (Fault /\ Fail(c))
  <2>1. PICK i \in 0..MaxKeys : i = drawn + 1 /\ drawn' = i
    BY <1>9, Drawn
  <2>2. PICK k \in KongRecords : k = [id |-> i, keys |-> {}]
    BY DEF KongRecords
  <2>3. kong' = [kong EXCEPT ![n] = k]
    BY <1>9, <2>1, <2>2
  <2>4. kong'[n].keys = {}
    BY <1>4, <2>2, <2>3 DEF TenantsInv, Typed
  <2>5. Rows(n)' = Rows(n) /\ contact' = contact /\ reused' = reused /\ retired' = retired /\ orphaned' = orphaned
    BY <1>3 DEF Rows, history
  <2>6. CASE Complete(c, "keys", drawn + 1, 0) /\ UNCHANGED faults
    <3>1. PICK x : /\ Held(c, x) /\ x.pc \notin OnGrants /\ req' = [req EXCEPT ![c] = x]
                   /\ x.pc = "keys" /\ x.name = r.name /\ x.done = 1 /\ x.key = 0
      BY <1>7, <2>1, <2>6
    <3>2. Worked(n, r.pc, r.done, r.key) => Worked(n, x.pc, x.done, x.key)'
      BY <1>3, <1>4, <2>4, <2>5, <3>1 DEF Worked, SagaPCs
    <3>3. faults' \in 0..MaxFaults
      BY <2>6, Faulted
    <3> QED
      BY <1>1, <1>2, <1>3, <1>4, <2>1, <2>3, <3>1, <3>2, <3>3, KongStep
  <2>7. CASE Fault /\ Fail(c)
    <3>1. PICK x : /\ Held(c, x) /\ x.pc \notin OnGrants /\ req' = [req EXCEPT ![c] = x]
                   /\ x.pc = "rollback" /\ x.name = r.name /\ x.done = r.done /\ x.key = r.key
      BY <1>1, <1>3, <1>4, <2>7, FailMoves
    <3>2. Worked(n, r.pc, r.done, r.key) => Worked(n, x.pc, x.done, x.key)'
      BY <1>3, <1>4, <2>4, <2>5, <3>1 DEF Worked, SagaPCs
    <3>3. faults' \in 0..MaxFaults
      BY <2>7, Faulted
    <3> QED
      BY <1>1, <1>2, <1>3, <1>4, <2>1, <2>3, <3>1, <3>2, <3>3, KongStep
  <2> QED
    BY <1>9, <2>6, <2>7
<1>10. CASE Fault /\ Fail(c) /\ UNCHANGED <<kong, drawn>>
  <2>1. UNCHANGED sagaVars
    BY <1>3, <1>10 DEF sagaVars
  <2> QED
    BY <1>1, <1>3, <1>10, <2>1, FailReads
<1> QED
  BY <1>1, <1>2, <1>8, <1>9, <1>10 DEF _create_consumer_or_fetch_existing

LEMMA DeleteKeysKeepsInv ==
    ASSUME TenantsInv, NEW c \in Callers, _delete_all_consumer_key_auths(c)
    PROVE  TenantsInv'
<1>1. PICK r : r = req[c]
  OBVIOUS
<1>2. PICK n : n = r.name
  OBVIOUS
<1>3. r.pc \in {"keys", "keysAgain"} /\ r.pc \in SagaPCs
      /\ UNCHANGED <<grantVars, operators, contact, policies, drawn, history, url, ops>>
  BY <1>1 DEF _delete_all_consumer_key_auths, At, SagaPCs
<1>4. Held(c, r) /\ n \in OpNames /\ r.done = 1
  BY <1>1, <1>2, <1>3 DEF TenantsInv, Asked, Held, DoneAt
<1>5. ASSUME NEW p \in {"postKey", "explicitKey"}, kong' = [kong EXCEPT ![n].keys = {}], Goto(c, p), UNCHANGED faults
      PROVE  TenantsInv'
  <2>1. p \in SagaPCs /\ DoneAt(p, r.done) /\ p \notin {"row", "contact", "policies", "putPolicies"}
    BY <1>4 DEF SagaPCs, DoneAt
  <2>2. PICK x : /\ Held(c, x) /\ x.pc \notin OnGrants /\ req' = [req EXCEPT ![c] = x]
                 /\ x.pc = p /\ x.name = r.name /\ x.done = r.done /\ x.key = r.key
    BY <1>1, <1>3, <1>4, <1>5, <2>1, GotoMoves
  <2>3. PICK old \in KongRecords : old = kong[n]
    BY <1>4 DEF TenantsInv, Typed, KongRecords
  <2>0. PICK k : k = [old EXCEPT !.keys = {}]
    OBVIOUS
  <2>4. k \in KongRecords /\ k.keys = {}
    BY <2>0 DEF KongRecords
  <2>5. kong' = [kong EXCEPT ![n] = k]
    BY <1>4, <1>5, <2>0, <2>3 DEF TenantsInv, Typed
  <2>6. kong'[n].keys = {}
    BY <1>4, <2>4, <2>5 DEF TenantsInv, Typed
  <2>7. Rows(n)' = Rows(n) /\ contact' = contact /\ reused' = reused /\ retired' = retired /\ orphaned' = orphaned
    BY <1>3 DEF Rows, history
  <2>8. Worked(n, r.pc, r.done, r.key) => Worked(n, x.pc, x.done, x.key)'
    BY <1>3, <1>4, <2>2, <2>6, <2>7 DEF Worked, SagaPCs
  <2>9. drawn' \in 0..MaxKeys /\ faults' \in 0..MaxFaults
    BY <1>3, <1>5 DEF TenantsInv, Typed
  <2> QED
    BY <1>1, <1>2, <1>3, <1>4, <2>2, <2>4, <2>5, <2>8, <2>9, KongStep
<1>6. CASE Fail(c) /\ UNCHANGED kong /\ (Fault \/ UNCHANGED faults)
  <2>1. UNCHANGED sagaVars
    BY <1>3, <1>6 DEF sagaVars
  <2> QED
    BY <1>1, <1>3, <1>6, <2>1, FailReads
<1> QED
  BY <1>1, <1>2, <1>5, <1>6 DEF _delete_all_consumer_key_auths

LEMMA PostKeyKeepsInv ==
    ASSUME TenantsInv, NEW c \in Callers, _post_key_auth(c)
    PROVE  TenantsInv'
<1>1. PICK r : r = req[c]
  OBVIOUS
<1>2. PICK n : n = r.name
  OBVIOUS
<1>3. r.pc \in {"postKey", "explicitKey"} /\ r.pc \in SagaPCs
      /\ UNCHANGED <<grantVars, operators, contact, policies, history, url, ops>>
  BY <1>1 DEF _post_key_auth, At, SagaPCs
<1>4. Held(c, r) /\ n \in OpNames /\ r.done = 1
  BY <1>1, <1>2, <1>3 DEF TenantsInv, Asked, Held, DoneAt
<1>5. CASE /\ Draw /\ kong' = [kong EXCEPT ![n].keys = @ \cup {drawn + 1}]
           /\ \/ Synced(c, drawn + 1) /\ UNCHANGED faults
              \/ Omitted(c) /\ UNCHANGED faults
              \/ Fault /\ Fail(c)
  <2>1. PICK i \in 0..MaxKeys : i = drawn + 1 /\ drawn' = i /\ i \in Keys
    BY <1>5, Drawn
  <2>2. PICK old \in KongRecords : old = kong[n]
    BY <1>4 DEF TenantsInv, Typed, KongRecords
  <2>3. PICK k : k = [old EXCEPT !.keys = @ \cup {i}]
    OBVIOUS
  <2>4. k \in KongRecords /\ k.keys = old.keys \cup {i}
    BY <2>1, <2>3 DEF KongRecords
  <2>5. kong' = [kong EXCEPT ![n] = k]
    BY <1>4, <1>5, <2>1, <2>2, <2>3 DEF TenantsInv, Typed
  <2>6. Worked(n, r.pc, r.done, r.key) => kong'[n].keys = {i}
    <3>1. kong'[n] = k
      BY <1>4, <2>5 DEF TenantsInv, Typed
    <3>2. Worked(n, r.pc, r.done, r.key) => old.keys = {}
      BY <1>3, <2>2 DEF Worked
    <3> QED
      BY <2>4, <3>1, <3>2
  <2>7. Rows(n)' = Rows(n) /\ contact' = contact /\ reused' = reused /\ retired' = retired /\ orphaned' = orphaned
    BY <1>3 DEF Rows, history
  <2>8. faults' \in 0..MaxFaults
    BY <1>5, Faulted
  <2>9. ASSUME NEW x, Held(c, x), x.pc \notin OnGrants, req' = [req EXCEPT ![c] = x], x.name = r.name,
               Worked(n, r.pc, r.done, r.key) => Worked(n, x.pc, x.done, x.key)'
        PROVE  TenantsInv'
    BY <1>1, <1>2, <1>3, <1>4, <2>1, <2>4, <2>5, <2>8, <2>9, KongStep
  <2>10. CASE Synced(c, drawn + 1)
    <3>1. PICK j \in 0..MaxKeys : j = r.consumer
      BY <1>4 DEF Held, Requests
    <3>2. "row" \in SagaPCs /\ DoneAt("row", 2) /\ 2 \in 0..3 /\ 2 = r.done + 1
      BY <1>4 DEF SagaPCs, DoneAt
    <3>3. Complete(c, "row", j, i)
      BY <1>1, <2>1, <2>10, <3>1 DEF Synced
    <3>4. PICK x : /\ Held(c, x) /\ x.pc \notin OnGrants /\ req' = [req EXCEPT ![c] = x]
                   /\ x.pc = "row" /\ x.name = r.name /\ x.done = 2 /\ x.key = i
      BY <1>1, <1>3, <1>4, <2>1, <3>2, <3>3, CompleteMoves
    <3>5. Worked(n, r.pc, r.done, r.key) => Worked(n, x.pc, x.done, x.key)'
      BY <1>3, <1>4, <2>6, <2>7, <3>4 DEF Worked, SagaPCs
    <3> QED
      BY <2>9, <3>4, <3>5
  <2>11. CASE Omitted(c)
    <3>1. "keysAgain" \in SagaPCs /\ DoneAt("keysAgain", r.done)
          /\ "keysAgain" \notin {"row", "contact", "policies", "putPolicies"}
      BY <1>4 DEF SagaPCs, DoneAt
    <3>2. PICK x : /\ Held(c, x) /\ x.pc \notin OnGrants /\ req' = [req EXCEPT ![c] = x]
                   /\ x.pc = "keysAgain" /\ x.name = r.name /\ x.done = r.done /\ x.key = r.key
      BY <1>1, <1>3, <1>4, <2>11, <3>1, GotoMoves DEF Omitted
    <3>3. Worked(n, r.pc, r.done, r.key) => Worked(n, x.pc, x.done, x.key)'
      BY <1>3, <1>4, <2>6, <2>7, <3>2 DEF Worked, SagaPCs
    <3> QED
      BY <2>9, <3>2, <3>3
  <2>12. CASE Fail(c)
    <3>1. PICK x : /\ Held(c, x) /\ x.pc \notin OnGrants /\ req' = [req EXCEPT ![c] = x]
                   /\ x.pc = "rollback" /\ x.name = r.name /\ x.done = r.done /\ x.key = r.key
      BY <1>1, <1>3, <1>4, <2>12, FailMoves
    <3>2. Worked(n, r.pc, r.done, r.key) => Worked(n, x.pc, x.done, x.key)'
      BY <1>3, <1>4, <2>6, <2>7, <3>1 DEF Worked, SagaPCs
    <3> QED
      BY <2>9, <3>1, <3>2
  <2> QED
    BY <1>5, <2>10, <2>11, <2>12
<1>6. CASE Fail(c) /\ UNCHANGED <<kong, drawn>> /\ (Fault \/ UNCHANGED faults)
  <2>1. UNCHANGED sagaVars
    BY <1>3, <1>6 DEF sagaVars
  <2> QED
    BY <1>1, <1>3, <1>6, <2>1, FailReads
<1> QED
  BY <1>1, <1>2, <1>5, <1>6 DEF _post_key_auth

-----------------------------------------------------------------------------
(* The row, and Grafana. *)

\* A step on the name that leaves Kong and the ids alone.
LEMMA RowStep ==
    ASSUME TenantsInv, NEW c \in Callers, NEW r, r = req[c], NEW n \in OpNames, r.name = n,
           NEW x, Held(c, x), x.pc \notin OnGrants, x.name \in {n, None}, req' = [req EXCEPT ![c] = x],
           UNCHANGED <<grantVars, kong, drawn, contested, retired, reused, sagas, url, ops>>,
           orphaned' \subseteq OpNames, \A m \in OpNames \ {n} : m \in orphaned' <=> m \in orphaned,
           faults' \in 0..MaxFaults,
           operators' \subseteq OperatorRows, RowsDiffer',
           contact' \in [OpNames -> [url : 0..2, cred : 0..MaxKeys]], policies' \subseteq OpNames, overwritten' \in BOOLEAN,
           \A m \in OpNames \ {n} : /\ Rows(m)' = Rows(m) /\ contact'[m] = contact[m]
                                    /\ (m \in policies => m \in policies' \/ overwritten'),
           overwritten => overwritten',
           Worked(n, r.pc, r.done, r.key) /\ x.name = n => Worked(n, x.pc, x.done, x.key)',
           Worked(n, r.pc, r.done, r.key) /\ x.name = None => Quiet(n)'
    PROVE  TenantsInv' 
<1>1. Typed'
  BY DEF TenantsInv, Typed, grantVars
<1> QED
  BY <1>1, SagaStep

LEMMA InsertOperatorKeepsInv ==
    ASSUME TenantsInv, NEW c \in Callers, InsertOperator(c)
    PROVE  TenantsInv'
<1>1. PICK r : r = req[c]
  OBVIOUS
<1>2. PICK n : n = r.name
  OBVIOUS
<1>3. r.pc = "row" /\ r.pc \in SagaPCs
      /\ UNCHANGED <<grantVars, kong, contact, policies, drawn, contested, retired, reused, overwritten,
                     sagas, url, ops>>
  BY <1>1 DEF InsertOperator, At, SagaPCs
<1>4. Held(c, r) /\ n \in OpNames /\ r.done = 2 /\ r.key \in Keys
  BY <1>1, <1>2, <1>3 DEF TenantsInv, Asked, Held, DoneAt
<1>5. CASE Fail(c) /\ UNCHANGED <<operators, orphaned>> /\ (Fault \/ UNCHANGED faults)
  <2>1. UNCHANGED sagaVars
    BY <1>3, <1>5 DEF sagaVars, history
  <2> QED
    BY <1>1, <1>3, <2>1, <1>5, FailReads
<1>o. PICK o : o = [name |-> r.name, group |-> r.group, tenant |-> r.t, apikey |-> r.key]
  OBVIOUS
<1>s. CASE /\ ~(\E p \in operators : p.name = r.name \/ p.group = r.group) /\ operators' = operators \cup {o}
           /\ \/ Complete(c, "contact", r.consumer, r.key) /\ UNCHANGED <<orphaned, faults>>
              \/ Fault /\ Fail(c) /\ orphaned' = orphaned \cup {r.name}
  <2>2. o \in OperatorRows /\ o.name = n /\ o.group = r.group /\ o.apikey = r.key
    BY <1>2, <1>3, <1>4, <1>o DEF OperatorRows, Held
  <2>4. operators' \subseteq OperatorRows
    BY <1>s, <2>2 DEF TenantsInv, Typed
  <2>5. RowsDiffer'
    BY <1>2, <1>s, <2>2 DEF TenantsInv, RowsDiffer
  <2>6. \A m \in OpNames \ {n} : Rows(m)' = Rows(m)
    BY <1>s, <2>2 DEF Rows
  <2>7. PICK j \in 0..MaxKeys : j = r.consumer
    BY <1>4 DEF Held, Requests
  <2>8. PICK k \in 0..MaxKeys : k = r.key /\ k \in Keys
    BY <1>4 DEF Held, Requests
  <2>3. o \in Rows(n)' /\ o.apikey = k
    BY <1>s, <2>2, <2>8 DEF Rows
  <2>13. UNCHANGED <<contested, retired, reused, overwritten, sagas, contact, policies>>
    BY <1>3
  <2>14. /\ contact' \in [OpNames -> [url : 0..2, cred : 0..MaxKeys]] /\ policies' \subseteq OpNames
         /\ overwritten' \in BOOLEAN
    BY <1>3, <2>13 DEF TenantsInv, Typed
  <2>15. /\ UNCHANGED <<grantVars, kong, drawn, contested, retired, reused, sagas, url, ops>>
         /\ overwritten => overwritten'
         /\ \A m \in OpNames \ {n} : /\ Rows(m)' = Rows(m) /\ contact'[m] = contact[m]
                                      /\ (m \in policies => m \in policies' \/ overwritten')
    BY <1>3, <2>6, <2>13
  <2>16. Worked(n, r.pc, r.done, r.key) => n \notin orphaned /\ kong[n].keys = {k} /\ (contact[n] = NoContact \/ n \in reused)
    BY <1>3, <1>4, <2>8 DEF Worked, SagaPCs
  <2>17. CASE Complete(c, "contact", r.consumer, r.key) /\ UNCHANGED <<orphaned, faults>>
    <3>9. "contact" \in SagaPCs /\ DoneAt("contact", 3) /\ 3 \in 0..3 /\ 3 = r.done + 1
      BY <1>4 DEF SagaPCs, DoneAt
    <3>10. Complete(c, "contact", j, k)
      BY <2>7, <2>8, <2>17
    <3>11. PICK x : /\ Held(c, x) /\ x.pc \notin OnGrants /\ req' = [req EXCEPT ![c] = x]
                    /\ x.pc = "contact" /\ x.name = r.name /\ x.done = 3 /\ x.key = k
      BY <1>1, <1>3, <1>4, <2>8, <3>9, <3>10, CompleteMoves
    <3>12. Worked(n, r.pc, r.done, r.key) => Worked(n, x.pc, x.done, x.key)'
      BY <1>3, <2>3, <2>16, <2>17, <3>11 DEF Worked
    <3>13. /\ orphaned' \subseteq OpNames /\ faults' \in 0..MaxFaults
           /\ \A m \in OpNames \ {n} : m \in orphaned' <=> m \in orphaned
      BY <2>17 DEF TenantsInv, Typed
    <3>14. x.name = n /\ n # None
      BY <1>2, <1>4, <3>11, TenantsAssumption
    <3> QED
      BY <1>1, <1>2, <1>4, <2>4, <2>5, <2>14, <2>15, <3>11, <3>12, <3>13, <3>14, RowStep
  <2>18. CASE Fault /\ Fail(c) /\ orphaned' = orphaned \cup {r.name}
    <3>11. PICK x : /\ Held(c, x) /\ x.pc \notin OnGrants /\ req' = [req EXCEPT ![c] = x]
                    /\ x.pc = "rollback" /\ x.name = r.name /\ x.done = r.done /\ x.key = r.key
      BY <1>1, <1>3, <1>4, <2>18, FailMoves
    <3>12. Worked(n, r.pc, r.done, r.key) => Worked(n, x.pc, x.done, x.key)'
      <4>1. /\ x.pc \notin {"postKey", "explicitKey", "row", "policies", "putPolicies"}
            /\ x.pc \notin SagaPCs \ {"policies", "putPolicies", "rollback"}
        BY <3>11 DEF SagaPCs
      <4>2. x.done = 2 /\ x.pc = "rollback" /\ Rows(n)' # {} /\ n \in orphaned'
        BY <1>2, <1>4, <2>3, <2>18, <3>11
      <4> QED
        BY <4>1, <4>2 DEF Worked
    <3>13. orphaned' \subseteq OpNames /\ \A m \in OpNames \ {n} : m \in orphaned' <=> m \in orphaned
      BY <1>2, <1>4, <2>18 DEF TenantsInv, Typed
    <3>14. x.name = n /\ n # None /\ faults' \in 0..MaxFaults
      BY <1>2, <1>4, <2>18, <3>11, Faulted, TenantsAssumption
    <3> QED
      BY <1>1, <1>2, <1>4, <2>4, <2>5, <2>14, <2>15, <3>11, <3>12, <3>13, <3>14, RowStep
  <2> QED
    BY <1>s, <2>17, <2>18
<1> QED
  BY <1>1, <1>5, <1>o, <1>s DEF InsertOperator

ContactRecords == [url : 0..2, cred : 0..MaxKeys]

\* A step on Grafana: the contact point of the name, or the policy tree.
LEMMA GrafanaStep ==
    ASSUME TenantsInv, NEW c \in Callers, NEW r, r = req[c], NEW n \in OpNames, r.name = n,
           NEW x, Held(c, x), x.pc \notin OnGrants, x.name \in {n, None}, req' = [req EXCEPT ![c] = x],
           UNCHANGED <<grantVars, operators, kong, drawn, contested, retired, orphaned, reused, sagas, url, ops>>,
           faults' \in 0..MaxFaults,
           contact' \in [OpNames -> ContactRecords], \A m \in OpNames \ {n} : contact'[m] = contact[m],
           policies' \subseteq OpNames, overwritten' \in BOOLEAN,
           \A m \in OpNames : m \in policies => m \in policies' \/ overwritten', overwritten => overwritten',
           Worked(n, r.pc, r.done, r.key) /\ x.name = n => Worked(n, x.pc, x.done, x.key)',
           Worked(n, r.pc, r.done, r.key) /\ x.name = None => Quiet(n)'
    PROVE  TenantsInv'
<1>1. \A m \in OpNames : Rows(m)' = Rows(m)
  BY DEF Rows
<1>2. operators' \subseteq OperatorRows /\ RowsDiffer' /\ orphaned' \subseteq OpNames
  BY DEF TenantsInv, Typed, RowsDiffer
<1> QED
  BY <1>1, <1>2, RowStep DEF ContactRecords

LEMMA ContactPointKeepsInv ==
    ASSUME TenantsInv, NEW c \in Callers, _provision_contact_point(c)
    PROVE  TenantsInv'
<1>1. PICK r : r = req[c]
  OBVIOUS
<1>2. PICK n : n = r.name
  OBVIOUS
<1>3. r.pc = "contact" /\ r.pc \in SagaPCs
      /\ UNCHANGED <<grantVars, operators, kong, policies, drawn, history, url, ops>>
  BY <1>1 DEF _provision_contact_point, At, SagaPCs
<1>4. Held(c, r) /\ n \in OpNames /\ r.done = 3 /\ r.key \in Keys
  BY <1>1, <1>2, <1>3 DEF TenantsInv, Asked, Held, DoneAt
<1>5. PICK p : p = [url |-> url, cred |-> r.key]
  OBVIOUS
<1>6. p \in ContactRecords /\ p.cred = r.key /\ p.url = url /\ url # 0
  BY <1>4, <1>5 DEF ContactRecords, TenantsInv, Typed, Held, Requests
<1>7. PICK posted : posted = [contact EXCEPT ![n] = p]
  OBVIOUS
<1>8. contact \in [OpNames -> ContactRecords]
  BY DEF TenantsInv, Typed, ContactRecords
<1>9. posted \in [OpNames -> ContactRecords] /\ posted[n] = p /\ \A m \in OpNames \ {n} : posted[m] = contact[m]
  BY <1>4, <1>6, <1>7, <1>8
<1>10. UNCHANGED <<contested, retired, orphaned, reused, overwritten, sagas>>
  BY <1>3 DEF history
<1>11. policies' \subseteq OpNames /\ overwritten' \in BOOLEAN
  BY <1>3, <1>10 DEF TenantsInv, Typed
<1>12. n # None
  BY <1>4, TenantsAssumption
<1>13. ASSUME contact' \in {contact, posted}, faults' \in 0..MaxFaults,
              NEW x, Held(c, x), x.pc \notin OnGrants, req' = [req EXCEPT ![c] = x], x.name = r.name,
              Worked(n, r.pc, r.done, r.key) => Worked(n, x.pc, x.done, x.key)'
       PROVE  TenantsInv'
  <2>1. contact' \in [OpNames -> ContactRecords] /\ \A m \in OpNames \ {n} : contact'[m] = contact[m]
    BY <1>8, <1>9, <1>13
  <2> QED
    BY <1>1, <1>2, <1>3, <1>4, <1>10, <1>11, <1>12, <1>13, <2>1, GrafanaStep
<1>14. kong' = kong /\ Rows(n)' = Rows(n) /\ reused' = reused /\ retired' = retired /\ orphaned' = orphaned
  BY <1>3, <1>10 DEF Rows
<1>15. CASE /\ contact' = (IF _webhook_contact_point_unchanged(n) THEN contact ELSE posted)
            /\ Goto(c, "policies") /\ UNCHANGED faults
  <2>1. "policies" \in SagaPCs /\ DoneAt("policies", r.done)
    BY <1>4 DEF SagaPCs, DoneAt
  <2>2. PICK x : /\ Held(c, x) /\ x.pc \notin OnGrants /\ req' = [req EXCEPT ![c] = x]
                 /\ x.pc = "policies" /\ x.name = r.name /\ x.done = r.done /\ x.key = r.key
    BY <1>1, <1>3, <1>4, <1>15, <2>1, GotoMoves
  <2>3. Worked(n, r.pc, r.done, r.key) => Worked(n, x.pc, x.done, x.key)'
    <3> SUFFICES ASSUME Worked(n, r.pc, r.done, r.key) PROVE Worked(n, "policies", r.done, r.key)'
      BY <2>2
    <3>1. contact[n] = NoContact \/ n \in reused
      BY <1>3 DEF Worked, SagaPCs
    <3>2. kong[n].keys = {r.key} /\ \E o \in Rows(n) : o.apikey = r.key
      BY <1>4 DEF Worked
    <3>3. NoContact.url = 0
      BY DEF NoContact
    <3>4. contact'[n] # NoContact /\ (contact'[n].cred = r.key \/ n \in reused)
      <4>1. CASE contact[n].url = url
        <5>1. contact' = contact
          BY <1>15, <4>1 DEF _webhook_contact_point_unchanged
        <5> QED
          BY <1>6, <3>1, <3>3, <4>1, <5>1
      <4>2. CASE contact[n].url # url
        <5>1. contact' = posted
          BY <1>15, <4>2 DEF _webhook_contact_point_unchanged
        <5> QED
          BY <1>6, <1>9, <3>3, <5>1
      <4> QED
        BY <4>1, <4>2
    <3>5. "policies" \notin {"postKey", "explicitKey", "row"} \cup (SagaPCs \ {"policies", "putPolicies", "rollback"})
      OBVIOUS
    <3> QED
      BY <1>4, <1>14, <3>2, <3>4, <3>5 DEF Worked
  <2>4. faults' \in 0..MaxFaults
    BY <1>15, Faulted
  <2>5. contact' \in {contact, posted}
    BY <1>15
  <2> QED
    BY <1>13, <2>2, <2>3, <2>4, <2>5
<1>16. CASE Fault /\ Fail(c) /\ contact' \in {contact, posted}
  <2>1. PICK x : /\ Held(c, x) /\ x.pc \notin OnGrants /\ req' = [req EXCEPT ![c] = x]
                 /\ x.pc = "rollback" /\ x.name = r.name /\ x.done = r.done /\ x.key = r.key
    BY <1>1, <1>3, <1>4, <1>16, FailMoves
  <2>2. Worked(n, r.pc, r.done, r.key) => Worked(n, x.pc, x.done, x.key)'
    BY <1>4, <1>14, <2>1 DEF Worked
  <2>3. faults' \in 0..MaxFaults
    BY <1>16, Faulted
  <2> QED
    BY <1>13, <1>16, <2>1, <2>2, <2>3
<1> QED
  BY <1>1, <1>2, <1>5, <1>7, <1>15, <1>16 DEF _provision_contact_point

LEMMA PolicyTreeKeepsInv ==
    ASSUME TenantsInv, NEW c \in Callers, _get_policy_tree(c)
    PROVE  TenantsInv'
<1>1. PICK r : r = req[c]
  OBVIOUS
<1>2. r.pc = "policies" /\ r.pc \in SagaPCs /\ UNCHANGED <<grantVars, sagaVars, url, ops>>
  BY <1>1 DEF _get_policy_tree, At, SagaPCs
<1>3. Held(c, r) /\ r.name \in OpNames /\ r.done = 3 /\ r.key \in Keys
  BY <1>1, <1>2 DEF TenantsInv, Asked, Held, DoneAt
<1>4. CASE Put(c, [r EXCEPT !.pc = "putPolicies", !.tree = policies]) /\ UNCHANGED faults
  <2>1. PICK x : x = [r EXCEPT !.pc = "putPolicies", !.tree = policies]
    OBVIOUS
  <2>2. x.pc = "putPolicies" /\ x.name = r.name /\ x.group = r.group /\ x.t = r.t /\ x.done = r.done /\ x.key = r.key
    BY <1>3, <2>1 DEF Held, Requests
  <2>3. policies \in SUBSET OpNames
    BY DEF TenantsInv, Typed
  <2>4. "putPolicies" \in SagaPCs /\ "putPolicies" \in PCs /\ DoneAt("putPolicies", r.done)
    BY <1>3 DEF SagaPCs, PCs, DoneAt
  <2>5. x \in Requests
    BY <1>3, <2>1, <2>3, <2>4 DEF Held, Requests
  <2>6. Held(c, x) /\ x.pc \notin OnGrants
    BY <1>2, <1>3, <2>2, <2>4, <2>5, HeldOn
  <2>7. req' = [req EXCEPT ![c] = x]
    BY <1>4, <2>1 DEF Put
  <2>8. Worked(r.name, r.pc, r.done, r.key) => Worked(r.name, x.pc, x.done, x.key)
    BY <1>2, <2>2 DEF Worked, SagaPCs
  <2> QED
    BY <1>1, <1>2, <1>3, <1>4, <2>2, <2>6, <2>7, <2>8, Faulted, SagaReads
<1>5. CASE Fault /\ Fail(c)
  BY <1>1, <1>2, <1>5, FailReads
<1> QED
  BY <1>1, <1>4, <1>5 DEF _get_policy_tree

LEMMA SubPolicyKeepsInv ==
    ASSUME TenantsInv, NEW c \in Callers, _provision_sub_policy(c)
    PROVE  TenantsInv'
<1>1. PICK r : r = req[c]
  OBVIOUS
<1>2. PICK n : n = r.name
  OBVIOUS
<1>3. r.pc = "putPolicies" /\ r.pc \in SagaPCs
      /\ UNCHANGED <<grantVars, operators, kong, contact, drawn, contested, retired, orphaned, reused, sagas, url, ops>>
      /\ overwritten' = (overwritten \/ policies \ (r.tree \cup policies') # {})
  BY <1>1 DEF _provision_sub_policy, At, SagaPCs
<1>4. Held(c, r) /\ n \in OpNames /\ r.done = 3 /\ r.key \in Keys /\ r.tree \subseteq OpNames
  BY <1>1, <1>2, <1>3 DEF TenantsInv, Asked, Held, DoneAt, Requests
<1>5. PICK edited : edited = r.tree \cup {n}
  OBVIOUS
<1>6. Edited(c) = edited /\ edited \subseteq OpNames
  BY <1>1, <1>2, <1>4, <1>5 DEF Edited
<1>7. policies \subseteq OpNames /\ overwritten \in BOOLEAN
  BY DEF TenantsInv, Typed
<1>8. contact' \in [OpNames -> ContactRecords] /\ \A m \in OpNames \ {n} : contact'[m] = contact[m]
  BY <1>3 DEF TenantsInv, Typed, ContactRecords
<1>9. overwritten' \in BOOLEAN /\ (overwritten => overwritten')
  BY <1>3, <1>7, Zenon
<1>10. n # None
  BY <1>4, TenantsAssumption
<1>11. ASSUME policies' \in {policies, edited}
       PROVE  policies' \subseteq OpNames /\ \A m \in OpNames : m \in policies => m \in policies' \/ overwritten'
  <2>1. CASE policies' = policies
    BY <1>7, <2>1
  <2>2. CASE policies' = edited
    <3>1. ASSUME NEW m \in OpNames, m \in policies, m \notin edited
          PROVE  m \in policies \ (r.tree \cup policies')
      BY <1>5, <2>2, <3>1
    <3> QED
      BY <1>3, <1>6, <2>2, <3>1
  <2> QED
    BY <1>11, <2>1, <2>2
<1>12. kong' = kong /\ Rows(n)' = Rows(n) /\ reused' = reused /\ retired' = retired /\ orphaned' = orphaned
  BY <1>3 DEF Rows
<1>13. CASE policies' = edited /\ End(c) /\ UNCHANGED faults
  <2>1. PICK x : x = Idle
    OBVIOUS
  <2>2. Held(c, x) /\ x.pc = "idle" /\ x.name = None /\ x.pc \notin OnGrants
    BY <2>1, IdleHeld DEF OnGrants
  <2>3. req' = [req EXCEPT ![c] = x]
    BY <1>13, <2>1 DEF End
  <2>4. Worked(n, r.pc, r.done, r.key) => Quiet(n)'
    <3> SUFFICES ASSUME Worked(n, r.pc, r.done, r.key) PROVE Quiet(n)'
      OBVIOUS
    <3>1. /\ kong[n].keys = {r.key} /\ contact[n] # NoContact /\ (contact[n].cred = r.key \/ n \in reused)
          /\ n \notin orphaned
      BY <1>3, <1>4 DEF Worked
    <3>2. PICK o \in Rows(n) : o.apikey = r.key
      BY <1>4 DEF Worked
    <3>3. \A p \in Rows(n) : p = o
      BY DEF Rows, TenantsInv, RowsDiffer
    <3>4. n \in policies' /\ contact' = contact
      BY <1>3, <1>5, <1>13
    <3> QED
      BY <1>12, <3>1, <3>2, <3>3, <3>4 DEF Quiet
  <2>5. faults' \in 0..MaxFaults
    BY <1>13, Faulted
  <2> QED
    BY <1>1, <1>2, <1>3, <1>4, <1>8, <1>9, <1>10, <1>11, <1>13, <2>2, <2>3, <2>4, <2>5, GrafanaStep
<1>14. CASE Fault /\ Fail(c) /\ policies' \in {policies, edited}
  <2>1. PICK x : /\ Held(c, x) /\ x.pc \notin OnGrants /\ req' = [req EXCEPT ![c] = x]
                 /\ x.pc = "rollback" /\ x.name = r.name /\ x.done = r.done /\ x.key = r.key
    BY <1>1, <1>3, <1>4, <1>14, FailMoves
  <2>2. Worked(n, r.pc, r.done, r.key) => Worked(n, x.pc, x.done, x.key)'
    BY <1>4, <1>12, <2>1 DEF Worked
  <2>3. faults' \in 0..MaxFaults
    BY <1>14, Faulted
  <2> QED
    BY ZenonT(30), <1>1, <1>2, <1>3, <1>4, <1>8, <1>9, <1>10, <1>11, <1>14, <2>1, <2>2, <2>3, GrafanaStep
<1> QED
  BY <1>1, <1>2, <1>6, <1>13, <1>14 DEF _provision_sub_policy

\* One completed step less.
LEMMA BackMoves ==
    ASSUME NEW c \in Callers, NEW r, Held(c, r), r.pc = "rollback", r = req[c], r.done # 0,
           Put(c, [r EXCEPT !.done = @ - 1])
    PROVE  \E x : /\ Held(c, x) /\ x.pc \notin OnGrants /\ req' = [req EXCEPT ![c] = x]
                  /\ x.pc = "rollback" /\ x.name = r.name /\ x.done = r.done - 1 /\ x.key = r.key
<1>1. r \in Requests /\ r.done \in 0..3
  BY DEF Held, Requests
<1>2. PICK d \in 0..2 : d = r.done - 1
  BY <1>1
<1>3. PICK x : x = [r EXCEPT !.done = d]
  OBVIOUS
<1>4. x.pc = "rollback" /\ x.name = r.name /\ x.done = d /\ x.key = r.key /\ x.group = r.group /\ x.t = r.t
  BY <1>1, <1>3 DEF Requests
<1>5. d \in 0..3
  BY <1>2
<1>6. x \in Requests
  BY <1>1, <1>3, <1>5 DEF Requests
<1>7. "rollback" \in SagaPCs /\ DoneAt("rollback", d) /\ "rollback" \notin {"row", "contact", "policies", "putPolicies"}
  BY DEF SagaPCs, DoneAt
<1>8. Held(c, x) /\ x.pc \notin OnGrants
  BY <1>4, <1>6, <1>7, HeldOn
<1>9. [r EXCEPT !.done = @ - 1] = x
  BY <1>1, <1>2, <1>3
<1> QED
  BY <1>2, <1>4, <1>8, <1>9 DEF Put

LEMMA RollbackKeepsInv ==
    ASSUME TenantsInv, NEW c \in Callers, _rollback_provisioning(c)
    PROVE  TenantsInv'
<1>1. PICK r : r = req[c]
  OBVIOUS
<1>2. PICK n : n = r.name
  OBVIOUS
<1>3. r.pc = "rollback" /\ r.pc \in SagaPCs
      /\ UNCHANGED <<grantVars, contact, policies, drawn, retired, orphaned, reused, overwritten, sagas, url, ops>>
  BY <1>1 DEF _rollback_provisioning, At, SagaPCs
<1>4. Held(c, r) /\ n \in OpNames /\ r.done \in 0..3
  BY <1>1, <1>2, <1>3 DEF TenantsInv, Asked, Held, Requests
<1>5. n # None
  BY <1>4, TenantsAssumption
<1>6. ASSUME operators' \subseteq operators, \A m \in OpNames \ {n} : Rows(m)' = Rows(m),
             kong' \in [OpNames -> KongRecords], \A m \in OpNames \ {n} : kong'[m] = kong[m],
             contested' = contested \/ contested' = contested \cup {n}, faults' \in 0..MaxFaults,
             NEW x, Held(c, x), x.pc \notin OnGrants, req' = [req EXCEPT ![c] = x], x.name \in {n, None},
             n \notin contested' /\ Worked(n, r.pc, r.done, r.key) /\ x.name = n => Worked(n, x.pc, x.done, x.key)',
             n \notin contested' /\ Worked(n, r.pc, r.done, r.key) /\ x.name = None => Quiet(n)'
      PROVE  TenantsInv'
  <2>1. Typed'
    BY <1>3, <1>4, <1>6 DEF TenantsInv, Typed, grantVars, KongRecords
  <2>2. RowsDiffer'
    BY <1>6 DEF TenantsInv, RowsDiffer
  <2>3. contested \subseteq contested' /\ \A m \in OpNames \ {n} : m \in contested' => m \in contested
    BY <1>6
  <2>4. \A m \in OpNames \ {n} : /\ Rows(m)' = Rows(m) /\ kong'[m] = kong[m] /\ contact'[m] = contact[m]
                                 /\ (m \in policies => m \in policies' \/ overwritten')
    BY <1>3, <1>6
  <2>5. UNCHANGED grantVars /\ retired' = retired /\ orphaned' = orphaned /\ reused' = reused /\ overwritten' = overwritten
    BY <1>3
  <2> QED
    BY <1>1, <1>2, <1>4, <1>6, <2>1, <2>2, <2>3, <2>4, <2>5, SagaStep
<1>7. kong \in [OpNames -> KongRecords] /\ faults \in 0..MaxFaults
  BY DEF TenantsInv, Typed, KongRecords
<1>8. CASE r.done = 0 /\ End(c) /\ UNCHANGED <<operators, kong, faults, contested>>
  <2>1. PICK x : x = Idle
    OBVIOUS
  <2>2. Held(c, x) /\ x.name = None /\ x.pc \notin OnGrants
    BY <2>1, IdleHeld DEF OnGrants
  <2>3. req' = [req EXCEPT ![c] = x]
    BY <1>8, <2>1 DEF End
  <2>4. \A m \in OpNames : Rows(m)' = Rows(m)
    BY <1>8 DEF Rows
  <2>5. Worked(n, r.pc, r.done, r.key) => Quiet(n)'
    <3> SUFFICES ASSUME Worked(n, r.pc, r.done, r.key) PROVE Quiet(n)'
      OBVIOUS
    <3>1. /\ n \in orphaned => Rows(n) # {} /\ kong[n].keys = {}
          /\ n \notin orphaned => Rows(n) = {} /\ (kong[n].keys = {} \/ n \in retired)
      BY <1>8 DEF Worked
    <3>2. Rows(n)' = Rows(n) /\ kong' = kong /\ retired' = retired /\ orphaned' = orphaned
      BY <1>3, <1>4, <1>8, <2>4, <3>1
    <3> QED
      BY <3>1, <3>2 DEF Quiet
  <2> QED
    BY <1>5, <1>6, <1>7, <1>8, <2>2, <2>3, <2>4, <2>5
<1>9. CASE /\ r.done # 0 /\ Put(c, [r EXCEPT !.done = @ - 1])
           /\ \/ Undo(r.done, r.name) /\ UNCHANGED <<faults, contested>>
              \/ Fault /\ contested' = contested \cup {r.name} /\ UNCHANGED <<operators, kong>>
  <2>1. PICK x : /\ Held(c, x) /\ x.pc \notin OnGrants /\ req' = [req EXCEPT ![c] = x]
                 /\ x.pc = "rollback" /\ x.name = r.name /\ x.done = r.done - 1 /\ x.key = r.key
    BY <1>1, <1>3, <1>4, <1>9, BackMoves
  <2>2. x.done # 3 /\ (x.done = 0 <=> r.done = 1)
    BY <1>4, <2>1
  <2>3. x.pc \notin {"postKey", "explicitKey", "row", "policies", "putPolicies"}
        /\ x.pc \notin SagaPCs \ {"policies", "putPolicies", "rollback"}
    BY <2>1 DEF SagaPCs
  <2>4. x.name = n
    BY <1>2, <2>1
  <2>5. ASSUME IF n \in orphaned THEN Rows(n)' # {} ELSE Rows(n)' = {}, r.done = 1 => kong'[n].keys = {}
        PROVE  Worked(n, x.pc, x.done, x.key)'
    BY <1>3, <2>1, <2>2, <2>3, <2>5 DEF Worked
  <2>6. CASE UNCHANGED <<faults, contested>> /\ r.done = 3 /\ operators' = operators \ Rows(n) /\ UNCHANGED kong
    <3>1. Rows(n)' = {} /\ \A m \in OpNames \ {n} : Rows(m)' = Rows(m)
      BY <2>6 DEF Rows
    <3>2. operators' \subseteq operators
      BY <2>6
    <3>3. Worked(n, r.pc, r.done, r.key) => Worked(n, x.pc, x.done, x.key)'
      <4>1. Worked(n, r.pc, r.done, r.key) => n \notin orphaned
        BY <2>6 DEF Worked
      <4> QED BY <2>5, <2>6, <3>1, <4>1
    <3> QED
      BY <1>5, <1>6, <1>7, <2>1, <2>4, <2>6, <3>1, <3>2, <3>3
  <2>7. ASSUME UNCHANGED <<faults, contested, operators>>, r.done \in {1, 2},
               NEW k, kong' = [kong EXCEPT ![n] = k], k \in KongRecords, k.keys = {}
        PROVE  TenantsInv'
    <3>1. \A m \in OpNames : Rows(m)' = Rows(m)
      BY <2>7 DEF Rows
    <3>2. kong' \in [OpNames -> KongRecords] /\ kong'[n] = k /\ \A m \in OpNames \ {n} : kong'[m] = kong[m]
      BY <1>4, <1>7, <2>7
    <3>3. Worked(n, r.pc, r.done, r.key) => Worked(n, x.pc, x.done, x.key)'
      <4>1. r.done # 3
        BY <2>7
      <4>2. Worked(n, r.pc, r.done, r.key) => IF n \in orphaned THEN Rows(n) # {} ELSE Rows(n) = {}
        BY <4>1 DEF Worked
      <4> QED
        BY <1>4, <2>5, <2>7, <3>1, <3>2, <4>2
    <3> QED
      BY <1>5, <1>6, <1>7, <2>1, <2>4, <2>7, <3>1, <3>2, <3>3
  <2>8. CASE UNCHANGED <<faults, contested>> /\ r.done = 2 /\ kong' = [kong EXCEPT ![n].keys = {}] /\ UNCHANGED operators
    <3>1. PICK k : k = [kong[n] EXCEPT !.keys = {}]
      OBVIOUS
    <3>2. k \in KongRecords /\ k.keys = {} /\ kong' = [kong EXCEPT ![n] = k]
      BY <1>4, <1>7, <2>8, <3>1 DEF KongRecords
    <3>3. r.done \in {1, 2}
      BY <2>8
    <3> QED
      BY <2>7, <2>8, <3>2, <3>3
  <2>9. CASE UNCHANGED <<faults, contested>> /\ r.done = 1 /\ kong' = [kong EXCEPT ![n] = Consumerless] /\ UNCHANGED operators
    <3>1. PICK k : k = Consumerless
      OBVIOUS
    <3>2. k \in KongRecords /\ k.keys = {}
      BY <3>1, TenantsAssumption DEF KongRecords, Consumerless
    <3>3. r.done \in {1, 2}
      BY <2>9
    <3> QED
      BY <2>7, <2>9, <3>1, <3>2, <3>3
  <2>10. CASE Fault /\ contested' = contested \cup {n} /\ UNCHANGED <<operators, kong>>
    <3>1. \A m \in OpNames : Rows(m)' = Rows(m)
      BY <2>10 DEF Rows
    <3>2. faults' \in 0..MaxFaults
      BY <2>10, Faulted
    <3>3. n \in contested' /\ operators' \subseteq operators
      BY <2>10
    <3> QED
      BY <1>5, <1>6, <1>7, <2>1, <2>4, <2>10, <3>1, <3>2, <3>3
  <2> QED
    BY <1>2, <1>9, <2>6, <2>8, <2>9, <2>10 DEF Undo
<1> QED
  BY <1>1, <1>8, <1>9 DEF _rollback_provisioning

\* What the records of a saga in progress do not show: nothing but Typed and the rows.
LEMMA OthersTyped ==
    ASSUME TenantsInv, UNCHANGED <<grantVars, kong, contact, policies, drawn, overwritten>>,
           operators' \subseteq operators, url' \in 1..2, ops' \in 0..MaxOps, sagas' \in 0..MaxSagas, faults' \in 0..MaxFaults,
           contested' \subseteq OpNames, retired' \subseteq OpNames, orphaned' \subseteq OpNames, reused' \subseteq OpNames
    PROVE  Typed' /\ RowsDiffer'
BY DEF TenantsInv, Typed, RowsDiffer, grantVars

LEMMA CreateOperatorKeepsInv ==
    ASSUME TenantsInv, NEW c \in Callers, create_operator_endpoint(c)
    PROVE  TenantsInv'
<1>1. PICK t \in Existing, n \in OpNames, g \in Groups :
        /\ sagas < MaxSagas /\ sagas' = sagas + 1
        /\ Begin(c, [Idle EXCEPT !.pc = "consumer", !.t = t, !.name = n, !.group = g])
        /\ contested' = IF Rows(n) # {} \/ InFlight(n) # {} THEN contested \cup {n} ELSE contested
        /\ reused' = IF contact[n] # NoContact THEN reused \cup {n} ELSE reused
        /\ UNCHANGED <<grantVars, operators, kong, contact, policies, drawn, retired, orphaned, overwritten, url, faults>>
  BY DEF create_operator_endpoint
<1>2. PICK x : x = [Idle EXCEPT !.pc = "consumer", !.t = t, !.name = n, !.group = g]
  OBVIOUS
<1>3. x.pc = "consumer" /\ x.t = t /\ x.name = n /\ x.group = g /\ x.done = 0 /\ x.key = 0
  BY <1>2 DEF Idle
<1>4. req[c] = Idle /\ ops < MaxOps /\ ops' = ops + 1 /\ req' = [req EXCEPT ![c] = x]
  BY <1>1, <1>2 DEF Begin
<1>5. t \in TenantIds /\ tenant[t] # None
  BY DEF Existing
<1>6. x \in Requests
  <2>1. "consumer" \in PCs
    BY DEF PCs, SagaPCs
  <2>2. Idle \in Requests
    BY IdleHeld DEF Held
  <2> QED
    BY <1>2, <1>5, <2>1, <2>2 DEF Requests
<1>7. Held(c, x) /\ x.pc \notin OnGrants
  <2>1. x.pc \in SagaPCs /\ x.pc \notin OnGrants /\ x.pc # "grant" /\ DoneAt(x.pc, x.done)
        /\ x.pc \notin {"row", "contact", "policies", "putPolicies"}
    BY <1>3 DEF SagaPCs, OnGrants, DoneAt
  <2> QED
    BY <1>3, <1>5, <1>6, <2>1, Zenon DEF Held
<1>8. ops' \in 0..MaxOps
  BY <1>4, CountedOp DEF TenantsInv
<1>9. sagas' \in 0..MaxSagas
  BY <1>1, TenantsAssumption DEF TenantsInv, Typed
<1>10. contested \subseteq contested' /\ contested' \subseteq OpNames /\ reused' \subseteq OpNames
       /\ \A m \in OpNames \ {n} : m \in reused' <=> m \in reused
  BY <1>1 DEF TenantsInv, Typed
<1>11. /\ url' \in 1..2 /\ faults' \in 0..MaxFaults /\ retired' \subseteq OpNames /\ operators' \subseteq operators
       /\ orphaned' \subseteq OpNames
  BY <1>1 DEF TenantsInv, Typed
<1>12. Typed' /\ RowsDiffer'
  BY <1>1, <1>8, <1>9, <1>10, <1>11, OthersTyped
<1>13. Asked' /\ req'[c] = x /\ \A d \in Callers \ {c} : req'[d] = req[d]
  <2>1. \A u \in TenantIds : tenant[u] # None => tenant'[u] # None
    BY <1>1 DEF grantVars
  <2> QED
    BY <1>4, <1>7, <2>1, AskedStep DEF TenantsInv
<1>14. req[c].name = None /\ n # None
  BY <1>4, IdleHeld, TenantsAssumption
<1>15. \A m \in OpNames : Rows(m)' = Rows(m)
  BY <1>1 DEF Rows
<1>16. ASSUME n \notin contested'
       PROVE  Alone(c, n) /\ Worked(n, x.pc, x.done, x.key)'
  <2>1. Rows(n) = {} /\ InFlight(n) = {}
    BY <1>1, <1>16
  <2>2. \A d \in Callers : req[d].name # n
    BY <2>1 DEF InFlight
  <2>3. Quiet(n)
    BY <1>10, <1>16, <2>2 DEF TenantsInv, NamesInOrder
  <2>4. n \notin orphaned /\ (kong[n].keys = {} \/ n \in retired)
    BY <2>1, <2>3 DEF Quiet
  <2>5. contact[n] = NoContact \/ n \in reused'
    BY <1>1
  <2>6. Rows(n)' = {} /\ UNCHANGED <<kong, contact, retired, orphaned>>
    BY <1>1, <1>15, <2>1
  <2>7. "consumer" \notin {"postKey", "explicitKey", "row", "policies", "putPolicies"}
    OBVIOUS
  <2>8. Worked(n, "consumer", 0, 0)'
    BY <2>4, <2>5, <2>6, <2>7 DEF Worked
  <2> QED
    BY <1>3, <2>2, <2>8 DEF Alone
<1>17. UNCHANGED <<kong, contact, retired, orphaned, policies, overwritten>>
  BY <1>1
<1>18. NamesInOrder'
  BY <1>3, <1>10, <1>13, <1>14, <1>15, <1>16, <1>17, NamesStep DEF TenantsInv
<1>19. TenantNamesDiffer' /\ LockoutNeedsStaleAuthority'
  BY <1>1, GrantsKept
<1> QED
  BY <1>12, <1>13, <1>18, <1>19 DEF TenantsInv

\* The requests stay as they are, and so do the tenants.
LEMMA AskedKept ==
    ASSUME Asked, UNCHANGED <<req, tenant>>
    PROVE  Asked'
BY DEF Asked, Held

LEMMA DeleteOperatorKeepsInv ==
    ASSUME TenantsInv, NEW c \in Callers, delete_operator_endpoint(c)
    PROVE  TenantsInv'
<1>1. PICK o \in operators :
        /\ req[c] = Idle /\ ops < MaxOps /\ ops' = ops + 1
        /\ operators' = operators \ {o}
        /\ retired' = retired \cup {o.name} /\ orphaned' = orphaned \ {o.name}
        /\ contested' = IF InFlight(o.name) # {} THEN contested \cup {o.name} ELSE contested
        /\ UNCHANGED <<grantVars, kong, contact, policies, drawn, reused, overwritten, sagas, url, req, faults>>
  BY DEF delete_operator_endpoint
<1>2. PICK n \in OpNames : n = o.name
  BY DEF TenantsInv, Typed, OperatorRows
<1>3. PICK x : x = req[c]
  OBVIOUS
<1>4. x.name = None /\ n # None /\ req'[c] = x /\ \A d \in Callers \ {c} : req'[d] = req[d]
  BY <1>1, <1>3, IdleHeld, TenantsAssumption
<1>5. ops' \in 0..MaxOps
  BY <1>1, CountedOp DEF TenantsInv
<1>6. contested \subseteq contested' /\ contested' \subseteq OpNames /\ retired' \subseteq OpNames
      /\ n \in retired' /\ \A m \in OpNames \ {n} : m \in retired' <=> m \in retired
  BY <1>1, <1>2 DEF TenantsInv, Typed
<1>7. /\ url' \in 1..2 /\ faults' \in 0..MaxFaults /\ reused' \subseteq OpNames /\ operators' \subseteq operators
      /\ orphaned' \subseteq OpNames /\ n \notin orphaned' /\ \A m \in OpNames \ {n} : m \in orphaned' <=> m \in orphaned
      /\ sagas' \in 0..MaxSagas
  BY <1>1, <1>2 DEF TenantsInv, Typed
<1>8. Typed' /\ RowsDiffer'
  BY <1>1, <1>5, <1>6, <1>7, OthersTyped
<1>9. Asked'
  BY <1>1, AskedKept DEF TenantsInv, grantVars
<1>10. Rows(n)' = {}
  BY <1>1, <1>2 DEF Rows, TenantsInv, RowsDiffer
<1>11. \A m \in OpNames \ {n} : Rows(m)' = Rows(m)
  BY <1>1, <1>2 DEF Rows
<1>12. Quiet(n)'
  BY <1>6, <1>7, <1>10 DEF Quiet
<1>13. n \notin contested' => Alone(c, n)
  BY <1>1, <1>2 DEF InFlight, Alone
<1>14. UNCHANGED <<kong, contact, reused, policies, overwritten>>
  BY <1>1
<1>15. NamesInOrder'
  BY <1>3, <1>4, <1>6, <1>7, <1>11, <1>12, <1>13, <1>14, NamesStep DEF TenantsInv
<1>16. TenantNamesDiffer' /\ LockoutNeedsStaleAuthority'
  BY <1>1, GrantsKept
<1> QED
  BY <1>8, <1>9, <1>15, <1>16 DEF TenantsInv

\* Neither the URL nor the counters say anything of a name.
LEMMA NamesUntouched ==
    ASSUME NamesInOrder, UNCHANGED <<sagaVars, req>>
    PROVE  NamesInOrder'
BY DEF NamesInOrder, sagaVars, history, Quiet, Worked, Rows, Alone

LEMMA ConsoleMovesKeepsInv ==
    ASSUME TenantsInv, ConsoleMoves
    PROVE  TenantsInv'
<1>1. url' = 2 /\ Fault /\ UNCHANGED <<grantVars, sagaVars, req, ops>>
  BY DEF ConsoleMoves
<1>2. UNCHANGED <<operators, kong, contact, policies, drawn, overwritten, contested, retired, orphaned, reused, sagas>>
  BY <1>1 DEF sagaVars, history
<1>3. url' \in 1..2 /\ faults' \in 0..MaxFaults
  BY <1>1, Faulted
<1>4. /\ ops' \in 0..MaxOps /\ sagas' \in 0..MaxSagas /\ operators' \subseteq operators
      /\ contested' \subseteq OpNames /\ retired' \subseteq OpNames /\ orphaned' \subseteq OpNames /\ reused' \subseteq OpNames
  BY <1>1, <1>2 DEF TenantsInv, Typed
<1>5. Typed' /\ RowsDiffer'
  BY <1>1, <1>2, <1>3, <1>4, OthersTyped
<1>6. Asked'
  BY <1>1, AskedKept DEF TenantsInv, grantVars
<1>7. NamesInOrder'
  BY <1>1, NamesUntouched DEF TenantsInv
<1>8. TenantNamesDiffer' /\ LockoutNeedsStaleAuthority'
  BY <1>1, GrantsKept
<1> QED
  BY <1>5, <1>6, <1>7, <1>8 DEF TenantsInv

-----------------------------------------------------------------------------
(* The invariant. *)

LEMMA InitNames ==
    ASSUME Init
    PROVE  Asked /\ NamesInOrder
<1>1. req = [c \in Callers |-> Idle]
  BY DEF Init
<1>2. \A c \in Callers : req[c].name = None /\ Held(c, req[c]) /\ req[c].pc \notin OnGrants /\ req[c] \in Requests
  BY <1>1, IdleHeld DEF OnGrants, Held
<1>3. Asked
  BY <1>1, <1>2 DEF Asked
<1>4. \A n \in OpNames : Rows(n) = {} /\ kong[n].keys = {} /\ n \notin orphaned
  BY DEF Init, Rows, Consumerless
<1>5. \A n \in OpNames : Quiet(n)
  BY <1>4 DEF Quiet
<1>6. \A n \in OpNames, c \in Callers : req[c].name # n
  BY <1>2, TenantsAssumption
<1> QED
  BY <1>3, <1>5, <1>6 DEF NamesInOrder

LEMMA InitInv == Init => TenantsInv
<1> SUFFICES ASSUME Init PROVE TenantsInv
  OBVIOUS
<1>1. PICK f \in [{t \in TenantIds : InitialAdmins[t] # {}} -> TenantNames] :
          /\ \A t, u \in DOMAIN f : f[t] = f[u] => t = u
          /\ tenant = [t \in TenantIds |-> IF t \in DOMAIN f THEN f[t] ELSE None]
  BY DEF Init
<1>2. tenant \in [TenantIds -> TenantNames \cup {None}]
  BY <1>1
<1>3. \A t \in TenantIds : tenant[t] # None => t \in DOMAIN f /\ tenant[t] = f[t]
  BY <1>1
<1>4. TenantNamesDiffer
  BY <1>1, <1>3 DEF TenantNamesDiffer
<1>5. grant = [t \in TenantIds |-> [s \in Subjects |-> IF s \in InitialAdmins[t] THEN admin ELSE 0]]
  BY DEF Init
<1>6. grant \in [TenantIds -> [Subjects -> 0..admin]]
  BY <1>5 DEF admin
<1>7. LockoutNeedsStaleAuthority
  <2>1. ASSUME NEW t \in Existing
        PROVE  \E s \in Subjects : grant[t][s] = admin
    <3>1. t \in TenantIds /\ InitialAdmins[t] # {}
      BY <1>1, <1>3 DEF Existing
    <3>2. PICK s : s \in InitialAdmins[t]
      BY <3>1
    <3>3. s \in Subjects
      BY <3>1, <3>2, TenantsAssumption
    <3> QED
      BY <1>5, <3>1, <3>2, <3>3
  <2> QED
    BY <2>1 DEF LockoutNeedsStaleAuthority
<1>8. kong \in [OpNames -> [id : 0..MaxKeys, keys : SUBSET Keys]]
  <2>1. Consumerless \in [id : 0..MaxKeys, keys : SUBSET Keys]
    BY TenantsAssumption DEF Consumerless
  <2> QED
    BY <2>1 DEF Init
<1>9. contact \in [OpNames -> [url : 0..2, cred : 0..MaxKeys]]
  <2>1. NoContact \in [url : 0..2, cred : 0..MaxKeys]
    BY TenantsAssumption DEF NoContact
  <2> QED
    BY <2>1 DEF Init
<1>10. /\ operators = {} /\ policies \subseteq OpNames /\ url \in 1..2
       /\ excused \subseteq TenantIds /\ overwritten \in BOOLEAN
       /\ contested \subseteq OpNames /\ retired \subseteq OpNames /\ orphaned \subseteq OpNames /\ reused \subseteq OpNames
  <2>1. operators = {} /\ policies = {} /\ url = 1 /\ excused = {} /\ overwritten = FALSE
        /\ contested = {} /\ retired = {} /\ orphaned = {} /\ reused = {}
    BY DEF Init
  <2>2. 1 \in 1..2 /\ FALSE \in BOOLEAN
    OBVIOUS
  <2> QED
    BY <2>1, <2>2, Zenon
<1>11. drawn \in 0..MaxKeys /\ ops \in 0..MaxOps /\ sagas \in 0..MaxSagas /\ faults \in 0..MaxFaults
  BY TenantsAssumption DEF Init
<1>12. operators \subseteq OperatorRows /\ RowsDiffer
  BY <1>10 DEF RowsDiffer
<1>13. Typed
  BY <1>2, <1>6, <1>8, <1>9, <1>10, <1>11, <1>12 DEF Typed
<1> QED
  BY <1>4, <1>7, <1>12, <1>13, InitNames DEF TenantsInv

LEMMA StutterKeepsInv ==
    ASSUME TenantsInv, UNCHANGED vars
    PROVE  TenantsInv'
<1>1. UNCHANGED <<grantVars, sagaVars, url, req, ops, faults>>
  BY DEF vars
<1>2. /\ ops' \in 0..MaxOps /\ faults' \in 0..MaxFaults
  BY <1>1 DEF TenantsInv, Typed
<1>3. Typed' /\ RowsDiffer'
  BY <1>1, <1>2, GrantsKept, SagaVarsKept DEF TenantsInv
<1>4. Asked'
  BY <1>1, AskedKept DEF TenantsInv, grantVars
<1>5. NamesInOrder'
  BY <1>1, NamesUntouched DEF TenantsInv
<1> QED
  BY <1>1, <1>3, <1>4, <1>5, GrantsKept DEF TenantsInv

LEMMA NextKeepsInv ==
    ASSUME TenantsInv, [Next]_vars
    PROVE  TenantsInv'
<1>1. CASE UNCHANGED vars
  BY <1>1, StutterKeepsInv
<1>2. CASE ConsoleMoves
  BY <1>2, ConsoleMovesKeepsInv
<1>3. ASSUME NEW c \in Callers,
             \/ create_tenant_endpoint(c) \/ Authorize(c) \/ update_tenant_endpoint(c)
             \/ add_role_endpoint(c) \/ add_grant(c) \/ remove_role_endpoint(c)
      PROVE  TenantsInv'
  BY <1>3, CreateTenantKeepsInv, AuthorizeKeepsInv, UpdateTenantKeepsInv, AddRoleKeepsInv, AddGrantKeepsInv,
     RemoveRoleKeepsInv
<1>4. ASSUME NEW c \in Callers, ensure_consumer(c) \/ create_or_update_api_key(c)
      PROVE  TenantsInv'
  BY <1>4, EnsureConsumerKeepsInv, CreateConsumerKeepsInv, DeleteKeysKeepsInv, PostKeyKeepsInv
     DEF ensure_consumer, create_or_update_api_key
<1>5. ASSUME NEW c \in Callers, InsertOperator(c) \/ ensure_grafana_connections(c)
      PROVE  TenantsInv'
  BY <1>5, InsertOperatorKeepsInv, ContactPointKeepsInv, PolicyTreeKeepsInv, SubPolicyKeepsInv
     DEF ensure_grafana_connections
<1>6. ASSUME NEW c \in Callers,
             create_operator_endpoint(c) \/ _rollback_provisioning(c) \/ delete_operator_endpoint(c)
      PROVE  TenantsInv'
  BY <1>6, CreateOperatorKeepsInv, RollbackKeepsInv, DeleteOperatorKeepsInv
<1> QED
  BY <1>1, <1>2, <1>3, <1>4, <1>5, <1>6 DEF Next

LEMMA InvHolds == Spec => []TenantsInv
<1>1. TenantsInv /\ [Next]_vars => TenantsInv'
  BY NextKeepsInv
<1> QED
  BY <1>1, InitInv, PTL DEF Spec

-----------------------------------------------------------------------------
(* What follows. *)

LEMMA TypeOKHolds ==
    ASSUME TenantsInv
    PROVE  TypeOK
<1>1. \A t, u \in Existing : tenant[t] = tenant[u] => t = u
  BY DEF TenantsInv, TenantNamesDiffer, Existing
<1>2. req \in [Callers -> [pc : PCs, t : TenantIds \cup {None}, s : Subjects \cup {None},
                           role : 0..admin, found : BOOLEAN, name : OpNames \cup {None},
                           group : Groups \cup {None}, done : 0..3, consumer : 0..MaxKeys,
                           key : 0..MaxKeys, tree : SUBSET OpNames]]
  BY DEF TenantsInv, Asked, Requests
<1> QED
  BY <1>1, <1>2 DEF TypeOK, TenantsInv, Typed, RowsDiffer, OperatorRows

LEMMA AgreedAtRest ==
    ASSUME TenantsInv
    PROVE  KongFollowsRows /\ OperatorIsWired
<1>1. ASSUME NEW n \in OpNames, n \notin contested, InFlight(n) = {}
      PROVE  Quiet(n)
  BY <1>1 DEF TenantsInv, NamesInOrder, InFlight
<1>2. KongFollowsRows
  <2>1. ASSUME NEW n \in OpNames \ contested, InFlight(n) = {}
        PROVE  \/ kong[n].keys = IF n \in orphaned THEN {} ELSE {o.apikey : o \in Rows(n)}
               \/ Rows(n) = {} /\ n \in retired
    <3>1. Quiet(n)
      BY <1>1, <2>1
    <3>2. CASE Rows(n) = {}
      BY <3>1, <3>2 DEF Quiet
    <3>5. CASE n \in orphaned
      BY <3>1, <3>5 DEF Quiet
    <3>3. CASE Rows(n) # {} /\ n \notin orphaned
      <4>1. PICK o : o \in Rows(n)
        BY <3>3
      <4>2. \A p \in Rows(n) : p = o
        BY <4>1 DEF Rows, TenantsInv, RowsDiffer
      <4>3. {p.apikey : p \in Rows(n)} = {o.apikey}
        BY <4>1, <4>2
      <4>4. kong[n].keys = {o.apikey}
        BY <3>1, <3>3, <4>1 DEF Quiet
      <4> QED
        BY <3>3, <4>3, <4>4
    <3> QED
      BY <3>2, <3>3, <3>5
  <2> QED
    BY <2>1 DEF KongFollowsRows
<1>3. OperatorIsWired
  <2>1. ASSUME NEW o \in operators, InFlight(o.name) = {}, o.name \notin contested, o.name \notin orphaned
        PROVE  /\ contact[o.name] # NoContact
               /\ contact[o.name].cred = o.apikey \/ o.name \in reused
               /\ o.name \in policies \/ overwritten
    <3>1. o.name \in OpNames
      BY DEF TenantsInv, Typed, OperatorRows
    <3>2. o \in Rows(o.name)
      BY DEF Rows
    <3> QED
      BY <1>1, <2>1, <3>1, <3>2 DEF Quiet
  <2> QED
    BY <2>1 DEF OperatorIsWired
<1> QED
  BY <1>2, <1>3

\* The database, Kong and Grafana agree on the operators (operator_provisoioning.py): a name that only
\* one request worked on, and whose operator nobody deleted, has in Kong exactly the key of its row, or
\* none where the row was stored by an insertion that failed; and an operator whose insertion was
\* answered is routed to.  Any call of the saga may fail, or lose its answer.
THEOREM OperatorsInAgreement == Spec => []OperatorsAgree
<1>1. TenantsInv => OperatorsAgree
  BY TypeOKHolds, AgreedAtRest DEF OperatorsAgree
<1> QED
  BY <1>1, InvHolds, PTL

\* A tenant has no admin left only where a superadmin changed its grants, or somebody whose own admin
\* grant was gone by then (require_tenant_admin and _guard_self_modification).
THEOREM NoLockout == Spec => []LockoutNeedsStaleAuthority
<1>1. TenantsInv => LockoutNeedsStaleAuthority
  BY DEF TenantsInv
<1> QED
  BY <1>1, InvHolds, PTL
=============================================================================
