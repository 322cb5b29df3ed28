------------------------------- MODULE Access -------------------------------
(***************************************************************************)
(* API keys and the users of the database identity manager.  A key lives   *)
(* in two stores: its hash in the table tenantapikey, whose primary key is *)
(* that hash, and its value in the secret manager, under a name made of    *)
(* its reference id.  Kubernetes' names are lowercase and without          *)
(* underscores: ids that differ in nothing else have one secret there      *)
(* (NameOf), although the table keeps them apart.                          *)
(* src/utils/tenant_utils.py and src/routes/settings.py change the two one *)
(* after the other; authverifierbase.py accepts a key by its hash, notes   *)
(* that it was used, and creates the users an admin key impersonates.      *)
(*                                                                         *)
(* A step is one call of one store, which may fail.  Rows are updated and  *)
(* flagged by the hash that was read, so that a row rotated in between     *)
(* makes the statement match nothing (StaleDataError).  Keys are numbers,  *)
(* a hash is the key it is of; one tenant; requests refused before they    *)
(* change anything are left out.                                           *)
(***************************************************************************)
EXTENDS Integers, FiniteSets

CONSTANTS Refs,        \* reference ids, unique per tenant
          System,      \* the ones get_or_create_api_key is called for ("webhook")
          Users, DefaultUser,
          Clients,
          None,
          SecretNames,
          NameOf,      \* write_secret, read_secret, delete_secret: the name of an id's secret
          ForceReset,  \* KEEP_FORCE_RESET_DEFAULT_PASSWORD
          MaxKeys,     \* bound: keys drawn
          MaxOps,      \* bound: requests and start-ups
          MaxFaults    \* bound: calls that fail

Passwords == {"", "given", "default"}
KeyRow == [hash : 1..MaxKeys, deleted : BOOLEAN]

ASSUME AccessAssumption ==
    /\ System \subseteq Refs /\ DefaultUser \in Users /\ ForceReset \in BOOLEAN
    /\ NameOf \in [Refs -> SecretNames]
    /\ MaxKeys \in Nat /\ MaxOps \in Nat /\ MaxFaults \in Nat
    /\ None \notin Refs \cup Users \cup Passwords /\ None \notin KeyRow

VARIABLES
    row,        \* tenantapikey: hash, is_deleted and role per reference id
    secret,     \* the secret manager: the value per name, 0 for none
    drawn,      \* keys drawn so far
    cached,     \* key_last_used_updates
    recorded,   \* reference ids with a last_used
    user,       \* the table user: the password of each user ("" when provisioned)
    req,        \* what each client's request has read
    ops, faults,
    muddled,    \* history: ids whose two stores were changed by overlapping, repeated or failed
                \* requests, or whose secret another id's request may change
    ended,      \* history: ids whose deletion was answered 200
    overtaken,  \* history: ids rotated while a use was being noted
    signed,     \* history: users somebody signed in as
    entitled    \* history: users that were given a password

keyVars == <<row, secret, drawn, muddled, ended>>
useVars == <<cached, recorded, overtaken>>
userVars == <<user, signed, entitled>>
vars == <<keyVars, useVars, userVars, req, ops, faults>>

Idle == [pc |-> "idle", ref |-> None, key |-> 0, seen |-> 0, user |-> None, found |-> FALSE]
PCs == {"idle", "create", "insert", "rotate", "rehash", "drop", "flag", "read",
        "touch", "touched", "provision", "start"}

Init ==
    /\ row = [r \in Refs |-> None] /\ secret = [n \in SecretNames |-> 0] /\ drawn = 0
    /\ cached = {} /\ recorded = {}
    /\ user = [u \in Users |-> None]
    /\ req = [c \in Clients |-> Idle]
    /\ ops = 0 /\ faults = 0
    /\ muddled = {} /\ ended = {} /\ overtaken = {} /\ signed = {} /\ entitled = {}

Fault == faults < MaxFaults /\ faults' = faults + 1
Rows == {r \in Refs : row[r] # None}
Changing(r) == {c \in Clients : req[c].ref = r /\ req[c].pc \notin {"touch", "touched", "provision"}}
\* get_api_key: the key's row, unless it is deleted.
get_api_key(k) == {r \in Rows : row[r].hash = k /\ ~row[r].deleted}

Begin(c, new) ==
    /\ req[c] = Idle /\ ops < MaxOps /\ ops' = ops + 1
    /\ req' = [req EXCEPT ![c] = new]
\* The ids with the same secret, and those of them that r's request gets in the way of.
Kin(r) == {s \in Refs : NameOf[s] = NameOf[r]}
Rivals(r) == {s \in Kin(r) : Changing(s) # {} \/ (s # r /\ s \in Rows)}
\* A request that will change the key r in both stores.
BeginKey(c, p, r) ==
    /\ Begin(c, [Idle EXCEPT !.pc = p, !.ref = r, !.seen = IF r \in Rows THEN row[r].hash ELSE 0])
    /\ muddled' = IF Rivals(r) # {} THEN muddled \cup {r} \cup Rivals(r) ELSE muddled
    /\ UNCHANGED <<row, secret, drawn, ended, useVars, userVars, faults>>
Goto(c, p) == req' = [req EXCEPT ![c].pc = p]
End(c) == req' = [req EXCEPT ![c] = Idle]
\* A call raised after the first store was written or may have been.
Fails(c) == Fault /\ End(c) /\ muddled' = muddled \cup {req[c].ref}

(***************************************************************************)
(* Keys                                                                    *)
(***************************************************************************)
\* POST /settings/apikey: nothing looks whether the id is taken.
create_key(c) == \E r \in Refs : BeginKey(c, "create", r)
\* Look, then create or read.
get_or_create_api_key(c, r) == BeginKey(c, IF r \in Rows THEN "read" ELSE "create", r)
\* GET /settings/webhook, GET /providers/{type}/webhook.
webhook_settings(c) == \E r \in System : get_or_create_api_key(c, r)
get_webhook_settings(c) == \E r \in System : get_or_create_api_key(c, r)
\* PUT /settings/apikey, whether or not the key is deleted.
update_api_key(c) == \E r \in Rows : BeginKey(c, "rotate", r)
\* DELETE /settings/apikey/{keyId}.
delete_api_key(c) == \E r \in {q \in Rows : ~row[q].deleted} : BeginKey(c, "drop", r)

\* str(uuid4())
FreshKey == drawn + 1
\* create_api_key and update_api_key_internal write the secret first.
WriteSecret(c) ==
    LET r == req[c].ref IN
    /\ req[c].pc \in {"create", "rotate"}
    /\ \/ /\ drawn < MaxKeys /\ drawn' = drawn + 1
          /\ secret' = [secret EXCEPT ![NameOf[r]] = FreshKey]
          /\ req' = [req EXCEPT ![c].key = FreshKey,
                                ![c].pc = IF @ = "create" THEN "insert" ELSE "rehash"]
          /\ UNCHANGED <<muddled, faults>>
       \/ Fails(c) /\ UNCHANGED <<secret, drawn>>
    /\ UNCHANGED <<row, ended, useVars, userVars, ops>>

\* create_api_key: the row; an id that is taken, by a deleted key too, is refused.
InsertKey(c) ==
    LET r == req[c].ref IN
    /\ req[c].pc = "insert"
    /\ \/ /\ r \notin Rows
          /\ row' = [row EXCEPT ![r] = [hash |-> req[c].key, deleted |-> FALSE]]
          /\ End(c) /\ UNCHANGED <<muddled, faults>>
       \/ r \in Rows /\ End(c) /\ muddled' = muddled \cup {r} /\ UNCHANGED <<row, faults>>
       \/ Fails(c) /\ UNCHANGED row
    /\ UNCHANGED <<secret, drawn, ended, useVars, userVars, ops>>

\* The row is addressed by the hash that was read.
Matches(r, seen) == r \in Rows /\ row[r].hash = seen

\* Mutated form of Rehash: the hash of the key that was read is kept.
MutRehashKept(c) ==
    /\ req[c].pc = "rehash" /\ End(c)
    /\ UNCHANGED <<keyVars, useVars, userVars, ops, faults>>
\* update_api_key_internal: the new hash.
Rehash(c) ==
    LET r == req[c].ref IN
    /\ req[c].pc = "rehash"
    /\ \/ Matches(r, req[c].seen) /\ row' = [row EXCEPT ![r].hash = req[c].key] /\ End(c)
          /\ UNCHANGED <<muddled, faults>>
       \/ ~Matches(r, req[c].seen) /\ End(c) /\ muddled' = muddled \cup {r} /\ UNCHANGED <<row, faults>>
       \/ Fails(c) /\ UNCHANGED row
    /\ UNCHANGED <<secret, drawn, ended, useVars, userVars, ops>>

\* delete_api_key: the secret goes first.  Of a secret that is not there some
\* managers raise (files, Kubernetes) and some do not (the database, Vault).
DropSecret(c) ==
    LET r == req[c].ref IN
    /\ req[c].pc = "drop"
    /\ \/ secret' = [secret EXCEPT ![NameOf[r]] = 0] /\ Goto(c, "flag") /\ UNCHANGED <<muddled, faults>>
       \/ secret[NameOf[r]] = 0 /\ End(c) /\ UNCHANGED <<secret, muddled, faults>>
       \/ Fails(c) /\ UNCHANGED secret
    /\ UNCHANGED <<row, drawn, ended, useVars, userVars, ops>>

\* Mutated form of Flag: an update that matches nothing is not noticed.
MutFlagUnnoticed(c) ==
    LET r == req[c].ref IN
    /\ req[c].pc = "flag" /\ End(c)
    /\ ended' = ended \cup {r}
    /\ row' = IF Matches(r, req[c].seen) THEN [row EXCEPT ![r].deleted = TRUE] ELSE row
    /\ UNCHANGED <<secret, drawn, muddled, useVars, userVars, ops, faults>>
\* Then the row is flagged, and the deletion answered.
Flag(c) ==
    LET r == req[c].ref IN
    /\ req[c].pc = "flag"
    /\ \/ /\ Matches(r, req[c].seen)
          /\ row' = [row EXCEPT ![r].deleted = TRUE] /\ ended' = ended \cup {r}
          /\ End(c) /\ UNCHANGED <<muddled, faults>>
       \/ /\ ~Matches(r, req[c].seen) /\ End(c)
          /\ muddled' = muddled \cup {r} /\ UNCHANGED <<row, ended, faults>>
       \/ Fails(c) /\ UNCHANGED <<row, ended>>
    /\ UNCHANGED <<secret, drawn, useVars, userVars, ops>>

\* GET /settings/apikeys (a system key's secret: get_or_create_api_key): the
\* keys that are not deleted and whose secret can be read.
get_api_keys_secret ==
    [r \in {q \in Rows : ~row[q].deleted /\ secret[NameOf[q]] # 0} |-> secret[NameOf[r]]]

\* get_or_create_api_key returns the secret of the row it found.
ReadSecret(c) ==
    /\ req[c].pc = "read" /\ End(c)
    /\ UNCHANGED <<keyVars, useVars, userVars, ops, faults>>

(***************************************************************************)
(* Authentication                                                          *)
(***************************************************************************)
\* The keys a request carries, 0 for none: the header and the query parameter,
\* and a key under the scheme of its Authorization header.
Credentials ==
    [header : 0..drawn, query : 0..drawn, scheme : {"basic", "digest", "other"}, given : 0..drawn]

\* The header's key, else the query's, else that of a basic or digest scheme.
_extract_api_key(h) ==
    CASE h.header # 0 -> h.header
      [] h.header = 0 /\ h.query # 0 -> h.query
      [] OTHER -> IF h.scheme = "other" THEN 0 ELSE h.given

\* _verify_api_key: the row of the key; an admin key may impersonate a user.
_verify_api_key(c, k) ==
    \E u \in Users \cup {None} : \E r \in get_api_key(k) :
        /\ Begin(c, [Idle EXCEPT !.pc = "touch", !.ref = r, !.key = k, !.seen = k, !.user = u])
        /\ UNCHANGED <<keyVars, useVars, userVars, faults>>

\* __call__: a bearer token comes before any key and reads no table; a request
\* without a key is refused.  The scopes are checked last: their refusal (403)
\* takes back nothing of what the check of the key wrote.
authenticate(c) == \E k \in {_extract_api_key(h) : h \in Credentials} : _verify_api_key(c, k)

\* After the use was noted: answer, or look for the user (auto provisioning).
Verified(c) ==
    IF req[c].user = None THEN End(c)
    ELSE req' = [req EXCEPT ![c].pc = "provision", ![c].found = user[req[c].user] # None]

\* A cached id is not looked at again, however old its entry is; else
\* update_key_last_used reads the row.
Touch(c) ==
    LET r == req[c].ref IN
    /\ req[c].pc = "touch"
    /\ IF r \in cached
       THEN Verified(c)
       ELSE req' = [req EXCEPT ![c].pc = "touched", ![c].seen = row[r].hash]
    /\ UNCHANGED <<keyVars, useVars, userVars, ops, faults>>

\* ... and commits last_used.  The rollback after a StaleDataError also takes
\* back the assignment, so the retry commits nothing and returns.  What fails
\* otherwise is logged, and the key is accepted all the same.
update_key_last_used(c) ==
    LET r == req[c].ref IN
    /\ req[c].pc = "touched" /\ Verified(c)
    /\ \/ /\ cached' = cached \cup {r} /\ UNCHANGED faults
          /\ IF Matches(r, req[c].seen)
             THEN recorded' = recorded \cup {r} /\ UNCHANGED overtaken
             ELSE overtaken' = overtaken \cup {r} /\ UNCHANGED recorded
       \/ Fault /\ UNCHANGED useVars
    /\ UNCHANGED <<keyVars, userVars, ops>>

\* _provision_user: a user found missing is created without a password; one
\* created meanwhile makes the insert fail and the request be refused (401).
_provision_user(c) ==
    LET u == req[c].user IN
    /\ req[c].pc = "provision" /\ End(c)
    /\ user' = IF ~req[c].found /\ user[u] = None THEN [user EXCEPT ![u] = ""] ELSE user
    /\ UNCHANGED <<keyVars, useVars, signed, entitled, ops, faults>>

(***************************************************************************)
(* Users                                                                   *)
(***************************************************************************)
Request(c) == req[c] = Idle /\ ops < MaxOps /\ ops' = ops + 1 /\ UNCHANGED <<req, faults>>

create_user(c) ==
    \E u \in Users :
        /\ Request(c) /\ user[u] = None
        /\ user' = [user EXCEPT ![u] = "given"] /\ entitled' = entitled \cup {u}
        /\ UNCHANGED <<keyVars, useVars, signed>>

\* Whoever is created under the name again starts anew.
delete_user(c) ==
    \E u \in Users :
        /\ Request(c) /\ user[u] # None
        /\ user' = [user EXCEPT ![u] = None]
        /\ entitled' = entitled \ {u} /\ signed' = signed \ {u}
        /\ UNCHANGED <<keyVars, useVars>>

\* Mutated form of Admitted: an empty password is compared like any other.
MutAdmittedEmpty(u, password) == user[u] = password
\* POST /signin refuses an empty password before it looks for the user.
Admitted(u, password) == password # "" /\ user[u] = password

signin(c) ==
    \E u \in Users, password \in Passwords :
        /\ Request(c) /\ Admitted(u, password)
        /\ signed' = signed \cup {u}
        /\ UNCHANGED <<keyVars, useVars, user, entitled>>

\* try_create_single_tenant: is there a user, and which comes first.
StartRead(c) ==
    \E u \in Users \cup {None} :
        /\ IF u = None THEN \A v \in Users : user[v] = None ELSE user[u] # None
        /\ Begin(c, [Idle EXCEPT !.pc = "start", !.user = u])
        /\ UNCHANGED <<keyVars, useVars, userVars, faults>>

\* KEEP_FORCE_RESET_DEFAULT_PASSWORD: the user found first becomes the default user.
Reset(u) == [user EXCEPT ![u] = None, ![DefaultUser] = "default"]

\* The commit: the default user, or the reset one.  A name that is taken, or a
\* user that is gone, raises and changes nothing; with KEEP_DEFAULT_API_KEYS a
\* failing import is swallowed and nothing is committed either.
try_create_single_tenant(c) ==
    LET u == req[c].user IN
    /\ req[c].pc = "start" /\ End(c)
    /\ \/ /\ u = None /\ user[DefaultUser] = None
          /\ user' = [user EXCEPT ![DefaultUser] = "default"]
          /\ entitled' = entitled \cup {DefaultUser} /\ UNCHANGED signed
       \/ /\ u # None /\ ForceReset /\ user[u] # None
          /\ u = DefaultUser \/ user[DefaultUser] = None
          /\ user' = Reset(u)
          /\ entitled' = (entitled \ {u}) \cup {DefaultUser}
          /\ signed' = IF u = DefaultUser THEN signed ELSE signed \ {u}
       \/ UNCHANGED userVars
    /\ UNCHANGED <<keyVars, useVars, ops, faults>>

Next ==
    \E c \in Clients :
        \/ create_key(c) \/ webhook_settings(c) \/ get_webhook_settings(c)
        \/ update_api_key(c) \/ delete_api_key(c)
        \/ WriteSecret(c) \/ InsertKey(c) \/ Rehash(c) \/ DropSecret(c) \/ Flag(c) \/ ReadSecret(c)
        \/ authenticate(c) \/ Touch(c) \/ update_key_last_used(c) \/ _provision_user(c)
        \/ create_user(c) \/ delete_user(c) \/ signin(c) \/ StartRead(c) \/ try_create_single_tenant(c)

Spec == Init /\ [][Next]_vars

(***************************************************************************)
(* Properties                                                              *)
(***************************************************************************)
\* Types; no key is accepted for two reference ids.
TypeOK ==
    /\ row \in [Refs -> KeyRow \cup {None}]
    /\ \A r, q \in Rows : row[r].hash = row[q].hash => r = q
    /\ secret \in [SecretNames -> 0..MaxKeys] /\ drawn \in 0..MaxKeys
    /\ user \in [Users -> Passwords \cup {None}]
    /\ req \in [Clients -> [pc : PCs, ref : Refs \cup {None}, key : 0..MaxKeys, seen : 0..MaxKeys,
                            user : Users \cup {None}, found : BOOLEAN]]
    /\ ops \in 0..MaxOps /\ faults \in 0..MaxFaults
    /\ cached \subseteq Refs /\ recorded \subseteq Refs /\ overtaken \subseteq Refs
    /\ muddled \subseteq Refs /\ ended \subseteq Refs /\ signed \subseteq Users /\ entitled \subseteq Users

\* Every live key is shown (GET /apikeys, GET /webhook, a provider's webhook),
\* and the key shown is the one the gateway accepts, unless requests on the id
\* overlapped, were repeated on a taken id, or failed between the two stores, or
\* an id with the same secret was there or being changed.
ShownKeyIsAccepted ==
    \A r \in Rows \ muddled :
        ~row[r].deleted /\ Changing(r) = {} =>
            r \in DOMAIN get_api_keys_secret /\ get_api_key(get_api_keys_secret[r]) = {r}

\* Once a deletion was answered 200 no key ever drawn for the id is accepted,
\* whatever rotations, uses and creations overlapped or followed it.
AnsweredDeletionHolds == \A r \in ended, k \in 1..MaxKeys : r \notin get_api_key(k)

\* A key whose uses are no longer written down has a last_used, although the
\* update may fail; a rotation under the update is the exception.
SkippedMeansRecorded == cached \subseteq recorded \cup overtaken

\* Nobody signs in as a user that only impersonation created: such users have an
\* empty password.  A user that was reset, deleted or created anew counts anew.
OnlyEntitledSignIn == signed \subseteq entitled

\* A live key, over both stores and the cache of its uses.
KeysAreSound == TypeOK /\ ShownKeyIsAccepted /\ SkippedMeansRecorded

=============================================================================
