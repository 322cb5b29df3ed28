---------------------------- MODULE AccessProofs ----------------------------
(***************************************************************************)
(* Proofs about Access: for any sets of reference ids, users and clients   *)
(* and any bounds, an answered deletion holds, nobody signs in as a user   *)
(* that was given no password, no key is accepted for two ids, and the key *)
(* that is shown is the one that is accepted.                              *)
(***************************************************************************)
EXTENDS Access, TLAPS

RequestRecord == [pc : PCs, ref : Refs \cup {None}, key : 0..MaxKeys, seen : 0..MaxKeys,
                  user : Users \cup {None}, found : BOOLEAN]

\* What a request holds at its step: a reference id, a row that was there, a
\* user, a key that was drawn.
Holds(q) ==
    /\ q \in RequestRecord
    /\ q.pc \in {"idle", "start"} <=> q.ref = None
    /\ q.pc \in {"touch", "touched"} => q.ref \in Rows
    /\ q.pc = "provision" => q.user \in Users
    /\ q.pc \in {"insert", "rehash"} => q.key \in 1..drawn

RequestsHold == req \in [Clients -> RequestRecord] /\ \A c \in Clients : Holds(req[c])

StoresTyped ==
    /\ row \in [Refs -> KeyRow \cup {None}]
    /\ secret \in [SecretNames -> 0..MaxKeys] /\ drawn \in 0..MaxKeys
    /\ ops \in 0..MaxOps /\ faults \in 0..MaxFaults

RestTyped ==
    /\ user \in [Users -> Passwords \cup {None}]
    /\ cached \subseteq Refs /\ recorded \subseteq Refs /\ overtaken \subseteq Refs
    /\ muddled \subseteq Refs /\ ended \subseteq Refs /\ signed \subseteq Users /\ entitled \subseteq Users

Typed == RequestsHold /\ StoresTyped /\ RestTyped

\* The row of an id whose deletion was answered is there and flagged.
EndedIsDeleted == \A r \in ended : r \in Rows /\ row[r].deleted

\* Whoever has a password was given it.
PasswordMeansEntitled == \A u \in Users : user[u] \in {"given", "default"} => u \in entitled
SignInInv == OnlyEntitledSignIn /\ PasswordMeansEntitled

-----------------------------------------------------------------------------
\* The requests that read and write no key.
UserStep(c) ==
    \/ create_user(c) \/ delete_user(c) \/ signin(c) \/ StartRead(c) \/ try_create_single_tenant(c)
    \/ _provision_user(c)
UseStep(c) == authenticate(c) \/ Touch(c) \/ update_key_last_used(c)
OpenStep(c) ==
    create_key(c) \/ webhook_settings(c) \/ get_webhook_settings(c) \/ update_api_key(c) \/ delete_api_key(c)
StoreStep(c) ==
    WriteSecret(c) \/ InsertKey(c) \/ Rehash(c) \/ DropSecret(c) \/ Flag(c) \/ ReadSecret(c)

\* Every step is of one of these kinds.
LEMMA NextKinds ==
    Next <=> \E c \in Clients : UserStep(c) \/ UseStep(c) \/ OpenStep(c) \/ StoreStep(c)
BY DEF Next, UserStep, UseStep, OpenStep, StoreStep

\* Only a step of the key stores changes them.
LEMMA KeysKept ==
    ASSUME NEW c \in Clients, UserStep(c) \/ UseStep(c)
    PROVE  UNCHANGED keyVars
<1>1. CASE UserStep(c)
  BY <1>1 DEF UserStep, create_user, delete_user, signin, StartRead, try_create_single_tenant,
              _provision_user
<1>2. CASE UseStep(c)
  BY <1>2 DEF UseStep, authenticate, _verify_api_key, Touch, update_key_last_used
<1> QED BY <1>1, <1>2

\* A request on a key begins without touching the two stores.
LEMMA OpensKey ==
    ASSUME NEW c \in Clients, OpenStep(c)
    PROVE  \E p \in {"create", "read", "rotate", "drop"}, r \in Refs :
             /\ BeginKey(c, p, r)
             /\ p # "create" => r \in Rows
             /\ p = "drop" => ~row[r].deleted
BY AccessAssumption DEF OpenStep, create_key, webhook_settings, get_webhook_settings,
   get_or_create_api_key, update_api_key, delete_api_key, Rows

\* The stores and the counters keep their types; a row that is there stays, and
\* keys are only drawn.
LEMMA StoresStep ==
    Typed /\ [Next]_vars => StoresTyped' /\ Rows \subseteq Rows' /\ drawn <= drawn'
<1> SUFFICES ASSUME Typed, [Next]_vars
             PROVE  StoresTyped' /\ Rows \subseteq Rows' /\ drawn <= drawn'
  OBVIOUS
<1>t. /\ row \in [Refs -> KeyRow \cup {None}] /\ secret \in [SecretNames -> 0..MaxKeys]
      /\ drawn \in 0..MaxKeys /\ ops \in 0..MaxOps /\ faults \in 0..MaxFaults
      /\ None \notin KeyRow /\ MaxKeys \in Nat /\ MaxOps \in Nat /\ MaxFaults \in Nat
      /\ None \notin Refs
  BY AccessAssumption DEF Typed, StoresTyped
<1>q. \A c \in Clients : Holds(req[c])
  BY DEF Typed, RequestsHold
<1>c. /\ Fault => faults' \in 0..MaxFaults
      /\ ops < MaxOps /\ ops' = ops + 1 => ops' \in 0..MaxOps
  BY <1>t DEF Fault
<1>1. ASSUME NEW c \in Clients, UserStep(c) \/ UseStep(c)
      PROVE  StoresTyped' /\ Rows \subseteq Rows' /\ drawn <= drawn'
  <2>1. UNCHANGED keyVars
    BY <1>1, KeysKept
  <2>2. ops' \in 0..MaxOps /\ faults' \in 0..MaxFaults
    <3>1. UNCHANGED ops \/ (ops < MaxOps /\ ops' = ops + 1)
      BY <1>1 DEF UserStep, UseStep, create_user, delete_user, signin, StartRead, Request, Begin,
         try_create_single_tenant, _provision_user, authenticate, _verify_api_key, Touch,
         update_key_last_used
    <3>2. UNCHANGED faults \/ Fault
      BY <1>1 DEF UserStep, UseStep, create_user, delete_user, signin, StartRead, Request, Begin,
         try_create_single_tenant, _provision_user, authenticate, _verify_api_key, Touch,
         update_key_last_used
    <3> QED BY <1>t, <1>c, <3>1, <3>2
  <2> QED BY <1>t, <2>1, <2>2 DEF keyVars, StoresTyped, Rows
<1>2. ASSUME NEW c \in Clients, OpenStep(c)
      PROVE  StoresTyped' /\ Rows \subseteq Rows' /\ drawn <= drawn'
  <2>1. PICK p, r : BeginKey(c, p, r)
    BY <1>2, OpensKey
  <2> QED BY <1>t, <1>c, <2>1 DEF BeginKey, Begin, StoresTyped, Rows
<1>3. ASSUME NEW c \in Clients, StoreStep(c)
      PROVE  StoresTyped' /\ Rows \subseteq Rows' /\ drawn <= drawn'
  <2>1. CASE WriteSecret(c)
    <3>1. UNCHANGED <<secret, drawn>> \/
          (drawn < MaxKeys /\ drawn' = drawn + 1 /\ secret' = [secret EXCEPT ![NameOf[req[c].ref]] = drawn + 1])
      BY <2>1 DEF WriteSecret, FreshKey
    <3>2. secret' \in [SecretNames -> 0..MaxKeys] /\ drawn' \in 0..MaxKeys /\ drawn <= drawn'
      BY <1>t, <3>1
    <3>3. UNCHANGED <<row, ops>> /\ (UNCHANGED faults \/ Fault)
      BY <2>1 DEF WriteSecret, Fails
    <3> QED BY <1>t, <1>c, <3>2, <3>3 DEF StoresTyped, Rows
  <2>2. CASE InsertKey(c)
    <3>1. \/ UNCHANGED row
          \/ /\ req[c].ref \notin Rows
             /\ row' = [row EXCEPT ![req[c].ref] = [hash |-> req[c].key, deleted |-> FALSE]]
      BY <2>2 DEF InsertKey
    <3>2. [hash |-> req[c].key, deleted |-> FALSE] \in KeyRow
      BY <1>t, <1>q, <2>2 DEF InsertKey, Holds, KeyRow
    <3>3. row' \in [Refs -> KeyRow \cup {None}] /\ Rows \subseteq Rows'
      BY <1>t, <3>1, <3>2 DEF Rows
    <3>4. UNCHANGED <<secret, drawn, ops>> /\ (UNCHANGED faults \/ Fault)
      BY <2>2 DEF InsertKey, Fails
    <3> QED BY <1>t, <1>c, <3>3, <3>4 DEF StoresTyped
  <2>3. CASE Rehash(c)
    <3>1. \/ UNCHANGED row
          \/ req[c].ref \in Rows /\ row' = [row EXCEPT ![req[c].ref].hash = req[c].key]
      BY <2>3 DEF Rehash, Matches
    <3>2. req[c].key \in 1..MaxKeys
      BY <1>t, <1>q, <2>3 DEF Rehash, Holds
    <3>3. row' \in [Refs -> KeyRow \cup {None}] /\ Rows \subseteq Rows'
      BY <1>t, <3>1, <3>2 DEF Rows, KeyRow
    <3>4. UNCHANGED <<secret, drawn, ops>> /\ (UNCHANGED faults \/ Fault)
      BY <2>3 DEF Rehash, Fails
    <3> QED BY <1>t, <1>c, <3>3, <3>4 DEF StoresTyped
  <2>4. CASE DropSecret(c)
    <3>1. UNCHANGED secret \/ secret' = [secret EXCEPT ![NameOf[req[c].ref]] = 0]
      BY <2>4 DEF DropSecret
    <3>2. secret' \in [SecretNames -> 0..MaxKeys]
      BY <1>t, <3>1
    <3>3. UNCHANGED <<row, drawn, ops>> /\ (UNCHANGED faults \/ Fault)
      BY <2>4 DEF DropSecret, Fails
    <3> QED BY <1>t, <1>c, <3>2, <3>3 DEF StoresTyped, Rows
  <2>5. CASE Flag(c)
    <3>1. \/ UNCHANGED row
          \/ req[c].ref \in Rows /\ row' = [row EXCEPT ![req[c].ref].deleted = TRUE]
      BY <2>5 DEF Flag, Matches
    <3>2. ASSUME req[c].ref \in Rows
          PROVE  [row[req[c].ref] EXCEPT !.deleted = TRUE] \in KeyRow
      <4>1. row[req[c].ref] \in KeyRow
        BY <1>t, <3>2 DEF Rows
      <4> QED BY <4>1 DEF KeyRow
    <3>3. row' \in [Refs -> KeyRow \cup {None}] /\ Rows \subseteq Rows'
      BY <1>t, <3>1, <3>2 DEF Rows
    <3>4. UNCHANGED <<secret, drawn, ops>> /\ (UNCHANGED faults \/ Fault)
      BY <2>5 DEF Flag, Fails
    <3> QED BY <1>t, <1>c, <3>3, <3>4 DEF StoresTyped
  <2>6. CASE ReadSecret(c)
    BY <1>t, <2>6 DEF ReadSecret, keyVars, StoresTyped, Rows
  <2> QED BY <1>3, <2>1, <2>2, <2>3, <2>4, <2>5, <2>6 DEF StoreStep
<1>4. CASE UNCHANGED vars
  BY <1>t, <1>4 DEF vars, keyVars, StoresTyped, Rows
<1> QED BY <1>1, <1>2, <1>3, <1>4, NextKinds

\* What a request holds stays valid as rows are added and keys drawn.
LEMMA HoldsOn ==
    ASSUME NEW q, Holds(q), Rows \subseteq Rows', drawn \in Nat, drawn' \in Nat, drawn <= drawn'
    PROVE  /\ q \in RequestRecord
           /\ q.pc \in {"idle", "start"} <=> q.ref = None
           /\ q.pc \in {"touch", "touched"} => q.ref \in Rows'
           /\ q.pc = "provision" => q.user \in Users
           /\ q.pc \in {"insert", "rehash"} => q.key \in 1..drawn'
<1>1. q.pc \in {"insert", "rehash"} => q.key \in 1..drawn'
  BY DEF Holds
<1> QED BY <1>1 DEF Holds

\* One request moves on, the others keep what they hold.
LEMMA MoveHolds ==
    ASSUME Typed, StoresTyped', NEW c \in Clients, NEW q, req' = [req EXCEPT ![c] = q],
           Rows \subseteq Rows', drawn <= drawn',
           /\ q \in RequestRecord
           /\ q.pc \in {"idle", "start"} <=> q.ref = None
           /\ q.pc \in {"touch", "touched"} => q.ref \in Rows'
           /\ q.pc = "provision" => q.user \in Users
           /\ q.pc \in {"insert", "rehash"} => q.key \in 1..drawn'
    PROVE  RequestsHold'
<1>1. drawn \in Nat /\ drawn' \in Nat
  BY DEF Typed, StoresTyped
<1>2. req' \in [Clients -> RequestRecord]
  BY DEF Typed, RequestsHold
<1>3. ASSUME NEW d \in Clients PROVE Holds(req[d])'
  <2>1. CASE d = c
    <3>1. req'[d] = q
      BY <2>1 DEF Typed, RequestsHold
    <3> QED BY <3>1 DEF Holds, RequestRecord
  <2>2. CASE d # c
    <3>1. req'[d] = req[d] /\ Holds(req[d])
      BY <2>2 DEF Typed, RequestsHold
    <3> QED BY <1>1, <3>1, HoldsOn DEF Holds, RequestRecord
  <2> QED BY <2>1, <2>2
<1> QED BY <1>2, <1>3 DEF RequestsHold, RequestRecord

\* The record of a client without a request.
LEMMA IdleRecord ==
    /\ Idle \in RequestRecord /\ Idle.pc = "idle" /\ Idle.ref = None
    /\ \A q \in RequestRecord : q.ref \in Refs \cup {None}
<1>1. Idle \in RequestRecord
  BY AccessAssumption DEF Idle, RequestRecord, PCs
<1> QED BY <1>1 DEF Idle, RequestRecord

\* A request that ends.
LEMMA EndHolds ==
    ASSUME Typed, StoresTyped', NEW c \in Clients, End(c), Rows \subseteq Rows', drawn <= drawn'
    PROVE  RequestsHold'
BY MoveHolds, IdleRecord DEF End

\* Every step of a request leaves it holding what its next step reads.
LEMMA RequestsStep == Typed /\ [Next]_vars => RequestsHold'
<1> SUFFICES ASSUME Typed, [Next]_vars PROVE RequestsHold'
  OBVIOUS
<1>s. StoresTyped' /\ Rows \subseteq Rows' /\ drawn <= drawn'
  BY StoresStep
<1>t. /\ req \in [Clients -> RequestRecord] /\ \A c \in Clients : Holds(req[c])
      /\ drawn \in 0..MaxKeys /\ drawn' \in 0..MaxKeys /\ MaxKeys \in Nat
      /\ row \in [Refs -> KeyRow \cup {None}] /\ None \notin Refs
  BY <1>s, AccessAssumption DEF Typed, RequestsHold, StoresTyped
<1>0. ASSUME UNCHANGED req PROVE RequestsHold'
  <2>1. \A c \in Clients : Holds(req[c])'
    BY <1>s, <1>t, <1>0, HoldsOn DEF Holds, RequestRecord
  <2> QED BY <1>t, <1>0, <2>1 DEF RequestsHold, RequestRecord
<1>1. ASSUME NEW c \in Clients, UserStep(c) PROVE RequestsHold'
  <2>1. CASE create_user(c) \/ delete_user(c) \/ signin(c)
    BY <1>0, <2>1 DEF create_user, delete_user, signin, Request
  <2>2. CASE StartRead(c)
    <3>1. PICK u \in Users \cup {None} : Begin(c, [Idle EXCEPT !.pc = "start", !.user = u])
      BY <2>2 DEF StartRead
    <3> DEFINE q == [Idle EXCEPT !.pc = "start", !.user = u]
    <3>a. "start" \in PCs
      BY DEF PCs
    <3>b. 0 \in 0..MaxKeys
      BY <1>t
    <3>2. q \in RequestRecord /\ q.pc = "start" /\ q.ref = None
      BY <3>a, <3>b DEF Idle, RequestRecord
    <3>3. req' = [req EXCEPT ![c] = q]
      BY <3>1 DEF Begin
    <3> HIDE DEF q
    <3> QED BY <1>s, <3>2, <3>3, MoveHolds
  <2>3. CASE try_create_single_tenant(c) \/ _provision_user(c)
    BY <1>s, <2>3, EndHolds DEF try_create_single_tenant, _provision_user
  <2> QED BY <1>1, <2>1, <2>2, <2>3 DEF UserStep
<1>v. ASSUME NEW c \in Clients, Verified(c), req[c].ref \in Refs PROVE RequestsHold'
  <2>1. CASE req[c].user = None
    BY <1>s, <1>v, <2>1, EndHolds DEF Verified
  <2>2. CASE req[c].user # None
    <3> DEFINE q == [req[c] EXCEPT !.pc = "provision", !.found = user[req[c].user] # None]
    <3>1. req' = [req EXCEPT ![c] = q]
      BY <1>t, <1>v, <2>2 DEF Verified
    <3>2. q \in RequestRecord /\ q.pc = "provision" /\ q.ref \in Refs /\ q.user \in Users
      BY ZenonT(30), <1>t, <1>v, <2>2 DEF RequestRecord, PCs
    <3> HIDE DEF q
    <3> QED BY <1>s, <1>t, <3>1, <3>2, MoveHolds
  <2> QED BY <2>1, <2>2
<1>2. ASSUME NEW c \in Clients, UseStep(c) PROVE RequestsHold'
  <2>1. CASE authenticate(c)
    <3>1. PICK k : _verify_api_key(c, k)
      BY <2>1 DEF authenticate
    <3>2. PICK u \in Users \cup {None}, r \in get_api_key(k) :
            Begin(c, [Idle EXCEPT !.pc = "touch", !.ref = r, !.key = k, !.seen = k, !.user = u])
      BY <3>1 DEF _verify_api_key
    <3> DEFINE q == [Idle EXCEPT !.pc = "touch", !.ref = r, !.key = k, !.seen = k, !.user = u]
    <3>3. r \in Rows /\ r \in Refs /\ row[r].hash = k
      BY DEF get_api_key, Rows
    <3>4. k \in 0..MaxKeys
      BY <1>t, <3>3 DEF Rows, KeyRow
    <3>5. q \in RequestRecord /\ q.pc = "touch" /\ q.ref = r
      BY <3>3, <3>4 DEF Idle, RequestRecord, PCs
    <3>6. req' = [req EXCEPT ![c] = q]
      BY <3>2 DEF Begin
    <3> HIDE DEF q
    <3> QED BY <1>s, <1>t, <3>3, <3>5, <3>6, MoveHolds
  <2>2. CASE Touch(c)
    <3>1. req[c].ref \in Rows /\ req[c].ref \in Refs
      BY <1>t, <2>2 DEF Touch, Holds, Rows
    <3>2. CASE req[c].ref \in cached
      BY <1>v, <2>2, <3>1, <3>2 DEF Touch
    <3>3. CASE req[c].ref \notin cached
      <4> DEFINE q == [req[c] EXCEPT !.pc = "touched", !.seen = row[req[c].ref].hash]
      <4>1. req' = [req EXCEPT ![c] = q]
        BY <1>t, <2>2, <3>3 DEF Touch
      <4>2. row[req[c].ref].hash \in 0..MaxKeys
        BY <1>t, <3>1 DEF Rows, KeyRow
      <4>3. q \in RequestRecord /\ q.pc = "touched" /\ q.ref = req[c].ref
        BY <1>t, <4>2 DEF RequestRecord, PCs
      <4> HIDE DEF q
      <4> QED BY <1>s, <1>t, <3>1, <4>1, <4>3, MoveHolds
    <3> QED BY <3>2, <3>3
  <2>3. CASE update_key_last_used(c)
    <3>1. req[c].ref \in Refs
      BY <1>t, <2>3 DEF update_key_last_used, Holds, Rows
    <3> QED BY <1>v, <2>3, <3>1 DEF update_key_last_used
  <2> QED BY <1>2, <2>1, <2>2, <2>3 DEF UseStep
<1>3. ASSUME NEW c \in Clients, OpenStep(c) PROVE RequestsHold'
  <2>1. PICK p \in {"create", "read", "rotate", "drop"}, r \in Refs : BeginKey(c, p, r)
    BY <1>3, OpensKey
  <2> DEFINE s == IF r \in Rows THEN row[r].hash ELSE 0
             q == [Idle EXCEPT !.pc = p, !.ref = r, !.seen = s]
  <2>2. req' = [req EXCEPT ![c] = q]
    BY <2>1 DEF BeginKey, Begin
  <2>3. s \in 0..MaxKeys
    BY <1>t DEF Rows, KeyRow
  <2> HIDE DEF s
  <2>a. p \in PCs
    BY DEF PCs
  <2>b. 0 \in 0..MaxKeys
    BY <1>t
  <2>4. q \in RequestRecord /\ q.pc = p /\ q.ref = r
    BY <2>3, <2>a, <2>b DEF Idle, RequestRecord
  <2> HIDE DEF q
  <2> QED BY <1>s, <1>t, <2>2, <2>4, MoveHolds
<1>4. ASSUME NEW c \in Clients, StoreStep(c) PROVE RequestsHold'
  <2>1. CASE End(c)
    BY <1>s, <2>1, EndHolds
  <2>2. CASE WriteSecret(c) /\ ~End(c)
    <3> DEFINE q == [req[c] EXCEPT !.key = FreshKey, !.pc = IF @ = "create" THEN "insert" ELSE "rehash"]
    <3>1. /\ req' = [req EXCEPT ![c] = q] /\ drawn < MaxKeys /\ drawn' = drawn + 1
          /\ req[c].pc \in {"create", "rotate"}
      BY <1>t, <2>2 DEF WriteSecret, Fails
    <3>2. FreshKey \in 0..MaxKeys /\ FreshKey \in 1..drawn'
      BY <1>t, <3>1 DEF FreshKey
    <3>3. req[c].ref \in Refs
      BY <1>t, <3>1 DEF Holds, RequestRecord
    <3>4. q \in RequestRecord /\ q.pc \in {"insert", "rehash"} /\ q.ref \in Refs /\ q.key = FreshKey
      BY <1>t, <3>2, <3>3 DEF RequestRecord, PCs
    <3> HIDE DEF q
    <3> QED BY <1>s, <1>t, <3>1, <3>2, <3>4, MoveHolds
  <2>3. CASE DropSecret(c) /\ ~End(c)
    <3> DEFINE q == [req[c] EXCEPT !.pc = "flag"]
    <3>1. req' = [req EXCEPT ![c] = q] /\ req[c].pc = "drop"
      BY <1>t, <2>3 DEF DropSecret, Goto, Fails
    <3>2. req[c].ref \in Refs
      BY <1>t, <3>1 DEF Holds, RequestRecord
    <3>3. q \in RequestRecord /\ q.pc = "flag" /\ q.ref \in Refs
      BY <1>t, <3>2 DEF RequestRecord, PCs
    <3> HIDE DEF q
    <3> QED BY <1>s, <1>t, <3>1, <3>3, MoveHolds
  <2> QED BY <1>4, <2>1, <2>2, <2>3
          DEF StoreStep, InsertKey, Rehash, Flag, ReadSecret, Fails
<1>5. CASE UNCHANGED vars
  BY <1>0, <1>5 DEF vars
<1> QED BY <1>1, <1>2, <1>3, <1>4, <1>5, NextKinds
-----------------------------------------------------------------------------
\* The caches, the users and the records of what happened keep their types.
LEMMA RestStep == Typed /\ [Next]_vars => RestTyped'
<1> SUFFICES ASSUME Typed, [Next]_vars PROVE RestTyped'
  OBVIOUS
<1>t. RestTyped /\ DefaultUser \in Users
  BY AccessAssumption DEF Typed
<1>q. \A c \in Clients : Holds(req[c])
  BY DEF Typed, RequestsHold
<1>r. \A q : Holds(q) => q.ref \in Refs \cup {None} /\ q.user \in Users \cup {None}
  BY DEF Holds, RequestRecord
<1>p. "" \in Passwords /\ "given" \in Passwords /\ "default" \in Passwords
  BY DEF Passwords
<1>n. \A c \in Clients : req[c].pc \notin {"idle", "start"} => req[c].ref \in Refs
  BY <1>q, <1>r DEF Holds
<1>1. ASSUME NEW c \in Clients, UserStep(c) PROVE RestTyped'
  <2>1. UNCHANGED <<cached, recorded, overtaken, muddled, ended>>
    BY <1>1 DEF UserStep, create_user, delete_user, signin, StartRead, try_create_single_tenant,
                _provision_user, keyVars, useVars
  <2>2. user' \in [Users -> Passwords \cup {None}]
    <3>1. \/ UNCHANGED user
          \/ \E u \in Users : user' = [user EXCEPT ![u] = "given"] \/ user' = [user EXCEPT ![u] = None]
          \/ user' = [user EXCEPT ![req[c].user] = ""]
          \/ user' = [user EXCEPT ![DefaultUser] = "default"]
          \/ user' = [user EXCEPT ![req[c].user] = None, ![DefaultUser] = "default"]
      BY <1>1 DEF UserStep, create_user, delete_user, signin, StartRead, try_create_single_tenant,
                  _provision_user, userVars, Reset
    <3> QED BY <1>t, <1>p, <3>1 DEF RestTyped
  <2>3. signed' \subseteq Users /\ entitled' \subseteq Users
    BY <1>1, <1>t DEF UserStep, create_user, delete_user, signin, StartRead, try_create_single_tenant,
                _provision_user, userVars, RestTyped
  <2> QED BY <1>t, <2>1, <2>2, <2>3 DEF RestTyped
<1>2. ASSUME NEW c \in Clients, UseStep(c) PROVE RestTyped'
  <2>1. UNCHANGED keyVars /\ UNCHANGED userVars
    BY <1>2, KeysKept DEF UseStep, authenticate, _verify_api_key, Touch, update_key_last_used
  <2>2. \/ UNCHANGED useVars
        \/ /\ req[c].pc = "touched" /\ cached' = cached \cup {req[c].ref}
           /\ recorded' \subseteq recorded \cup {req[c].ref}
           /\ overtaken' \subseteq overtaken \cup {req[c].ref}
    BY <1>2 DEF UseStep, authenticate, _verify_api_key, Touch, update_key_last_used
  <2>3. req[c].pc = "touched" => req[c].ref \in Refs
    BY <1>n
  <2> QED BY <1>t, <2>1, <2>2, <2>3 DEF RestTyped, keyVars, useVars, userVars
<1>3. ASSUME NEW c \in Clients, OpenStep(c) PROVE RestTyped'
  <2>1. PICK p \in {"create", "read", "rotate", "drop"}, r \in Refs : BeginKey(c, p, r)
    BY <1>3, OpensKey
  <2>2. Rivals(r) \subseteq Refs
    BY DEF Rivals, Kin
  <2> QED BY <1>t, <2>1, <2>2 DEF BeginKey, RestTyped, useVars, userVars
<1>4. ASSUME NEW c \in Clients, StoreStep(c) PROVE RestTyped'
  <2>1. /\ UNCHANGED <<useVars, userVars>> /\ req[c].pc \notin {"idle", "start"}
        /\ muddled' \subseteq muddled \cup {req[c].ref} /\ ended' \subseteq ended \cup {req[c].ref}
    BY <1>4 DEF StoreStep, WriteSecret, InsertKey, Rehash, DropSecret, Flag, ReadSecret, Fails, keyVars
  <2> QED BY <1>t, <1>n, <2>1 DEF RestTyped, useVars, userVars
<1>5. CASE UNCHANGED vars
  BY <1>t, <1>5 DEF vars, keyVars, useVars, userVars, RestTyped
<1> QED BY <1>1, <1>2, <1>3, <1>4, <1>5, NextKinds

\* The types hold in every state.
LEMMA AlwaysTyped == Spec => []Typed
<1>1. Init => Typed
  <2> SUFFICES ASSUME Init PROVE Typed
    OBVIOUS
  <2>1. RequestsHold
    <3>1. req = [c \in Clients |-> Idle]
      BY DEF Init
    <3>2. Holds(Idle)
      BY IdleRecord DEF Holds
    <3> QED BY <3>1, <3>2, IdleRecord DEF RequestsHold
  <2>2. StoresTyped /\ RestTyped
    BY AccessAssumption DEF Init, StoresTyped, RestTyped
  <2> QED BY <2>1, <2>2 DEF Typed
<1>2. Typed /\ [Next]_vars => Typed'
  BY StoresStep, RequestsStep, RestStep DEF Typed
<1> QED BY <1>1, <1>2, PTL DEF Spec

-----------------------------------------------------------------------------
\* A deletion that was answered stays: rotations keep the flag, nothing is
\* inserted over a row that is there.
LEMMA EndedStep == Typed /\ EndedIsDeleted /\ [Next]_vars => EndedIsDeleted'
<1> SUFFICES ASSUME Typed, EndedIsDeleted, [Next]_vars PROVE EndedIsDeleted'
  OBVIOUS
<1>t. row \in [Refs -> KeyRow \cup {None}] /\ None \notin KeyRow /\ ended \subseteq Refs
  BY AccessAssumption DEF Typed, StoresTyped, RestTyped
<1>r. Rows \subseteq Rows'
  BY StoresStep
<1>0. ASSUME UNCHANGED <<row, ended>> PROVE EndedIsDeleted'
  BY <1>0 DEF EndedIsDeleted, Rows
<1>1. ASSUME NEW c \in Clients, UserStep(c) \/ UseStep(c) PROVE EndedIsDeleted'
  BY <1>0, <1>1, KeysKept DEF keyVars
<1>2. ASSUME NEW c \in Clients, OpenStep(c) PROVE EndedIsDeleted'
  BY <1>0, <1>2, OpensKey DEF BeginKey
<1>3. ASSUME NEW c \in Clients, StoreStep(c) PROVE EndedIsDeleted'
  <2>1. CASE UNCHANGED <<row, ended>>
    BY <1>0, <2>1
  <2>2. CASE InsertKey(c) /\ row' # row
    <3>1. req[c].ref \notin Rows /\ ended' = ended
          /\ row' = [row EXCEPT ![req[c].ref] = [hash |-> req[c].key, deleted |-> FALSE]]
      BY <2>2 DEF InsertKey
    <3>2. \A r \in ended : r # req[c].ref /\ row'[r] = row[r]
      BY <1>t, <3>1 DEF EndedIsDeleted
    <3> QED BY <1>r, <3>1, <3>2 DEF EndedIsDeleted
  <2>3. CASE Rehash(c) /\ row' # row
    <3>1. req[c].ref \in Rows /\ ended' = ended /\ row' = [row EXCEPT ![req[c].ref].hash = req[c].key]
      BY <2>3 DEF Rehash, Matches
    <3>2. \A r \in Rows : row'[r].deleted = row[r].deleted
      BY <1>t, <3>1 DEF Rows, KeyRow
    <3> QED BY <1>r, <3>1, <3>2 DEF EndedIsDeleted
  <2>4. CASE Flag(c) /\ row' # row
    <3>1. /\ req[c].ref \in Rows /\ ended' = ended \cup {req[c].ref}
          /\ row' = [row EXCEPT ![req[c].ref].deleted = TRUE]
      BY <2>4 DEF Flag, Matches
    <3>2. \A r \in Rows : row'[r].deleted = (r = req[c].ref \/ row[r].deleted)
      BY <1>t, <3>1 DEF Rows, KeyRow
    <3> QED BY <1>r, <3>1, <3>2 DEF EndedIsDeleted
  <2>5. CASE Flag(c) /\ row' = row
    <3>1. ended' = ended \/ (Matches(req[c].ref, req[c].seen) /\ ended' = ended \cup {req[c].ref}
                             /\ row' = [row EXCEPT ![req[c].ref].deleted = TRUE])
      BY <2>5 DEF Flag
    <3>2. CASE ended' # ended
      <4>1. req[c].ref \in Rows /\ row'[req[c].ref].deleted
        BY <1>t, <3>1, <3>2 DEF Matches, Rows, KeyRow
      <4> QED BY <1>r, <2>5, <3>1, <3>2, <4>1 DEF EndedIsDeleted
    <3> QED BY <1>0, <2>5, <3>2
  <2> QED BY <1>3, <2>1, <2>2, <2>3, <2>4, <2>5
          DEF StoreStep, WriteSecret, InsertKey, Rehash, DropSecret, ReadSecret, keyVars
<1>4. CASE UNCHANGED vars
  BY <1>0, <1>4 DEF vars, keyVars
<1> QED BY <1>1, <1>2, <1>3, <1>4, NextKinds

\* delete_api_key: once a deletion was answered, no key ever drawn for the id
\* is accepted again (AnsweredDeletionHolds), whatever the other requests do.
THEOREM DeletionTheorem == Spec => []AnsweredDeletionHolds
<1>1. Init => EndedIsDeleted
  BY DEF Init, EndedIsDeleted
<1>2. EndedIsDeleted => AnsweredDeletionHolds
  BY DEF EndedIsDeleted, AnsweredDeletionHolds, get_api_key
<1> QED BY AlwaysTyped, EndedStep, <1>1, <1>2, PTL DEF Spec

-----------------------------------------------------------------------------
\* Only the requests on users change them.
LEMMA UsersKept ==
    ASSUME NEW c \in Clients, UseStep(c) \/ OpenStep(c) \/ StoreStep(c)
    PROVE  UNCHANGED userVars
<1>1. CASE UseStep(c)
  BY <1>1 DEF UseStep, authenticate, _verify_api_key, Touch, update_key_last_used
<1>2. CASE OpenStep(c)
  BY <1>2, OpensKey DEF BeginKey
<1>3. CASE StoreStep(c)
  BY <1>3 DEF StoreStep, WriteSecret, InsertKey, Rehash, DropSecret, Flag, ReadSecret
<1> QED BY <1>1, <1>2, <1>3

\* Who has a password was given it, and who signed in had one.
LEMMA SignInStep == Typed /\ SignInInv /\ [Next]_vars => SignInInv'
<1> SUFFICES ASSUME Typed, SignInInv, [Next]_vars PROVE SignInInv'
  OBVIOUS
<1> DEFINE Secrets == {"given", "default"}
<1>t. /\ user \in [Users -> Passwords \cup {None}] /\ signed \subseteq Users /\ entitled \subseteq Users
      /\ DefaultUser \in Users
  BY AccessAssumption DEF Typed, RestTyped
<1>i. signed \subseteq entitled /\ \A u \in Users : user[u] \in Secrets => u \in entitled
  BY DEF SignInInv, OnlyEntitledSignIn, PasswordMeansEntitled
<1>g. SignInInv' <=> signed' \subseteq entitled' /\ \A u \in Users : user'[u] \in Secrets => u \in entitled'
  BY DEF SignInInv, OnlyEntitledSignIn, PasswordMeansEntitled
<1>p. /\ None \notin Secrets /\ "" \notin Secrets /\ "given" \in Secrets /\ "default" \in Secrets
      /\ \A p \in Passwords : p # "" => p \in Secrets
  BY AccessAssumption DEF Passwords
<1> HIDE DEF Secrets
<1>0. ASSUME UNCHANGED userVars PROVE SignInInv'
  BY <1>0, <1>i, <1>g DEF userVars
<1>1. ASSUME NEW c \in Clients, UserStep(c) PROVE SignInInv'
  <2>1. CASE create_user(c)
    <3>1. PICK u \in Users : /\ user' = [user EXCEPT ![u] = "given"] /\ entitled' = entitled \cup {u}
                             /\ signed' = signed
      BY <2>1 DEF create_user
    <3> QED BY <1>t, <1>i, <1>g, <3>1
  <2>2. CASE delete_user(c)
    <3>1. PICK u \in Users : /\ user' = [user EXCEPT ![u] = None] /\ entitled' = entitled \ {u}
                             /\ signed' = signed \ {u}
      BY <2>2 DEF delete_user
    <3> QED BY <1>t, <1>i, <1>g, <1>p, <3>1
  <2>3. CASE signin(c)
    <3>1. PICK u \in Users, p \in Passwords :
            /\ p # "" /\ user[u] = p /\ signed' = signed \cup {u} /\ UNCHANGED <<user, entitled>>
      BY <2>3 DEF signin, Admitted
    <3>2. u \in entitled
      BY <1>i, <1>p, <3>1
    <3> QED BY <1>i, <1>g, <3>1, <3>2
  <2>4. CASE StartRead(c)
    BY <1>0, <2>4 DEF StartRead
  <2>5. CASE try_create_single_tenant(c)
    <3> DEFINE v == req[c].user
    <3>1. CASE UNCHANGED userVars
      BY <1>0, <3>1
    <3>2. CASE /\ user' = [user EXCEPT ![DefaultUser] = "default"]
               /\ entitled' = entitled \cup {DefaultUser} /\ UNCHANGED signed
      BY <1>t, <1>i, <1>g, <3>2
    <3>3. CASE /\ user' = [user EXCEPT ![v] = None, ![DefaultUser] = "default"]
               /\ entitled' = (entitled \ {v}) \cup {DefaultUser}
               /\ signed' = IF v = DefaultUser THEN signed ELSE signed \ {v}
      <4>1. \A w \in Users : user'[w] = IF w = DefaultUser THEN "default"
                                        ELSE IF w = v THEN None ELSE user[w]
        BY <1>t, <3>3
      <4>2. \A w \in Users : user'[w] \in Secrets => w \in entitled'
        BY <1>t, <1>i, <1>p, <3>3, <4>1
      <4>3. signed' \subseteq entitled'
        BY <1>i, <3>3
      <4> QED BY <1>g, <4>2, <4>3
    <3> QED BY <2>5, <3>1, <3>2, <3>3 DEF try_create_single_tenant, Reset, userVars
  <2>6. CASE _provision_user(c)
    <3> DEFINE v == req[c].user
    <3>1. /\ user' = user \/ user' = [user EXCEPT ![v] = ""]
          /\ UNCHANGED <<signed, entitled>>
      BY <2>6 DEF _provision_user
    <3>2. \A w \in Users : user'[w] = user[w] \/ user'[w] = ""
      BY <1>t, <3>1
    <3> QED BY <1>i, <1>g, <1>p, <3>1, <3>2
  <2> QED BY <1>1, <2>1, <2>2, <2>3, <2>4, <2>5, <2>6 DEF UserStep
<1>2. ASSUME NEW c \in Clients, UseStep(c) \/ OpenStep(c) \/ StoreStep(c) PROVE SignInInv'
  BY <1>0, <1>2, UsersKept
<1>3. CASE UNCHANGED vars
  BY <1>0, <1>3 DEF vars
<1> QED BY <1>1, <1>2, <1>3, NextKinds

\* signin: nobody signs in as a user that was not given a password, the users
\* that only impersonation created among them (OnlyEntitledSignIn).
THEOREM SignInTheorem == Spec => []OnlyEntitledSignIn
<1>1. Init => SignInInv
  <2>1. Init => OnlyEntitledSignIn
    BY DEF Init, OnlyEntitledSignIn
  <2>2. Init => PasswordMeansEntitled
    BY AccessAssumption DEF Init, PasswordMeansEntitled, Passwords
  <2> QED BY <2>1, <2>2 DEF SignInInv
<1>2. SignInInv => OnlyEntitledSignIn
  BY DEF SignInInv
<1> QED BY AlwaysTyped, SignInStep, <1>1, <1>2, PTL DEF Spec

-----------------------------------------------------------------------------
(***************************************************************************)
(* The two stores.  Keys are drawn once, so that no two rows and no two    *)
(* requests share one; and while an id is changed by one request at a time *)
(* its secret is the hash of its row, except between that request's steps, *)
(* if no id with the same secret is there or being changed.                *)
(***************************************************************************)
Carries(c) == req[c].pc \in {"insert", "rehash"}

KeysDiffer ==
    /\ \A r \in Rows : row[r].hash <= drawn
    /\ \A r, q \in Rows : row[r].hash = row[q].hash => r = q
    /\ \A c, d \in Clients : Carries(c) /\ Carries(d) /\ req[c].key = req[d].key => c = d
    /\ \A c \in Clients, r \in Rows : Carries(c) => row[r].hash # req[c].key

\* One request changes the id, and of the ids with its secret no other is there.
Sole(r) == r \in Rows \/ Changing(r) # {} => \A s \in Kin(r) \ {r} : s \notin Rows /\ Changing(s) = {}
Alone(r) == Sole(r) /\ \A c, d \in Changing(r) : c = d
\* A secret that was written is the one the request will put in the row, and a
\* live row has its secret unless a request is about to change the row.
Agree(r) ==
    /\ \A c \in Changing(r) : Carries(c) => secret[NameOf[r]] = req[c].key
    /\ r \in Rows /\ ~row[r].deleted =>
         \/ secret[NameOf[r]] = row[r].hash
         \/ \E c \in Changing(r) : Carries(c) \/ req[c].pc = "flag"
StoresAgree == \A r \in Refs \ muddled : Alone(r) /\ Agree(r)

\* A step moves one client's request.
LEMMA OneMoves ==
    ASSUME Typed, NEW c \in Clients, UserStep(c) \/ UseStep(c) \/ OpenStep(c) \/ StoreStep(c)
    PROVE  \E q : req' = [req EXCEPT ![c] = q]
<1>t. req \in [Clients -> RequestRecord]
  BY DEF Typed, RequestsHold
<1>0. ASSUME UNCHANGED req PROVE \E q : req' = [req EXCEPT ![c] = q]
  <2>1. req' = [req EXCEPT ![c] = req[c]]
    BY <1>t, <1>0
  <2> QED BY <2>1
<1>v. ASSUME Verified(c) PROVE \E q : req' = [req EXCEPT ![c] = q]
  <2>1. CASE req[c].user = None
    BY <1>v, <2>1 DEF Verified, End
  <2>2. CASE req[c].user # None
    <3>1. req' = [req EXCEPT ![c] = [req[c] EXCEPT !.pc = "provision", !.found = user[req[c].user] # None]]
      BY <1>t, <1>v, <2>2 DEF Verified
    <3> QED BY <3>1
  <2> QED BY <2>1, <2>2
<1>1. CASE UserStep(c)
  BY <1>0, <1>1 DEF UserStep, create_user, delete_user, signin, StartRead, Request, Begin,
                    try_create_single_tenant, _provision_user, End
<1>2. CASE UseStep(c)
  <2>1. CASE authenticate(c)
    BY <2>1 DEF authenticate, _verify_api_key, Begin
  <2>2. CASE Touch(c)
    <3>1. Verified(c) \/ req' = [req EXCEPT ![c].pc = "touched", ![c].seen = row[req[c].ref].hash]
      BY <2>2 DEF Touch
    <3>2. CASE req' = [req EXCEPT ![c].pc = "touched", ![c].seen = row[req[c].ref].hash]
      <4>1. req' = [req EXCEPT ![c] = [req[c] EXCEPT !.pc = "touched", !.seen = row[req[c].ref].hash]]
        BY <1>t, <3>2
      <4> QED BY <4>1
    <3> QED BY <1>v, <3>1, <3>2
  <2>3. CASE update_key_last_used(c)
    BY <1>v, <2>3 DEF update_key_last_used
  <2> QED BY <1>2, <2>1, <2>2, <2>3 DEF UseStep
<1>3. CASE OpenStep(c)
  BY <1>3, OpensKey DEF BeginKey, Begin
<1>4. CASE StoreStep(c)
  <2>1. CASE End(c)
    BY <2>1 DEF End
  <2>2. CASE WriteSecret(c) /\ ~End(c)
    <3>1. req' = [req EXCEPT ![c] = [req[c] EXCEPT !.key = FreshKey,
                                       !.pc = IF @ = "create" THEN "insert" ELSE "rehash"]]
      BY <1>t, <2>2 DEF WriteSecret, Fails
    <3> QED BY <3>1
  <2>3. CASE DropSecret(c) /\ ~End(c)
    <3>1. req' = [req EXCEPT ![c] = [req[c] EXCEPT !.pc = "flag"]]
      BY <1>t, <2>3 DEF DropSecret, Goto, Fails
    <3> QED BY <3>1
  <2> QED BY <1>4, <2>1, <2>2, <2>3 DEF StoreStep, InsertKey, Rehash, Flag, ReadSecret, Fails
<1> QED BY <1>1, <1>2, <1>3, <1>4

\* A step that leaves the stores alone and lets no request on a key begin or go
\* on keeps the invariant on the stores.
LEMMA QuietStep ==
    ASSUME Typed, KeysDiffer, StoresAgree, NEW c \in Clients, NEW q, req' = [req EXCEPT ![c] = q],
           UNCHANGED <<row, secret, drawn>>, muddled \subseteq muddled', q \in RequestRecord,
           q.pc \notin {"insert", "rehash"},
           \A r \in Refs : q.ref # r \/ q.pc \in {"touch", "touched", "provision"},
           \A r \in Refs \ muddled' : c \in Changing(r) => 
               ~Carries(c) /\ req[c].pc # "flag"
    PROVE  KeysDiffer' /\ StoresAgree'
<1>t. req \in [Clients -> RequestRecord] /\ req'[c] = q /\ \A d \in Clients \ {c} : req'[d] = req[d]
  BY DEF Typed, RequestsHold
<1>1. ~Carries(c)' /\ \A d \in Clients \ {c} : Carries(d)' <=> Carries(d)
  BY <1>t DEF Carries
<1>2. KeysDiffer'
  BY <1>t, <1>1 DEF KeysDiffer, Rows
<1>3. ASSUME NEW r \in Refs PROVE Changing(r)' = Changing(r) \ {c}
  BY <1>t DEF Changing
<1>4. ASSUME NEW r \in Refs \ muddled' PROVE (Alone(r) /\ Agree(r))'
  <2>1. Alone(r) /\ Agree(r)
    BY DEF StoresAgree
  <2>2. Alone(r)'
    BY <1>3, <2>1 DEF Alone, Sole, Kin, Rows
  <2>3. \A d \in Changing(r) : d \in Clients
    BY DEF Changing
  <2>4. \A d \in Changing(r)' : Carries(d)' => secret'[NameOf[r]] = req'[d].key
    BY <1>t, <1>1, <1>3, <2>1, <2>3 DEF Agree
  <2>5. (r \in Rows)' /\ ~row'[r].deleted =>
          \/ secret'[NameOf[r]] = row'[r].hash
          \/ \E d \in Changing(r)' : Carries(d)' \/ req'[d].pc = "flag"
    BY <1>t, <1>1, <1>3, <2>1, <2>3 DEF Agree, Rows
  <2> QED BY <2>2, <2>4, <2>5 DEF Agree
<1> QED BY <1>2, <1>4 DEF StoresAgree

\* A step on one id leaves the others as they were, those with the same secret
\* because they are not there.
LEMMA OtherIds ==
    ASSUME StoresAgree, NEW c \in Clients, \A d \in Clients \ {c} : req'[d] = req[d],
           NEW r \in Refs, req[c].ref \in {r, None}, req'[c].ref \in {r, None},
           NEW s \in Refs \ muddled', s # r, muddled \subseteq muddled',
           \A t \in Refs : t # r => row'[t] = row[t],
           NameOf[s] = NameOf[r] => s \notin Rows /\ Changing(s) = {},
           NameOf[s] # NameOf[r] => secret'[NameOf[s]] = secret[NameOf[s]]
    PROVE  (Alone(s) /\ Agree(s))'
<1>t. \A d \in Clients \ {c} : req'[d] = req[d]
  OBVIOUS
<1>n. None \notin Refs
  BY AccessAssumption
<1>1. \A t \in Refs : t # r => Changing(t)' = Changing(t) /\ c \notin Changing(t) /\ (t \in Rows' <=> t \in Rows)
  BY <1>t, <1>n DEF Changing, Rows
<1>2. Alone(s) /\ Agree(s)
  BY DEF StoresAgree
<1>3. CASE NameOf[s] = NameOf[r]
  <2>1. s \notin Rows' /\ Changing(s)' = {}
    BY <1>1, <1>3
  <2> QED BY <2>1 DEF Alone, Sole, Agree
<1>4. CASE NameOf[s] # NameOf[r]
  <2>3. \A d \in Changing(s) : d \in Clients \ {c}
    BY <1>1 DEF Changing
  <2>4. Alone(s)'
    <3>1. \A t \in Kin(s) \ {s} : t \in Refs /\ t # r
      BY <1>4 DEF Kin
    <3>2. Kin(s)' = Kin(s)
      BY DEF Kin
    <3> QED BY <1>1, <1>2, <3>1, <3>2 DEF Alone, Sole
  <2>5. \A d \in Changing(s)' : Carries(d)' => secret'[NameOf[s]] = req'[d].key
    BY <1>t, <1>1, <1>2, <1>4, <2>3 DEF Agree, Carries
  <2>6. (s \in Rows)' /\ ~row'[s].deleted =>
          \/ secret'[NameOf[s]] = row'[s].hash
          \/ \E d \in Changing(s)' : Carries(d)' \/ req'[d].pc = "flag"
    BY <1>t, <1>1, <1>2, <1>4, <2>3 DEF Agree, Carries, Rows
  <2> QED BY <2>4, <2>5, <2>6 DEF Agree
<1> QED BY <1>3, <1>4

\* While a request works on an id, no other with the same secret is there.
LEMMA KinIdle ==
    ASSUME StoresAgree, NEW r \in Refs, Changing(r) # {}, NEW s \in Refs \ muddled, s # r, NameOf[s] = NameOf[r]
    PROVE  s \notin Rows /\ Changing(s) = {}
BY DEF StoresAgree, Alone, Sole, Kin

\* BeginKey: a request that is alone finds the stores as they agree.
LEMMA OpenAgrees ==
    ASSUME Typed, KeysDiffer, StoresAgree, NEW c \in Clients, OpenStep(c)
    PROVE  KeysDiffer' /\ StoresAgree'
<1>1. PICK p \in {"create", "read", "rotate", "drop"}, r \in Refs : BeginKey(c, p, r)
  BY OpensKey
<1> DEFINE q == [Idle EXCEPT !.pc = p, !.ref = r, !.seen = IF r \in Rows THEN row[r].hash ELSE 0]
<1>2. /\ req' = [req EXCEPT ![c] = q] /\ req[c] = Idle
      /\ UNCHANGED <<row, secret, drawn>> /\ muddled \subseteq muddled'
      /\ Rivals(r) # {} => r \in muddled' /\ Rivals(r) \subseteq muddled'
  BY <1>1 DEF BeginKey, Begin
<1>3. q.pc = p /\ q.ref = r /\ req[c].ref = None /\ req[c].pc = "idle"
  BY <1>2 DEF Idle
<1> HIDE DEF q
<1>t. req'[c] = q /\ \A d \in Clients \ {c} : req'[d] = req[d]
  BY <1>2 DEF Typed, RequestsHold
<1>4. ~Carries(c)' /\ ~Carries(c) /\ \A d \in Clients \ {c} : Carries(d)' <=> Carries(d)
  BY <1>t, <1>3 DEF Carries
<1>5. KeysDiffer'
  BY <1>t, <1>2, <1>4 DEF KeysDiffer, Rows
<1>6. ASSUME r \notin muddled' PROVE (Alone(r) /\ Agree(r))'
  <2>0. Rivals(r) = {} /\ Agree(r)
    BY <1>2, <1>6 DEF StoresAgree
  <2>1. Changing(r) = {} /\ \A s \in Kin(r) \ {r} : s \notin Rows /\ Changing(s) = {}
    BY <2>0 DEF Rivals, Kin
  <2>2. Changing(r)' = {c}
    BY <1>t, <1>3, <2>1 DEF Changing
  <2>3. (r \in Rows)' /\ ~row'[r].deleted => secret'[NameOf[r]] = row'[r].hash
    BY <1>2, <2>0, <2>1 DEF Agree, Rows
  <2>4. Sole(r)'
    <3>1. \A s \in Refs \ {r} : Changing(s)' = Changing(s)
      BY <1>t, <1>3, AccessAssumption DEF Changing
    <3> QED BY <1>2, <2>1, <3>1 DEF Sole, Kin, Rows
  <2> QED BY <1>4, <2>2, <2>3, <2>4 DEF Alone, Agree
<1>7. ASSUME NEW s \in Refs \ muddled', s # r PROVE (Alone(s) /\ Agree(s))'
  <2>1. NameOf[s] = NameOf[r] => s \notin Rows /\ Changing(s) = {}
    BY <1>2, <1>7 DEF Rivals, Kin
  <2>2. req[c].ref \in {r, None} /\ req'[c].ref \in {r, None} /\ \A t \in Refs : t # r => row'[t] = row[t]
    BY <1>2, <1>3, <1>t
  <2> QED BY <1>2, <1>7, <1>t, <2>1, <2>2, OtherIds
<1> QED BY <1>5, <1>6, <1>7 DEF StoresAgree

\* WriteSecret: the secret is the key that goes into the row next.
LEMMA WriteAgrees ==
    ASSUME Typed, KeysDiffer, StoresAgree, NEW c \in Clients, WriteSecret(c), ~Fails(c)
    PROVE  KeysDiffer' /\ StoresAgree'
<1>0. req[c].pc \in {"create", "rotate"} /\ req[c].ref \in Refs
  BY DEF WriteSecret, Typed, RequestsHold, Holds, RequestRecord
<1>r. PICK r \in Refs : r = req[c].ref
  BY <1>0
<1> DEFINE q == [req[c] EXCEPT !.key = FreshKey, !.pc = IF @ = "create" THEN "insert" ELSE "rehash"]
<1>1. /\ req' = [req EXCEPT ![c] = q] /\ req[c].pc \in {"create", "rotate"}
      /\ secret' = [secret EXCEPT ![NameOf[r]] = FreshKey] /\ drawn' = drawn + 1 /\ UNCHANGED <<row, muddled>>
  BY <1>r DEF WriteSecret, Typed, RequestsHold
<1>2. Holds(req[c]) /\ r \in Refs /\ drawn \in Nat
  BY <1>1 DEF Typed, RequestsHold, StoresTyped, Holds, RequestRecord
<1>3. q.pc \in {"insert", "rehash"} /\ q.ref = r /\ q.key = FreshKey
  BY <1>r, <1>2 DEF Holds, RequestRecord
<1> HIDE DEF q
<1>t. /\ req'[c] = q /\ \A d \in Clients \ {c} : req'[d] = req[d]
      /\ secret'[NameOf[r]] = FreshKey /\ \A s \in Refs : NameOf[s] # NameOf[r] => secret'[NameOf[s]] = secret[NameOf[s]]
  BY <1>1, <1>2, AccessAssumption DEF Typed, RequestsHold, StoresTyped
<1>4. Carries(c)' /\ ~Carries(c) /\ \A d \in Clients \ {c} : Carries(d)' <=> Carries(d)
  BY <1>t, <1>1, <1>3 DEF Carries
<1>5. \A d \in Clients : Carries(d) => req[d].key \in 1..drawn
  BY DEF Carries, Typed, RequestsHold, Holds
<1>6. KeysDiffer'
  <2>1. /\ \A s \in Rows : row[s].hash <= drawn /\ row[s].hash \in Nat
        /\ Rows' = Rows /\ row' = row /\ req'[c].key = drawn + 1 /\ drawn' = drawn + 1
    BY <1>1, <1>3, <1>t DEF KeysDiffer, Rows, FreshKey, Typed, StoresTyped, KeyRow
  <2>2. \A s \in Rows : row[s].hash <= drawn + 1 /\ row[s].hash # drawn + 1
    BY <1>2, <2>1
  <2>3. \A d \in Clients \ {c} : Carries(d) => req'[d].key # drawn + 1
    BY <1>2, <1>5, <1>t
  <2> QED BY <1>4, <1>t, <2>1, <2>2, <2>3 DEF KeysDiffer
<1>7. ASSUME r \notin muddled' PROVE (Alone(r) /\ Agree(r))'
  <2>1. Alone(r) /\ c \in Changing(r)
    BY <1>r, <1>1, <1>2, <1>7 DEF StoresAgree, Changing
  <2>2. Changing(r)' = {c}
    BY <1>t, <1>3, <2>1 DEF Changing, Alone
  <2>3. Sole(r)'
    <3>1. \A s \in Refs \ {r} : Changing(s)' = Changing(s)
      BY <1>t, <1>r, <1>3 DEF Changing
    <3>2. \A s \in Kin(r) \ {r} : s \notin Rows /\ Changing(s) = {}
      BY <2>1 DEF Alone, Sole
    <3> QED BY <1>1, <3>1, <3>2 DEF Sole, Kin, Rows
  <2> QED BY <1>t, <1>3, <1>4, <2>2, <2>3 DEF Alone, Agree
<1>8. ASSUME NEW s \in Refs \ muddled', s # r PROVE (Alone(s) /\ Agree(s))'
  <2>0. Changing(r) # {}
    BY <1>r, <1>1 DEF Changing
  <2>1. /\ req[c].ref \in {r, None} /\ req'[c].ref \in {r, None} /\ muddled \subseteq muddled'
        /\ NameOf[s] # NameOf[r] => secret'[NameOf[s]] = secret[NameOf[s]]
        /\ \A u \in Refs : u # r => row'[u] = row[u]
        /\ NameOf[s] = NameOf[r] => s \notin Rows /\ Changing(s) = {}
    BY <1>r, <1>1, <1>3, <1>t, <1>8, <2>0, KinIdle
  <2> QED BY <1>8, <1>t, <2>1, OtherIds
<1> QED BY <1>6, <1>7, <1>8 DEF StoresAgree

\* InsertKey and Rehash: the row takes the key whose secret was written.
LEMMA RowAgrees ==
    ASSUME Typed, KeysDiffer, StoresAgree, NEW c \in Clients, Carries(c), End(c),
           UNCHANGED <<secret, drawn, muddled>>, row'[req[c].ref] # None,
           row'[req[c].ref].hash = req[c].key,
           \A s \in Refs : s # req[c].ref => row'[s] = row[s]
    PROVE  KeysDiffer' /\ StoresAgree'
<1>0. Holds(req[c]) /\ req[c].ref \in Refs /\ drawn \in Nat /\ req[c].key \in 1..drawn
  BY DEF Typed, RequestsHold, StoresTyped, Holds, RequestRecord, Carries
<1>1. PICK r \in Refs : r = req[c].ref
  BY <1>0
<1>t. req'[c] = Idle /\ \A d \in Clients \ {c} : req'[d] = req[d]
  BY DEF Typed, RequestsHold, End
<1>2. ~Carries(c)' /\ \A d \in Clients \ {c} : Carries(d)' <=> Carries(d)
  BY <1>t, IdleRecord DEF Carries
<1>3. Rows' = Rows \cup {r}
  BY <1>1 DEF Rows
<1>4. KeysDiffer'
  <2>1. \A s \in Rows' : row'[s].hash <= drawn'
    BY <1>0, <1>1, <1>3 DEF KeysDiffer, Rows
  <2>2. \A s, p \in Rows' : row'[s].hash = row'[p].hash => s = p
    BY <1>0, <1>1, <1>3 DEF KeysDiffer, Rows
  <2>3. \A d, e \in Clients : Carries(d)' /\ Carries(e)' /\ req'[d].key = req'[e].key => d = e
    BY <1>t, <1>2 DEF KeysDiffer
  <2>4. \A d \in Clients, s \in Rows' : Carries(d)' => row'[s].hash # req'[d].key
    BY <1>t, <1>0, <1>1, <1>2, <1>3 DEF KeysDiffer, Rows
  <2> QED BY <2>1, <2>2, <2>3, <2>4 DEF KeysDiffer
<1>5. ASSUME r \notin muddled' PROVE (Alone(r) /\ Agree(r))'
  <2>1. Alone(r) /\ Agree(r) /\ c \in Changing(r)
    BY <1>1, <1>5 DEF StoresAgree, Changing, Carries
  <2>2. Changing(r)' = {}
    <3>1. Idle.ref # r
      BY IdleRecord, AccessAssumption
    <3> QED BY <1>t, <2>1, <3>1 DEF Changing, Alone
  <2>3. secret[NameOf[r]] = req[c].key
    BY <2>1 DEF Agree
  <2>4. Sole(r)'
    <3>1. \A s \in Refs \ {r} : Changing(s)' = Changing(s)
      BY <1>t, <1>1, IdleRecord, AccessAssumption DEF Changing
    <3>2. \A s \in Kin(r) \ {r} : s \notin Rows /\ Changing(s) = {}
      BY <2>1 DEF Alone, Sole
    <3> QED BY <1>3, <3>1, <3>2 DEF Sole, Kin
  <2> QED BY <1>1, <2>2, <2>3, <2>4 DEF Alone, Agree
<1>6. ASSUME NEW s \in Refs \ muddled', s # r PROVE (Alone(s) /\ Agree(s))'
  <2>0. Changing(r) # {}
    BY <1>1 DEF Changing, Carries
  <2>1. /\ req[c].ref \in {r, None} /\ req'[c].ref \in {r, None} /\ muddled \subseteq muddled'
        /\ \A u \in Refs : u # r => row'[u] = row[u]
        /\ NameOf[s] = NameOf[r] => s \notin Rows /\ Changing(s) = {}
        /\ secret'[NameOf[s]] = secret[NameOf[s]]
    BY <1>1, <1>6, <1>t, <2>0, KinIdle, IdleRecord
  <2> QED BY <1>6, <1>t, <2>1, OtherIds
<1> QED BY <1>4, <1>5, <1>6 DEF StoresAgree

\* DropSecret and Flag: a live row without its secret is about to be flagged.
LEMMA DropAgrees ==
    ASSUME Typed, KeysDiffer, StoresAgree, NEW c \in Clients, NEW q, req' = [req EXCEPT ![c] = q],
           ~Carries(c), req[c].pc \in {"drop", "flag"}, q.pc \notin {"insert", "rehash"},
           q.ref \in {req[c].ref, None},
           UNCHANGED <<drawn, muddled>>, Rows' = Rows,
           \A s \in Rows : row'[s].hash = row[s].hash,
           \A s \in Refs : s # req[c].ref => row'[s] = row[s],
           \A s \in Refs : NameOf[s] # NameOf[req[c].ref] => secret'[NameOf[s]] = secret[NameOf[s]],
           (q.pc = "flag" /\ q.ref = req[c].ref) \/ row'[req[c].ref].deleted
    PROVE  KeysDiffer' /\ StoresAgree'
<1>0. req[c].ref \in Refs
  BY DEF Typed, RequestsHold, Holds, RequestRecord
<1>1. PICK r \in Refs : r = req[c].ref
  BY <1>0
<1>t. req'[c] = q /\ \A d \in Clients \ {c} : req'[d] = req[d]
  BY DEF Typed, RequestsHold
<1>2. ~Carries(c)' /\ \A d \in Clients \ {c} : Carries(d)' <=> Carries(d)
  BY <1>t DEF Carries
<1>3. KeysDiffer'
  BY <1>t, <1>2 DEF KeysDiffer
<1>4. ASSUME r \notin muddled' PROVE (Alone(r) /\ Agree(r))'
  <2>1. Alone(r) /\ c \in Changing(r)
    BY <1>1, <1>4 DEF StoresAgree, Changing
  <2>2. Changing(r)' \subseteq {c}
    BY <1>t, <2>1 DEF Changing, Alone
  <2>3. q.pc = "flag" /\ q.ref = r => c \in Changing(r)' /\ req'[c].pc = "flag"
    BY <1>1, <1>t DEF Changing
  <2>4. Sole(r)'
    <3>1. \A s \in Refs \ {r} : Changing(s)' = Changing(s)
      BY <1>t, <1>1, AccessAssumption DEF Changing
    <3>2. \A s \in Kin(r) \ {r} : s \notin Rows /\ Changing(s) = {}
      BY <2>1 DEF Alone, Sole
    <3> QED BY <3>1, <3>2 DEF Sole, Kin
  <2> QED BY <1>1, <1>2, <2>2, <2>3, <2>4 DEF Alone, Agree
<1>5. ASSUME NEW s \in Refs \ muddled', s # r PROVE (Alone(s) /\ Agree(s))'
  <2>0. Changing(r) # {}
    BY <1>1 DEF Changing
  <2>1. /\ req[c].ref \in {r, None} /\ req'[c].ref \in {r, None} /\ muddled \subseteq muddled'
        /\ \A u \in Refs : u # r => row'[u] = row[u]
        /\ NameOf[s] = NameOf[r] => s \notin Rows /\ Changing(s) = {}
        /\ NameOf[s] # NameOf[r] => secret'[NameOf[s]] = secret[NameOf[s]]
    BY <1>1, <1>5, <1>t, <2>0, KinIdle
  <2> QED BY <1>5, <1>t, <2>1, OtherIds
<1> QED BY <1>3, <1>4, <1>5 DEF StoresAgree

\* A request ends without having touched the stores, or leaves its id muddled.
LEMMA EndAgrees ==
    ASSUME Typed, KeysDiffer, StoresAgree, NEW c \in Clients, End(c),
           UNCHANGED <<row, secret, drawn>>, muddled \subseteq muddled',
           req[c].ref \in muddled' \/ (~Carries(c) /\ req[c].pc # "flag")
    PROVE  KeysDiffer' /\ StoresAgree'
<1>1. /\ req' = [req EXCEPT ![c] = Idle] /\ Idle \in RequestRecord /\ Idle.pc \notin {"insert", "rehash"}
      /\ \A r \in Refs : Idle.ref # r
  BY IdleRecord, AccessAssumption DEF End
<1>2. \A r \in Refs \ muddled' : c \in Changing(r) => ~Carries(c) /\ req[c].pc # "flag"
  BY DEF Changing
<1> QED BY <1>1, <1>2, QuietStep

\* A step on a user or on the use of a key is no step on a key's stores.
LEMMA UseAgrees ==
    ASSUME Typed, KeysDiffer, StoresAgree, RequestsHold', NEW c \in Clients, UserStep(c) \/ UseStep(c)
    PROVE  KeysDiffer' /\ StoresAgree'
<1>1. PICK q : req' = [req EXCEPT ![c] = q]
  BY OneMoves
<1>2. UNCHANGED <<row, secret, drawn, muddled>>
  BY KeysKept DEF keyVars
<1>3. req'[c] = q /\ req \in [Clients -> RequestRecord]
  BY <1>1 DEF Typed, RequestsHold
<1>4. q \in RequestRecord /\ Holds(req[c])
  BY <1>3 DEF Typed, RequestsHold, RequestRecord
<1>i. Idle.pc = "idle" /\ Idle.ref = None /\ None \notin Refs
  BY IdleRecord, AccessAssumption
<1>v. ASSUME Verified(c) PROVE (q.pc = "idle" /\ q.ref = None) \/ q.pc = "provision"
  <2>1. CASE req[c].user = None
    BY <1>v, <1>3, <1>i, <2>1 DEF Verified, End
  <2>2. CASE req[c].user # None
    BY <1>v, <1>3, <2>2 DEF Verified, RequestRecord
  <2> QED BY <2>1, <2>2
<1>5. CASE UNCHANGED req
  BY <1>2, <1>5 DEF KeysDiffer, StoresAgree, Rows, Carries, Alone, Sole, Kin, Agree, Changing
<1>6. CASE ~UNCHANGED req
  <2>1. \/ q.pc \in {"idle", "start"} /\ q.ref = None
        \/ q.pc \in {"touch", "touched", "provision"}
    <3>1. CASE UserStep(c)
      <4>1. CASE StartRead(c)
        BY <1>3, <4>1 DEF StartRead, Begin, Idle
      <4>2. CASE try_create_single_tenant(c) \/ _provision_user(c)
        BY <1>3, <1>i, <4>2 DEF try_create_single_tenant, _provision_user, End
      <4> QED BY <1>6, <3>1, <4>1, <4>2 DEF UserStep, create_user, delete_user, signin, Request
    <3>2. CASE authenticate(c)
      BY <1>3, <3>2 DEF authenticate, _verify_api_key, Begin, Idle
    <3>3. CASE Touch(c)
      <4>1. Verified(c) \/ req' = [req EXCEPT ![c].pc = "touched", ![c].seen = row[req[c].ref].hash]
        BY <3>3 DEF Touch
      <4>2. CASE req' = [req EXCEPT ![c].pc = "touched", ![c].seen = row[req[c].ref].hash]
        BY <1>3, <4>2 DEF RequestRecord
      <4> QED BY <1>v, <4>1, <4>2
    <3>4. CASE update_key_last_used(c)
      BY <1>v, <3>4 DEF update_key_last_used
    <3> QED BY <3>1, <3>2, <3>3, <3>4 DEF UseStep
  <2>2. q.pc \notin {"insert", "rehash"} /\ \A r \in Refs : q.ref # r \/ q.pc \in {"touch", "touched", "provision"}
    BY <1>i, <2>1
  <2>3. req[c].pc \in {"idle", "start", "touch", "touched", "provision"}
    BY <1>6, <1>i DEF UserStep, UseStep, create_user, delete_user, signin, Request, StartRead, Begin,
       try_create_single_tenant, _provision_user, authenticate, _verify_api_key, Touch,
       update_key_last_used
  <2>4. \A r \in Refs \ muddled' : c \in Changing(r) => ~Carries(c) /\ req[c].pc # "flag"
    BY <2>3 DEF Carries
  <2> QED BY <1>1, <1>2, <1>4, <2>2, <2>4, QuietStep
<1> QED BY <1>5, <1>6

\* The invariant on the two stores is kept by every step.
LEMMA StoresAgreeStep ==
    Typed /\ KeysDiffer /\ StoresAgree /\ [Next]_vars => KeysDiffer' /\ StoresAgree'
<1> SUFFICES ASSUME Typed, KeysDiffer, StoresAgree, [Next]_vars PROVE KeysDiffer' /\ StoresAgree'
  OBVIOUS
<1>h. RequestsHold'
  BY RequestsStep
<1>t. /\ row \in [Refs -> KeyRow \cup {None}] /\ secret \in [SecretNames -> 0..MaxKeys] /\ None \notin KeyRow
      /\ None \notin Refs /\ \A c \in Clients : req[c].ref \in Refs \cup {None} /\ Holds(req[c])
  BY AccessAssumption DEF Typed, RequestsHold, StoresTyped, Holds, RequestRecord
<1>1. ASSUME NEW c \in Clients, UserStep(c) \/ UseStep(c) PROVE KeysDiffer' /\ StoresAgree'
  BY <1>1, <1>h, UseAgrees
<1>2. ASSUME NEW c \in Clients, OpenStep(c) PROVE KeysDiffer' /\ StoresAgree'
  BY <1>2, OpenAgrees
<1>3. ASSUME NEW c \in Clients, StoreStep(c) PROVE KeysDiffer' /\ StoresAgree'
  <2>r. req[c].pc \notin {"idle", "start"} => req[c].ref \in Refs
    BY <1>t DEF Holds
  <2>1. CASE WriteSecret(c)
    <3>1. CASE Fails(c)
      <4>1. UNCHANGED <<row, secret, drawn>>
        <5>1. faults' # faults
          BY <3>1, AccessAssumption DEF Fails, Fault, Typed, StoresTyped
        <5> QED BY <2>1, <5>1 DEF WriteSecret
      <4> QED BY <3>1, <4>1, EndAgrees DEF Fails
    <3>2. CASE ~Fails(c)
      BY <2>1, <3>2, WriteAgrees
    <3> QED BY <3>1, <3>2
  <2>2. CASE InsertKey(c)
    <3>1. End(c) /\ req[c].pc = "insert" /\ UNCHANGED <<secret, drawn>> /\ Carries(c)
      BY <2>2 DEF InsertKey, Fails, Carries
    <3>2. CASE row' = [row EXCEPT ![req[c].ref] = [hash |-> req[c].key, deleted |-> FALSE]] /\ UNCHANGED muddled
      <4>1. /\ row'[req[c].ref] = [hash |-> req[c].key, deleted |-> FALSE]
            /\ \A s \in Refs : s # req[c].ref => row'[s] = row[s]
        BY <1>t, <2>r, <3>1, <3>2
      <4>2. [hash |-> req[c].key, deleted |-> FALSE] \in KeyRow
        BY <3>1, <1>t, AccessAssumption DEF Holds, KeyRow, Typed, StoresTyped
      <4>3. row'[req[c].ref] # None
        BY <1>t, <4>1, <4>2
      <4>4. row'[req[c].ref].hash = req[c].key
        BY <4>1
      <4> QED BY <3>1, <3>2, <4>1, <4>3, <4>4, RowAgrees
    <3>3. CASE muddled' = muddled \cup {req[c].ref} /\ UNCHANGED row
      BY <3>1, <3>3, EndAgrees
    <3> QED BY <2>2, <3>2, <3>3 DEF InsertKey, Fails
  <2>3. CASE Rehash(c)
    <3>1. End(c) /\ req[c].pc = "rehash" /\ UNCHANGED <<secret, drawn>> /\ Carries(c)
      BY <2>3 DEF Rehash, Fails, Carries
    <3>2. CASE /\ req[c].ref \in Rows /\ row' = [row EXCEPT ![req[c].ref].hash = req[c].key]
               /\ UNCHANGED muddled
      <4>1. /\ row'[req[c].ref] # None /\ row'[req[c].ref].hash = req[c].key
            /\ \A s \in Refs : s # req[c].ref => row'[s] = row[s]
        <5>1. row[req[c].ref] \in KeyRow
          BY <1>t, <3>2 DEF Rows
        <5>2. [row[req[c].ref] EXCEPT !.hash = req[c].key] \in KeyRow
          BY <3>1, <1>t, <5>1, AccessAssumption DEF Holds, KeyRow, Typed, StoresTyped
        <5> QED BY <1>t, <3>2, <5>1, <5>2 DEF Rows, KeyRow
      <4> QED BY <3>1, <3>2, <4>1, RowAgrees
    <3>3. CASE muddled' = muddled \cup {req[c].ref} /\ UNCHANGED row
      BY <3>1, <3>3, EndAgrees
    <3> QED BY <2>3, <3>2, <3>3 DEF Rehash, Fails, Matches
  <2>4. CASE DropSecret(c)
    <3>1. req[c].pc = "drop" /\ UNCHANGED <<row, drawn>> /\ ~Carries(c)
      BY <2>4 DEF DropSecret, Carries
    <3>2. CASE /\ secret' = [secret EXCEPT ![NameOf[req[c].ref]] = 0] /\ Goto(c, "flag") /\ UNCHANGED muddled
      <4> DEFINE q == [req[c] EXCEPT !.pc = "flag"]
      <4>1. req' = [req EXCEPT ![c] = q] /\ q.pc = "flag" /\ q.ref = req[c].ref
        BY <3>2 DEF Goto, Typed, RequestsHold, RequestRecord
      <4>2. \A s \in Refs : NameOf[s] # NameOf[req[c].ref] => secret'[NameOf[s]] = secret[NameOf[s]]
        BY <1>t, <3>2, AccessAssumption
      <4>3. Rows' = Rows
        BY <3>1 DEF Rows
      <4> HIDE DEF q
      <4> QED BY <3>1, <3>2, <4>1, <4>2, <4>3, DropAgrees
    <3>3. CASE End(c) /\ UNCHANGED secret /\ muddled \subseteq muddled'
      BY <3>1, <3>3, EndAgrees
    <3> QED BY <2>4, <3>2, <3>3 DEF DropSecret, Fails
  <2>5. CASE Flag(c)
    <3>1. End(c) /\ req[c].pc = "flag" /\ UNCHANGED <<secret, drawn>> /\ ~Carries(c)
      BY <2>5 DEF Flag, Fails, Carries
    <3>2. CASE /\ req[c].ref \in Rows /\ row' = [row EXCEPT ![req[c].ref].deleted = TRUE]
               /\ UNCHANGED muddled
      <4>1. /\ row'[req[c].ref].deleted /\ \A s \in Rows : row'[s].hash = row[s].hash
            /\ \A s \in Refs : s # req[c].ref => row'[s] = row[s]
        BY <1>t, <3>2 DEF Rows, KeyRow
      <4>2. [row[req[c].ref] EXCEPT !.deleted = TRUE] \in KeyRow
        <5>1. row[req[c].ref] \in KeyRow
          BY <1>t, <3>2 DEF Rows
        <5> QED BY <5>1 DEF KeyRow
      <4>3. Rows' = Rows
        BY <1>t, <3>2, <4>2 DEF Rows
      <4> QED BY <3>1, <3>2, <4>1, <4>3, IdleRecord, DropAgrees DEF End
    <3>3. CASE muddled' = muddled \cup {req[c].ref} /\ UNCHANGED row
      BY <3>1, <3>3, EndAgrees
    <3> QED BY <2>5, <3>2, <3>3 DEF Flag, Fails, Matches
  <2>6. CASE ReadSecret(c)
    BY <2>6, EndAgrees DEF ReadSecret, keyVars, Carries
  <2> QED BY <1>3, <2>1, <2>2, <2>3, <2>4, <2>5, <2>6 DEF StoreStep
<1>4. CASE UNCHANGED vars
  BY <1>4 DEF vars, keyVars, KeysDiffer, StoresAgree, Rows, Carries, Alone, Sole, Kin, Agree, Changing
<1> QED BY <1>1, <1>2, <1>3, <1>4, NextKinds

\* update_key_last_used: an id enters the cache with its use written down, or
\* because it was rotated meanwhile.
LEMMA SkippedStep == SkippedMeansRecorded /\ [Next]_vars => SkippedMeansRecorded'
<1> SUFFICES ASSUME SkippedMeansRecorded, [Next]_vars PROVE SkippedMeansRecorded'
  OBVIOUS
<1>0. ASSUME UNCHANGED useVars PROVE SkippedMeansRecorded'
  BY <1>0 DEF SkippedMeansRecorded, useVars
<1>1. ASSUME NEW c \in Clients, UserStep(c) PROVE UNCHANGED useVars
  BY <1>1 DEF UserStep, create_user, delete_user, signin, StartRead, try_create_single_tenant,
              _provision_user
<1>2. ASSUME NEW c \in Clients, UseStep(c) PROVE SkippedMeansRecorded'
  <2>1. CASE update_key_last_used(c)
    BY <2>1 DEF update_key_last_used, SkippedMeansRecorded, useVars
  <2> QED BY <1>0, <1>2, <2>1 DEF UseStep, authenticate, _verify_api_key, Touch
<1>3. ASSUME NEW c \in Clients, OpenStep(c) PROVE UNCHANGED useVars
  BY <1>3, OpensKey DEF BeginKey
<1>4. ASSUME NEW c \in Clients, StoreStep(c) PROVE UNCHANGED useVars
  BY <1>4 DEF StoreStep, WriteSecret, InsertKey, Rehash, DropSecret, Flag, ReadSecret
<1>5. CASE UNCHANGED vars
  BY <1>0, <1>5 DEF vars
<1> QED BY <1>0, <1>1, <1>2, <1>3, <1>4, <1>5, NextKinds

\* The two stores agree whenever nobody is between them: the key that is shown
\* is accepted, for its own id alone.
LEMMA ShownIsAccepted == Typed /\ KeysDiffer /\ StoresAgree => ShownKeyIsAccepted
<1> SUFFICES ASSUME Typed, KeysDiffer, StoresAgree,
                    NEW r \in Rows \ muddled, ~row[r].deleted, Changing(r) = {}
             PROVE  r \in DOMAIN get_api_keys_secret /\ get_api_key(get_api_keys_secret[r]) = {r}
  BY DEF ShownKeyIsAccepted
<1>1. r \in Refs /\ row[r] \in KeyRow
  BY AccessAssumption DEF Rows, Typed, StoresTyped
<1>2. secret[NameOf[r]] = row[r].hash
  BY <1>1 DEF StoresAgree, Agree
<1>3. row[r].hash \in 1..MaxKeys
  BY <1>1 DEF KeyRow
<1>4. secret[NameOf[r]] # 0
  BY <1>2, <1>3, AccessAssumption
<1>5. r \in DOMAIN get_api_keys_secret /\ get_api_keys_secret[r] = secret[NameOf[r]]
  BY <1>4 DEF get_api_keys_secret
<1>6. get_api_key(secret[NameOf[r]]) = {r}
  BY <1>2 DEF get_api_key, KeysDiffer
<1> QED BY <1>5, <1>6

\* Keys and their two stores: the types, no key accepted for two ids; the key
\* shown for an id is the one accepted for it, unless requests on it overlapped
\* or failed half way, or another id has the same secret; a use that is skipped was recorded (KeysAreSound).
THEOREM KeysTheorem == Spec => []KeysAreSound
<1>1. Init => KeysDiffer /\ StoresAgree /\ SkippedMeansRecorded
  <2> SUFFICES ASSUME Init PROVE KeysDiffer /\ StoresAgree /\ SkippedMeansRecorded
    OBVIOUS
  <2>1. \A c \in Clients : req[c].pc = "idle" /\ req[c].ref = None
    BY IdleRecord DEF Init
  <2>2. Rows = {} /\ \A r \in Refs : Changing(r) = {}
    BY <2>1, AccessAssumption DEF Init, Rows, Changing
  <2>3. KeysDiffer
    BY <2>1, <2>2 DEF KeysDiffer, Carries
  <2>4. StoresAgree
    BY <2>2 DEF StoresAgree, Alone, Sole, Agree
  <2> QED BY <2>3, <2>4 DEF Init, SkippedMeansRecorded
<1>2. Typed /\ KeysDiffer => TypeOK
  BY DEF Typed, RequestsHold, StoresTyped, RestTyped, KeysDiffer, TypeOK, RequestRecord
<1>3. Typed /\ KeysDiffer /\ StoresAgree /\ SkippedMeansRecorded => KeysAreSound
  BY <1>2, ShownIsAccepted DEF KeysAreSound
<1> QED BY AlwaysTyped, StoresAgreeStep, SkippedStep, <1>1, <1>3, PTL DEF Spec

=============================================================================
