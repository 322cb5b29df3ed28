------------------------------ MODULE Providers ------------------------------
(***************************************************************************)
(* Providers: a row in the database, a configuration in the secret         *)
(* manager and, for consumers, a thread of the process.  The routes        *)
(* (src/routes/providers.py) and the provisioning at start-up go through   *)
(* ProvidersService (src/providers/providers_service.py), which changes    *)
(* the three one after the other; main.py starts the consumers some time   *)
(* after the start-up and stops them in the shutdown.                      *)
(*                                                                         *)
(* A client is a request or a start-up's provisioning; a step is one       *)
(* change of one store.  The secret manager, the database and the          *)
(* provider's own calls may fail (a fault), and the process may crash      *)
(* between any two steps.  Requests that are refused before they change    *)
(* anything (missing rows and secrets, configurations the provider class   *)
(* rejects, mandatory scopes) are stuttering steps and are left out.  A    *)
(* name stands for a provider with its type; configurations are            *)
(* abstracted to their presence, scopes and pull settings are left out,    *)
(* and so is the webhooks' API key, which module Access has.               *)
(***************************************************************************)
EXTENDS Integers, FiniteSets

CONSTANTS Ids,         \* provider ids, drawn once each
          Names,       \* provider names, unique per tenant
          Clients,
          None,        \* no row, no name, no provisioning
          Consumers,   \* names whose provider class has start_consume
          Hooked,      \* names whose class can set up a webhook
          Refreshing,  \* names whose provider changes its authentication on init
          MaxOps,      \* bound: requests and provisionings
          MaxFaults    \* bound: failures and crashes

\* A row of the Provider table, as far as it matters.
Rows == [name : Names, provisioned : BOOLEAN, consumer : BOOLEAN]

ASSUME ProvidersAssumption ==
    /\ Consumers \subseteq Names /\ Hooked \subseteq Names /\ Refreshing \subseteq Names
    /\ MaxOps \in Nat /\ MaxFaults \in Nat
    /\ None \notin Ids \cup Names /\ None \notin Rows

VARIABLES
    row,        \* the Provider table
    secret,     \* ids whose configuration the secret manager holds
    misplaced,  \* names an installation wrote a configuration under, not under its id
    drawn,      \* the name each id was drawn for
    pc, req,    \* where each client is, and the provider it works on
    prov,       \* the provisioning a client runs
    thr,        \* consumer threads, by provider and by who started them
    deferred,   \* _event_subscriber_task: "pending", "done" or "cancelled"
    life,       \* "up", "stopping", "down"
    stop,       \* EventSubscriber.stop: "no", "asking" the consumers one by one, "over"
    ops, faults,
    answered,   \* history: ids whose installation was answered 200
    lost,       \* history: ids the oauth2 route refused after their secret was written
    touched,    \* history: ids a deletion has worked on
    shared,     \* history: ids two clients worked on at once
    before      \* history: the threads that ran when the shutdown began

asideVars == <<misplaced, thr, deferred, life, stop, before>>   \* no step of a request changes them but two
historyVars == <<answered, lost, touched, shared>>
vars == <<row, secret, drawn, pc, req, prov, asideVars, ops, faults, historyVars>>

Starters == {"install", "start"}
PCs == {"idle", "write", "insert", "cleanup", "consume", "tempDrop", "hook", "dropSecret", "cleanUp",
        "deleteRow", "writeUpdate", "commitUpdate", "use", "provision"}
NoReq == [op |-> "none", id |-> None, name |-> None]
NotRunning == [mode |-> "off", cfg |-> {}, todo |-> {}, gone |-> {}, looked |-> {}, keep |-> {},
               alone |-> FALSE, clean |-> FALSE]

Init ==
    /\ row = [u \in Ids |-> None] /\ secret = {} /\ misplaced = {} /\ drawn = [u \in Ids |-> None]
    /\ pc = [c \in Clients |-> "idle"] /\ req = [c \in Clients |-> NoReq]
    /\ prov = [c \in Clients |-> NotRunning]
    /\ thr = [t \in Ids \X Starters |-> "none"]
    /\ deferred = "pending" /\ life = "up" /\ stop = "no" /\ before = {}
    /\ ops = 0 /\ faults = 0
    /\ answered = {} /\ lost = {} /\ touched = {} /\ shared = {}

Fault == faults < MaxFaults /\ faults' = faults + 1
Working(u) == {c \in Clients : req[c].id = u}
Provisioning(c) == prov[c].mode # "off"

(***************************************************************************)
(* Queries                                                                 *)
(***************************************************************************)
Installed == {u \in Ids : row[u] # None}
get_provider_by_name(n) == {u \in Installed : row[u].name = n}
\* The configurations the secret manager can return.
read_secret(u) == u \in secret
\* Mutated form of get_all_provisioned_providers: only providers that can be read.
MutProvisionedReadable == {u \in Installed : read_secret(u) /\ row[u].provisioned}
get_all_provisioned_providers == {u \in Installed : row[u].provisioned}
\* What GET /providers lists: a row whose secret is missing is skipped.
get_installed_providers == {u \in Installed : read_secret(u)}
\* What the event subscriber starts: the consumers' rows that can be instantiated.
get_consumer_providers == {u \in get_installed_providers : row[u].consumer}

(***************************************************************************)
(* Control: how a request, or one operation of a provisioning, begins and  *)
(* ends.                                                                   *)
(***************************************************************************)
\* The client works on provider u from step p on.
Enter(c, p, op, u, n) ==
    /\ pc' = [pc EXCEPT ![c] = p]
    /\ req' = [req EXCEPT ![c] = [op |-> op, id |-> u, name |-> n]]
    /\ shared' = IF Working(u) \ {c} = {} THEN shared ELSE shared \cup {u}

Begin(c) ==
    /\ pc[c] = "idle" /\ life = "up" /\ ops < MaxOps
    /\ ops' = ops + 1

\* A provisioning that anything else overlaps does not run alone.
Request(c) == Begin(c) /\ prov' = [d \in Clients |-> [prov[d] EXCEPT !.alone = FALSE]]

To(c, p) == pc' = [pc EXCEPT ![c] = p] /\ UNCHANGED <<req, prov>>

\* The operation succeeded.  A provisioning from the directory notes what it
\* installed, so that it is not deprovisioned at the end.
Done(c) ==
    /\ req' = [req EXCEPT ![c] = NoReq]
    /\ pc' = [pc EXCEPT ![c] = IF Provisioning(c) THEN "provision" ELSE "idle"]
    /\ prov' = [prov EXCEPT ![c].keep =
                   IF req[c].op = "install" /\ Provisioning(c) THEN @ \cup {req[c].name} ELSE @]

\* It raised.  Provisioning catches what an installation raises, and what a
\* deletion (environment) or an update (directory) raises; else it gives up.
Caught(c) == \/ req[c].op = "install"
             \/ prov[c].mode = "env" /\ req[c].op = "delete"
             \/ prov[c].mode = "dir" /\ req[c].op = "update"

Raise(c) ==
    /\ req' = [req EXCEPT ![c] = NoReq]
    /\ IF Provisioning(c) /\ Caught(c)
       THEN /\ pc' = [pc EXCEPT ![c] = "provision"]
            /\ prov' = [prov EXCEPT ![c].clean = FALSE]
       ELSE /\ pc' = [pc EXCEPT ![c] = "idle"]
            /\ prov' = [prov EXCEPT ![c] = NotRunning]

(***************************************************************************)
(* Installation                                                            *)
(***************************************************************************)
Draws(c, op) ==
    \E n \in Names, u \in {v \in Ids : drawn[v] = None} :
        drawn' = [drawn EXCEPT ![u] = n] /\ Enter(c, "write", op, u, n)

\* POST /install.
install_provider(c) ==
    /\ Request(c) /\ Draws(c, "install")
    /\ UNCHANGED <<row, secret, asideVars, faults, answered, lost, touched>>

\* POST /install/oauth2/{type}.
install_provider_oauth2(c) ==
    /\ Request(c) /\ Draws(c, "oauth2")
    /\ UNCHANGED <<row, secret, asideVars, faults, answered, lost, touched>>

\* POST /healthcheck: the configuration is stored and dropped again.
healthcheck_provider(c) ==
    /\ Request(c) /\ Draws(c, "health")
    /\ UNCHANGED <<row, secret, asideVars, faults, answered, lost, touched>>

\* The provider is instantiated with its new configuration: one that changes its
\* authentication has it written back under the id the request named, its type, and
\* not under the id that was drawn.  (A failure is that of WriteSecret.)
Instantiate(c) ==
    /\ pc[c] = "write" /\ req[c].name \in Refreshing
    /\ misplaced' = misplaced \cup {req[c].name}
    /\ UNCHANGED <<row, secret, drawn, pc, req, prov, thr, deferred, life, stop, before, ops, faults,
                   historyVars>>

WriteSecret(c) ==
    /\ pc[c] = "write"
    /\ req[c].name \in Refreshing => req[c].name \in misplaced
    /\ \/ /\ secret' = secret \cup {req[c].id} /\ UNCHANGED faults
          /\ To(c, IF req[c].op = "health" THEN "tempDrop" ELSE "insert")
       \/ Fault /\ Raise(c) /\ UNCHANGED secret
    /\ UNCHANGED <<row, drawn, asideVars, ops, historyVars>>

\* prepare_provider: a failing deletion is logged and ignored.
DropTemporary(c) ==
    /\ pc[c] = "tempDrop"
    /\ \/ secret' = secret \ {req[c].id} /\ UNCHANGED faults
       \/ Fault /\ UNCHANGED secret
    /\ Done(c)
    /\ UNCHANGED <<row, drawn, asideVars, ops, historyVars>>

\* The installation is committed; the oauth2 route and provisioning may go on
\* with the webhook.
Succeeds(c) ==
    /\ answered' = answered \cup {req[c].id}
    /\ \/ Done(c)
       \/ req[c].name \in Hooked /\ (req[c].op = "oauth2" \/ Provisioning(c)) /\ To(c, "hook")

\* (tenant, name) is unique: the loser of install_provider removes its secret,
\* the loser of the oauth2 route does not.
InsertRow(c) ==
    /\ pc[c] = "insert"
    /\ LET u == req[c].id
           n == req[c].name
           taken == get_provider_by_name(n) # {}
       IN \/ /\ ~taken /\ UNCHANGED <<faults, lost>>
             /\ row' = [row EXCEPT ![u] = [name |-> n, provisioned |-> Provisioning(c),
                                           consumer |-> req[c].op = "install" /\ n \in Consumers]]
             /\ IF row'[u].consumer THEN To(c, "consume") /\ UNCHANGED answered ELSE Succeeds(c)
          \/ /\ taken /\ req[c].op = "install" /\ To(c, "cleanup")
             /\ UNCHANGED <<row, faults, answered, lost>>
          \/ /\ taken /\ req[c].op = "oauth2" /\ Raise(c) /\ lost' = lost \cup {u}
             /\ UNCHANGED <<row, faults, answered>>
          \/ Fault /\ Raise(c) /\ UNCHANGED <<row, answered, lost>>
    /\ UNCHANGED <<secret, drawn, asideVars, ops, touched, shared>>

\* Mutated form of RemoveSecret: the 409 is raised first.
MutRemoveSecretSkipped(c) ==
    /\ pc[c] = "cleanup" /\ Raise(c)
    /\ UNCHANGED <<row, secret, drawn, asideVars, ops, faults, historyVars>>

\* "if the provider is already installed, delete the secret", then the 409.
RemoveSecret(c) ==
    /\ pc[c] = "cleanup"
    /\ \/ secret' = secret \ {req[c].id} /\ UNCHANGED faults
       \/ Fault /\ UNCHANGED secret
    /\ Raise(c)
    /\ UNCHANGED <<row, drawn, asideVars, ops, historyVars>>

\* EventSubscriber.add_consumer: a thread of this process.
add_consumer(c) ==
    /\ pc[c] = "consume"
    /\ thr' = [thr EXCEPT ![<<req[c].id, "install">>] = "running"]
    /\ Succeeds(c)
    /\ UNCHANGED <<row, secret, misplaced, drawn, deferred, life, stop, before, ops, faults, lost, touched, shared>>

(***************************************************************************)
(* Deletion                                                                *)
(***************************************************************************)
\* The secret is read first: without it the deletion raises.
Delete(c, u) ==
    /\ read_secret(u) /\ row[u] # None
    /\ Enter(c, "dropSecret", "delete", u, row[u].name)
    /\ touched' = touched \cup {u}

delete_provider(c) ==
    /\ Request(c)
    /\ \E u \in Installed : ~row[u].provisioned /\ Delete(c, u)
    /\ UNCHANGED <<row, secret, drawn, asideVars, faults, answered, lost>>

\* A failure is logged and the deletion goes on.  remove_consumer is given the
\* row and compares it with provider ids, so it stops no consumer.
DropSecret(c) ==
    /\ pc[c] = "dropSecret"
    /\ \/ secret' = secret \ {req[c].id} /\ UNCHANGED faults
       \/ Fault /\ UNCHANGED secret
    /\ To(c, "cleanUp")
    /\ UNCHANGED <<row, drawn, asideVars, ops, historyVars>>

\* Every instantiation writes the configuration back if the provider changed it.
get_provider(u, n) == secret' = IF n \in Refreshing THEN secret \cup {u} ELSE secret

\* The provider is instantiated to clean up after itself.
CleanUp(c) ==
    /\ pc[c] = "cleanUp"
    /\ get_provider(req[c].id, req[c].name)
    /\ To(c, "deleteRow")
    /\ UNCHANGED <<row, drawn, asideVars, ops, faults, historyVars>>

\* A row that is already gone is not an error.
DeleteRow(c) ==
    /\ pc[c] = "deleteRow"
    /\ \/ row' = [row EXCEPT ![req[c].id] = None] /\ UNCHANGED faults /\ Done(c)
       \/ Fault /\ Raise(c) /\ UNCHANGED row
    /\ UNCHANGED <<secret, drawn, asideVars, ops, historyVars>>

(***************************************************************************)
(* Update, use and webhooks                                                *)
(***************************************************************************)
\* PUT /{provider_id}: the secret first, then the row.
update_provider(c) ==
    /\ Request(c)
    /\ \E u \in Installed :
          ~row[u].provisioned /\ Enter(c, "writeUpdate", "update", u, row[u].name)
    /\ UNCHANGED <<row, secret, drawn, asideVars, faults, answered, lost, touched>>

WriteUpdate(c) ==
    /\ pc[c] = "writeUpdate"
    /\ \/ secret' = secret \cup {req[c].id} /\ UNCHANGED faults /\ To(c, "commitUpdate")
       \/ Fault /\ Raise(c) /\ (UNCHANGED secret \/ get_provider(req[c].id, req[c].name))
    /\ UNCHANGED <<row, drawn, asideVars, ops, historyVars>>

\* An update of a row that is gone matches nothing and raises.
CommitUpdate(c) ==
    /\ pc[c] = "commitUpdate"
    /\ \/ row[req[c].id] # None /\ Done(c) /\ UNCHANGED faults
       \/ row[req[c].id] = None /\ Raise(c) /\ UNCHANGED faults
       \/ Fault /\ Raise(c)
    /\ UNCHANGED <<row, secret, drawn, asideVars, ops, historyVars>>

\* The routes that read a provider's configuration and call the provider; they
\* take ids the API has shown.
Uses(c, u) ==
    /\ Request(c) /\ read_secret(u) /\ Enter(c, "use", "use", u, drawn[u])
    /\ UNCHANGED <<row, secret, drawn, asideVars, faults, answered, lost, touched>>

validate_provider_scopes(c) == \E u \in Installed : Uses(c, u)
invoke_provider_method(c) == \E u \in Installed : Uses(c, u)
get_alerts_configuration(c) == \E u \in Installed \cup answered : Uses(c, u)
get_logs(c) == \E u \in Installed \cup answered : Uses(c, u)
add_alert(c) == \E u \in Installed \cup answered : Uses(c, u)

UseProvider(c) ==
    /\ pc[c] = "use"
    /\ get_provider(req[c].id, req[c].name)
    /\ Done(c)
    /\ UNCHANGED <<row, drawn, asideVars, ops, faults, historyVars>>

\* POST /install/webhook/{type}/{id}: the configuration is read here and, when
\* the provider returned more of it, written in the last step.
install_provider_webhook(c) ==
    /\ Request(c)
    /\ \E u \in Installed \cup answered :
          read_secret(u) /\ drawn[u] \in Hooked /\ Enter(c, "hook", "hook", u, drawn[u])
    /\ UNCHANGED <<row, secret, drawn, asideVars, faults, answered, lost, touched>>

\* Provisioning logs a failing webhook and goes on.
Hook(c) ==
    /\ pc[c] = "hook"
    /\ \/ /\ secret' \in {secret, secret \cup {req[c].id}} /\ UNCHANGED faults /\ Done(c)
       \/ /\ Fault /\ UNCHANGED secret
          /\ IF Provisioning(c) THEN Done(c) ELSE Raise(c)
    /\ UNCHANGED <<row, drawn, asideVars, ops, historyVars>>

(***************************************************************************)
(* Provisioning, at start-up: from the environment (an empty one removes   *)
(* every provisioned provider) or from a directory of files.  The          *)
(* environment deletes first and installs then, the directory the other    *)
(* way round, keeping the names it noted.                                  *)
(***************************************************************************)
provision_providers(c) ==
    /\ Begin(c)
    /\ \E m \in {"none", "env", "dir"}, cfg \in SUBSET Names :
          /\ m = "none" => cfg = {}
          /\ prov' = [d \in Clients |->
                IF d # c THEN [prov[d] EXCEPT !.alone = FALSE]
                ELSE [mode |-> m, cfg |-> cfg, todo |-> cfg, looked |-> {}, keep |-> {}, clean |-> TRUE,
                      alone |-> \A o \in Clients \ {c} : pc[o] = "idle",
                      gone |-> IF m = "dir" THEN get_all_provisioned_providers
                               ELSE {u \in get_all_provisioned_providers : row[u].name \notin cfg}]]
    /\ pc' = [pc EXCEPT ![c] = "provision"]
    /\ UNCHANGED <<row, secret, drawn, req, asideVars, faults, historyVars>>

\* "otherwise the provider will be un-provisioned": an installed name is noted
\* before its update.
Noted(p, n) == [p EXCEPT !.todo = @ \ {n}, !.looked = @ \cup {n}, !.keep = @ \cup {n}]

\* One name of the configuration: updated when installed, else installed.  A file
\* that cannot be read and a lookup that fails before the name is noted are caught
\* together; with the environment nobody catches the lookup.
ProvisionName(c) ==
    /\ pc[c] = "provision"
    /\ prov[c].mode = "dir" \/ prov[c].gone = {}
    /\ \E n \in prov[c].todo :
          \/ \E u \in get_provider_by_name(n) :
                /\ Enter(c, "writeUpdate", "update", u, n)
                /\ prov' = [prov EXCEPT ![c] = Noted(@, n)] /\ UNCHANGED <<drawn, faults>>
          \/ /\ get_provider_by_name(n) = {}
             /\ \E u \in {v \in Ids : drawn[v] = None} :
                   drawn' = [drawn EXCEPT ![u] = n] /\ Enter(c, "write", "install", u, n)
             /\ prov' = [prov EXCEPT ![c].todo = @ \ {n}, ![c].looked = @ \cup {n}] /\ UNCHANGED faults
          \/ /\ prov[c].mode = "dir" /\ Fault
             /\ prov' = [prov EXCEPT ![c].todo = @ \ {n}, ![c].clean = FALSE]
             /\ UNCHANGED <<pc, req, drawn, shared>>
          \/ /\ prov[c].mode = "env" /\ Fault
             /\ prov' = [prov EXCEPT ![c] = NotRunning] /\ pc' = [pc EXCEPT ![c] = "idle"]
             /\ UNCHANGED <<req, drawn, shared>>
    /\ UNCHANGED <<row, secret, asideVars, ops, answered, lost, touched>>

\* One provider of the snapshot that the configuration no longer has.
Deprovision(c) ==
    /\ pc[c] = "provision"
    /\ prov[c].mode = "dir" => prov[c].todo = {}
    /\ \E u \in prov[c].gone :
          IF prov[c].mode = "dir" /\ drawn[u] \in prov[c].keep
          THEN /\ prov' = [prov EXCEPT ![c].gone = @ \ {u}]
               /\ UNCHANGED <<pc, req, faults, shared, touched>>
          ELSE \/ Delete(c, u) /\ prov' = [prov EXCEPT ![c].gone = @ \ {u}] /\ UNCHANGED faults
               \/ /\ \/ u \notin get_installed_providers /\ UNCHANGED faults   \* 404, or no secret
                     \/ Fault                                                 \* they cannot be read
                  /\ IF prov[c].mode = "env"
                     THEN prov' = [prov EXCEPT ![c].gone = @ \ {u}, ![c].clean = FALSE] /\ UNCHANGED pc
                     ELSE prov' = [prov EXCEPT ![c] = NotRunning] /\ pc' = [pc EXCEPT ![c] = "idle"]
                  /\ UNCHANGED <<req, shared, touched>>
    /\ UNCHANGED <<row, secret, drawn, asideVars, ops, answered, lost>>

Provisioned(c) == pc[c] = "provision" /\ prov[c].todo = {} /\ prov[c].gone = {}

ProvisionEnds(c) ==
    /\ Provisioned(c)
    /\ pc' = [pc EXCEPT ![c] = "idle"] /\ prov' = [prov EXCEPT ![c] = NotRunning]
    /\ UNCHANGED <<row, secret, drawn, req, asideVars, ops, faults, historyVars>>

(***************************************************************************)
(* The process: the deferred start of the consumers, shutdown, crash.      *)
(***************************************************************************)
\* EventSubscriber.start does not know the threads of add_consumer.
start(u) == u \in get_consumer_providers
StartConsumers ==
    /\ deferred = "pending" /\ deferred' = "done"
    /\ thr' = [t \in Ids \X Starters |->
                  IF t[2] = "start" /\ start(t[1]) THEN "running" ELSE thr[t]]
    /\ UNCHANGED <<row, secret, misplaced, drawn, pc, req, prov, life, stop, before, ops, faults,
                   historyVars>>

Running == {t \in Ids \X Starters : thr[t] = "running"}
Shutdown ==
    /\ life = "up" /\ life' = "stopping"
    /\ \A c \in Clients : pc[c] = "idle"
    /\ stop' = "asking" /\ before' = Running
    /\ UNCHANGED <<row, secret, misplaced, drawn, pc, req, prov, thr, ops, faults, historyVars>>

\* Mutated form of ShutdownBegins: the deferred start is not cancelled.
MutShutdownKeepsTask == Shutdown /\ UNCHANGED deferred

\* The requests are drained before shutdown(), which cancels a start that has
\* not happened and awaits it.
ShutdownBegins ==
    Shutdown /\ deferred' = IF deferred = "pending" THEN "cancelled" ELSE deferred

\* stop() asks one consumer after the other, each call blocking its thread, and
\* waits for them; a wedged one is abandoned after the join's timeout.
StopConsumer ==
    /\ stop = "asking"
    /\ \/ /\ \E t \in Running, s \in {"asked", "ended"} : thr' = [thr EXCEPT ![t] = s]
          /\ UNCHANGED stop
       \/ Running = {} /\ stop' = "over" /\ UNCHANGED thr
    /\ UNCHANGED <<row, secret, misplaced, drawn, pc, req, prov, deferred, life, before, ops, faults,
                   historyVars>>

\* The shutdown goes on when stop() is over, or at its timeout whatever stop() has
\* done until then; the executor's thread goes on with stop().
ShutdownEnds ==
    /\ life = "stopping" /\ life' = "down"
    /\ UNCHANGED <<row, secret, misplaced, drawn, pc, req, prov, thr, deferred, stop, before, ops,
                   faults, historyVars>>

\* A killed process loses its requests and threads; the next one starts afresh.
Crash ==
    /\ Fault /\ life' = "up" /\ deferred' = "pending"
    /\ pc' = [c \in Clients |-> "idle"] /\ req' = [c \in Clients |-> NoReq]
    /\ prov' = [c \in Clients |-> NotRunning]
    /\ thr' = [t \in Ids \X Starters |-> "none"] /\ stop' = "no" /\ before' = {}
    /\ UNCHANGED <<row, secret, misplaced, drawn, ops, historyVars>>

Routes(c) ==
    \/ install_provider(c) \/ install_provider_oauth2(c) \/ healthcheck_provider(c)
    \/ delete_provider(c) \/ update_provider(c) \/ install_provider_webhook(c)
    \/ validate_provider_scopes(c) \/ invoke_provider_method(c)
    \/ get_alerts_configuration(c) \/ get_logs(c) \/ add_alert(c)

Steps(c) ==
    \/ WriteSecret(c) \/ DropTemporary(c) \/ InsertRow(c) \/ RemoveSecret(c) \/ add_consumer(c)
    \/ DropSecret(c) \/ CleanUp(c) \/ DeleteRow(c)
    \/ WriteUpdate(c) \/ CommitUpdate(c) \/ UseProvider(c) \/ Hook(c)
    \/ provision_providers(c) \/ ProvisionName(c) \/ Deprovision(c) \/ ProvisionEnds(c)

Next ==
    \/ \E c \in Clients : Routes(c) \/ Steps(c) \/ Instantiate(c)
    \/ StartConsumers \/ ShutdownBegins \/ StopConsumer \/ ShutdownEnds \/ Crash

Spec == Init /\ [][Next]_vars

(***************************************************************************)
(* Properties                                                              *)
(***************************************************************************)
\* The type of every variable.
TypeOK ==
    /\ row \in [Ids -> Rows \cup {None}] /\ secret \subseteq Ids /\ misplaced \subseteq Names
    /\ drawn \in [Ids -> Names \cup {None}]
    /\ pc \in [Clients -> PCs]
    /\ req \in [Clients -> [op : {"none", "install", "oauth2", "health", "delete", "update", "use", "hook"},
                            id : Ids \cup {None}, name : Names \cup {None}]]
    /\ prov \in [Clients -> [mode : {"off", "none", "env", "dir"}, cfg : SUBSET Names, todo : SUBSET Names,
                             gone : SUBSET Ids, looked : SUBSET Names, keep : SUBSET Names,
                             alone : BOOLEAN, clean : BOOLEAN]]
    /\ thr \in [Ids \X Starters -> {"none", "running", "ended", "asked"}]
    /\ deferred \in {"pending", "done", "cancelled"} /\ life \in {"up", "stopping", "down"}
    /\ stop \in {"no", "asking", "over"} /\ before \subseteq Ids \X Starters
    /\ ops \in 0..MaxOps /\ faults \in 0..MaxFaults
    /\ answered \subseteq Ids /\ lost \subseteq Ids /\ touched \subseteq Ids /\ shared \subseteq Ids

\* A provider whose installation was answered stays in the list of installed
\* providers, whatever fails, until a deletion works on it: no failure path of
\* another operation takes its row or its secret.
InstalledIsListed == answered \ touched \subseteq get_installed_providers

\* Without failures the two stores agree on every provider nobody works on:
\* no row without its secret ("probably bug in deletion"), and no secret without
\* its row except what the oauth2 route left when it lost the name, what an
\* operation wrote that overlapped the deletion, and what the deletion's own
\* clean-up wrote back.
StoresAgree ==
    faults = 0 =>
        \A u \in Ids : Working(u) = {} =>
            /\ row[u] # None => u \in secret
            /\ u \in secret /\ row[u] = None => u \in lost \cup shared \/ drawn[u] \in Refreshing

\* A provider whose file the provisioning read and which it could look up is never
\* deprovisioned by it, even if its update failed ("otherwise the provider will be
\* un-provisioned").  One whose lookup failed is: it was not noted yet.
ReadFilesStay ==
    \A c \in Clients :
        prov[c].mode = "dir" /\ req[c].op = "delete" => req[c].name \notin prov[c].looked

\* A provisioning that ran alone and raised nothing leaves exactly its
\* configuration: every name is installed and listed, no other is provisioned.
ProvisionConverges ==
    \A c \in Clients :
        Provisioned(c) /\ prov[c].alone /\ prov[c].clean =>
            /\ \A n \in prov[c].cfg : get_provider_by_name(n) \cap get_installed_providers # {}
            /\ \A u \in Installed : row[u].provisioned => row[u].name \in prov[c].cfg

\* No consumer thread starts once the shutdown has begun ("the consumer threads
\* start after shutdown, never joined"), and when stop() is over none runs that it
\* did not ask to stop.  A shutdown that gave up waiting may leave consumers that
\* ran before and were not asked yet.
NoConsumerAfterShutdown ==
    /\ life # "up" => Running \subseteq before
    /\ stop = "over" => Running = {}

\* The database and the secret manager, under installations, uses and deletions.
StoresAreSound == TypeOK /\ InstalledIsListed /\ StoresAgree

\* Provisioning takes away nothing it should keep and leaves what it was given.
ProvisioningIsExact == ReadFilesStay /\ ProvisionConverges

=============================================================================
