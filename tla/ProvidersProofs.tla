--------------------------- MODULE ProvidersProofs ---------------------------
(***************************************************************************)
(* Proofs about Providers: for any ids, names and clients and any bounds,  *)
(* no consumer is left running by the shutdown, the database and the       *)
(* secret manager agree on every provider nobody works on, and a           *)
(* provisioning takes away nothing it should keep.                         *)
(***************************************************************************)
EXTENDS Providers, TLAPS

Ops == {"none", "install", "oauth2", "health", "delete", "update", "use", "hook"}
Requests == [op : Ops, id : Ids \cup {None}, name : Names \cup {None}]
Runs == [mode : {"off", "none", "env", "dir"}, cfg : SUBSET Names, todo : SUBSET Names,
         gone : SUBSET Ids, looked : SUBSET Names, keep : SUBSET Names,
         alone : BOOLEAN, clean : BOOLEAN]

ControlTyped == pc \in [Clients -> PCs] /\ req \in [Clients -> Requests] /\ prov \in [Clients -> Runs]
StoresTyped ==
    /\ row \in [Ids -> Rows \cup {None}] /\ secret \subseteq Ids
    /\ drawn \in [Ids -> Names \cup {None}] /\ None \notin Rows
    /\ answered \subseteq Ids /\ lost \subseteq Ids /\ touched \subseteq Ids /\ shared \subseteq Ids
LifeTyped ==
    /\ thr \in [Ids \X Starters -> {"none", "running", "ended", "asked"}]
    /\ deferred \in {"pending", "done", "cancelled"} /\ life \in {"up", "stopping", "down"}
    /\ stop \in {"no", "asking", "over"} /\ before \subseteq Ids \X Starters /\ misplaced \subseteq Names
    /\ ops \in 0..MaxOps /\ faults \in 0..MaxFaults

\* Where a client is, and what it works on: the provider it drew or found, under
\* the name that was drawn with it.
Fits(c) ==
    /\ pc[c] \in {"idle", "provision"} => req[c] = NoReq
    /\ pc[c] \notin {"idle", "provision"} =>
         req[c].id \in Ids /\ req[c].name \in Names /\ drawn[req[c].id] = req[c].name
    /\ pc[c] = "idle" => prov[c].mode = "off"
    /\ pc[c] = "provision" => prov[c].mode # "off"

\* Whatever is stored was drawn, and keeps the name it was drawn with.
Drawn ==
    /\ \A u \in Ids : row[u] # None => row[u].name = drawn[u]
    /\ \A u \in secret \cup answered \cup touched : drawn[u] # None

Typed == ControlTyped /\ StoresTyped /\ LifeTyped /\ Drawn /\ \A c \in Clients : Fits(c)

-----------------------------------------------------------------------------
\* The steps that change no store and no request, and those that begin a request.
ProcessStep ==
    \/ StartConsumers \/ ShutdownBegins \/ StopConsumer \/ ShutdownEnds
    \/ \E c \in Clients : Instantiate(c)
DrawStep(c) == install_provider(c) \/ install_provider_oauth2(c) \/ healthcheck_provider(c)
UsesStep(c) ==
    \/ validate_provider_scopes(c) \/ invoke_provider_method(c) \/ get_alerts_configuration(c)
    \/ get_logs(c) \/ add_alert(c)

\* A request that reads the secret of a provider and calls it.
LEMMA UsesOne ==
    ASSUME NEW c \in Clients, UsesStep(c)
    PROVE  \E u \in Installed \cup answered : Uses(c, u)
BY DEF UsesStep, validate_provider_scopes, invoke_provider_method, get_alerts_configuration, get_logs, add_alert

\* A request that draws an id.
LEMMA DrawsOne ==
    ASSUME NEW c \in Clients, DrawStep(c)
    PROVE  /\ Request(c) /\ \E op \in {"install", "oauth2", "health"} : Draws(c, op)
           /\ UNCHANGED <<row, secret, asideVars, faults, answered, lost, touched>>
BY DEF DrawStep, install_provider, install_provider_oauth2, healthcheck_provider

\* The types of the threads, of the process and of the counters.
LEMMA LifeStep == LifeTyped /\ [Next]_vars => LifeTyped'
<1> SUFFICES ASSUME LifeTyped, [Next]_vars PROVE LifeTyped'
  OBVIOUS
<1>c. /\ Fault => faults' \in 0..MaxFaults
      /\ ops < MaxOps /\ ops' = ops + 1 => ops' \in 0..MaxOps
  BY ProvidersAssumption DEF Fault, LifeTyped
<1>1. ASSUME NEW c \in Clients, Routes(c) PROVE LifeTyped'
  <2>1. UNCHANGED <<asideVars, faults>> /\ ops < MaxOps /\ ops' = ops + 1
    BY <1>1, DrawsOne, UsesOne DEF Routes, DrawStep, UsesStep, delete_provider, update_provider,
       install_provider_webhook, Uses, Request, Begin
  <2> QED BY <1>c, <2>1 DEF LifeTyped, asideVars
<1>2. ASSUME NEW c \in Clients, Steps(c) PROVE LifeTyped'
  <2>1. /\ UNCHANGED <<deferred, life, stop, before, misplaced>>
        /\ UNCHANGED thr \/ thr' = [thr EXCEPT ![<<req[c].id, "install">>] = "running"]
    BY <1>2 DEF Steps, WriteSecret, DropTemporary, InsertRow, RemoveSecret, add_consumer, DropSecret, CleanUp,
       DeleteRow, WriteUpdate, CommitUpdate, UseProvider, Hook, provision_providers, ProvisionName,
       Deprovision, ProvisionEnds, asideVars
  <2>2. UNCHANGED faults \/ Fault
    BY <1>2 DEF Steps, WriteSecret, DropTemporary, InsertRow, RemoveSecret, add_consumer, DropSecret, CleanUp,
       DeleteRow, WriteUpdate, CommitUpdate, UseProvider, Hook, provision_providers, ProvisionName,
       Deprovision, ProvisionEnds
  <2>3. UNCHANGED ops \/ (ops < MaxOps /\ ops' = ops + 1)
    BY <1>2 DEF Steps, WriteSecret, DropTemporary, InsertRow, RemoveSecret, add_consumer, DropSecret, CleanUp,
       DeleteRow, WriteUpdate, CommitUpdate, UseProvider, Hook, provision_providers, ProvisionName,
       Deprovision, ProvisionEnds, Begin
  <2> QED BY <1>c, <2>1, <2>2, <2>3 DEF LifeTyped
<1>3. CASE StartConsumers
  <2>1. thr' \in [Ids \X Starters -> {"none", "running", "ended", "asked"}]
    BY <1>3 DEF StartConsumers, LifeTyped
  <2> QED BY <1>3, <2>1 DEF StartConsumers, LifeTyped
<1>4. CASE ShutdownBegins
  <2>1. before' \subseteq Ids \X Starters
    BY <1>4 DEF ShutdownBegins, Shutdown, Running
  <2> QED BY <1>4, <2>1 DEF ShutdownBegins, Shutdown, LifeTyped
<1>5. CASE StopConsumer \/ ShutdownEnds
  <2>1. thr' \in [Ids \X Starters -> {"none", "running", "ended", "asked"}]
    BY <1>5 DEF StopConsumer, ShutdownEnds, LifeTyped, Running
  <2>2. stop' \in {"no", "asking", "over"} /\ life' \in {"up", "stopping", "down"}
    BY <1>5 DEF StopConsumer, ShutdownEnds, LifeTyped
  <2> QED BY <1>5, <2>1, <2>2 DEF StopConsumer, ShutdownEnds, LifeTyped
<1>8. ASSUME NEW c \in Clients, Instantiate(c), req[c].name \in Refreshing PROVE LifeTyped'
  BY <1>8, ProvidersAssumption DEF Instantiate, LifeTyped
<1>6. CASE Crash
  <2>1. thr' \in [Ids \X Starters -> {"none", "running", "ended", "asked"}]
    BY <1>6 DEF Crash
  <2> QED BY <1>6, <1>c, <2>1 DEF Crash, LifeTyped
<1>7. CASE UNCHANGED vars
  BY <1>7 DEF vars, asideVars, historyVars, LifeTyped
<1> QED BY <1>1, <1>2, <1>3, <1>4, <1>5, <1>6, <1>7, <1>8 DEF Next, Instantiate

-----------------------------------------------------------------------------
\* Once the shutdown began nobody works and the deferred start will not come, and
\* stop() is asked of no process that is up.
Drained ==
    /\ life # "up" => (\A c \in Clients : pc[c] = "idle") /\ deferred # "pending"
    /\ life = "up" => stop = "no"

\* A client's step is taken while the process is up.
LEMMA StepsAreUp ==
    ASSUME Drained, NEW c \in Clients, Routes(c) \/ Steps(c)
    PROVE  life = "up" /\ UNCHANGED <<life, deferred, stop, before>>
<1>1. CASE Routes(c)
  <2>1. life = "up" /\ UNCHANGED asideVars
    BY <1>1, DrawsOne, UsesOne DEF Routes, DrawStep, UsesStep, delete_provider, update_provider,
       install_provider_webhook, Uses, Request, Begin
  <2> QED BY <2>1 DEF asideVars
<1>2. CASE Steps(c)
  <2>1. UNCHANGED <<life, deferred, stop, before>>
    BY <1>2 DEF Steps, WriteSecret, DropTemporary, InsertRow, RemoveSecret, add_consumer, DropSecret, CleanUp,
       DeleteRow, WriteUpdate, CommitUpdate, UseProvider, Hook, provision_providers, ProvisionName,
       Deprovision, ProvisionEnds, asideVars
  <2>2. pc[c] # "idle" \/ life = "up"
    BY <1>2 DEF Steps, WriteSecret, DropTemporary, InsertRow, RemoveSecret, add_consumer, DropSecret, CleanUp,
       DeleteRow, WriteUpdate, CommitUpdate, UseProvider, Hook, provision_providers, Begin, ProvisionName,
       Deprovision, ProvisionEnds, Provisioned
  <2> QED BY <2>1, <2>2 DEF Drained
<1> QED BY <1>1, <1>2

\* Every step keeps it: only the deferred start starts threads outside a request.
LEMMA DownStep ==
    LifeTyped /\ Drained /\ NoConsumerAfterShutdown /\ [Next]_vars =>
        Drained' /\ NoConsumerAfterShutdown'
<1> SUFFICES ASSUME LifeTyped, Drained, NoConsumerAfterShutdown, [Next]_vars
             PROVE  Drained' /\ NoConsumerAfterShutdown'
  OBVIOUS
<1>1. ASSUME NEW c \in Clients, Routes(c) \/ Steps(c) PROVE Drained' /\ NoConsumerAfterShutdown'
  <2>1. life' = "up" /\ stop' = "no"
    BY <1>1, StepsAreUp DEF Drained
  <2> QED BY <2>1 DEF Drained, NoConsumerAfterShutdown
<1>2. CASE StartConsumers
  <2>1. life = "up" /\ life' = "up" /\ stop' = "no"
    BY <1>2 DEF StartConsumers, Drained, LifeTyped
  <2> QED BY <2>1 DEF Drained, NoConsumerAfterShutdown
<1>3. CASE ShutdownBegins
  <2>1. Running' = before' /\ stop' = "asking" /\ life' = "stopping"
    BY <1>3 DEF ShutdownBegins, Shutdown, Running
  <2> QED BY <1>3, <2>1 DEF ShutdownBegins, Shutdown, Drained, NoConsumerAfterShutdown
<1>4. CASE StopConsumer
  <2>0. life # "up" /\ UNCHANGED <<life, before, pc, deferred>>
    BY <1>4 DEF StopConsumer, Drained, LifeTyped
  <2>1. Running' \subseteq Running /\ (stop' = "over" => Running' = {})
    BY <1>4 DEF StopConsumer, Running, LifeTyped
  <2> QED BY <2>0, <2>1 DEF Drained, NoConsumerAfterShutdown
<1>5. CASE ShutdownEnds
  <2>1. Running' = Running
    BY <1>5 DEF ShutdownEnds, Running
  <2> QED BY <1>5, <2>1 DEF ShutdownEnds, Drained, NoConsumerAfterShutdown
<1>6. CASE Crash
  <2>1. life' = "up" /\ stop' = "no"
    BY <1>6 DEF Crash
  <2> QED BY <2>1 DEF Drained, NoConsumerAfterShutdown
<1>7. ASSUME NEW c \in Clients, Instantiate(c) PROVE Drained' /\ NoConsumerAfterShutdown'
  <2>1. UNCHANGED <<life, stop, before, thr, pc, deferred>>
    BY <1>7 DEF Instantiate
  <2>2. Running' = Running
    BY <2>1 DEF Running
  <2> QED BY <2>1, <2>2 DEF Drained, NoConsumerAfterShutdown
<1>8. ASSUME UNCHANGED vars PROVE Drained' /\ NoConsumerAfterShutdown'
  <2>1. UNCHANGED <<life, stop, before, thr, pc, deferred>>
    BY <1>8 DEF vars, asideVars
  <2>2. Running' = Running
    BY <2>1 DEF Running
  <2> QED BY <2>1, <2>2 DEF Drained, NoConsumerAfterShutdown
<1> QED BY <1>1, <1>2, <1>3, <1>4, <1>5, <1>6, <1>7, <1>8 DEF Next

\* EventSubscriber.stop, asked for one consumer after the other, and the cancelled
\* deferred start: no consumer starts in a shutdown, and none that was not asked
\* runs when stop() is over (NoConsumerAfterShutdown).
THEOREM ShutdownTheorem == Spec => []NoConsumerAfterShutdown
<1>1. Init => LifeTyped /\ Drained /\ NoConsumerAfterShutdown
  <2> SUFFICES ASSUME Init PROVE LifeTyped /\ Drained /\ NoConsumerAfterShutdown
    OBVIOUS
  <2>1. LifeTyped
    BY ProvidersAssumption DEF Init, LifeTyped
  <2> QED BY <2>1 DEF Init, Drained, NoConsumerAfterShutdown
<1> QED BY LifeStep, DownStep, <1>1, PTL DEF Spec

-----------------------------------------------------------------------------
\* What a provisioning notes stays a run.
LEMMA RunUpdates ==
    /\ NotRunning \in Runs /\ NotRunning.mode = "off"
    /\ \A r \in Runs :
         /\ [r EXCEPT !.alone = FALSE] \in Runs /\ [r EXCEPT !.alone = FALSE].mode = r.mode
         /\ [r EXCEPT !.clean = FALSE] \in Runs /\ [r EXCEPT !.clean = FALSE].mode = r.mode
<1>1. NotRunning \in Runs /\ NotRunning.mode = "off"
  BY DEF NotRunning, Runs
<1>2. ASSUME NEW r \in Runs PROVE [r EXCEPT !.alone = FALSE] \in Runs /\ [r EXCEPT !.alone = FALSE].mode = r.mode
  BY DEF Runs
<1>3. ASSUME NEW r \in Runs PROVE [r EXCEPT !.clean = FALSE] \in Runs /\ [r EXCEPT !.clean = FALSE].mode = r.mode
  BY DEF Runs
<1> QED BY <1>1, <1>2, <1>3

\* One client moves; the others keep their place.
LEMMA MoveFits ==
    ASSUME Typed, NEW c \in Clients, NEW p \in PCs, NEW q \in Requests,
           pc' = [pc EXCEPT ![c] = p], req' = [req EXCEPT ![c] = q], prov' \in [Clients -> Runs],
           \A d \in Clients : d # c => prov'[d].mode = prov[d].mode,
           \A v \in Ids : drawn[v] # None => drawn'[v] = drawn[v],
           p \in {"idle", "provision"} => q = NoReq,
           p \notin {"idle", "provision"} => q.id \in Ids /\ q.name \in Names /\ drawn'[q.id] = q.name,
           p = "idle" => prov'[c].mode = "off",
           p = "provision" => prov'[c].mode # "off"
    PROVE  ControlTyped' /\ \A d \in Clients : Fits(d)'
<1>t. pc \in [Clients -> PCs] /\ req \in [Clients -> Requests] /\ prov \in [Clients -> Runs]
  BY DEF Typed, ControlTyped
<1>1. ControlTyped'
  <2>1. pc' \in [Clients -> PCs]
    BY <1>t
  <2>2. req' \in [Clients -> Requests]
    BY <1>t
  <2> QED BY <2>1, <2>2 DEF ControlTyped, PCs, Requests, Ops, Runs
<1>2. ASSUME NEW d \in Clients PROVE Fits(d)'
  <2>1. CASE d = c
    BY <1>t, <2>1 DEF Fits, NoReq
  <2>2. CASE d # c
    <3>1. pc'[d] = pc[d] /\ req'[d] = req[d] /\ prov'[d].mode = prov[d].mode /\ Fits(d)
      BY <1>t, <2>2 DEF Typed
    <3>2. req[d].name \in Names => req[d].name # None
      BY ProvidersAssumption
    <3> QED BY <3>1, <3>2 DEF Fits, NoReq
  <2> QED BY <2>1, <2>2
<1> QED BY <1>1, <1>2

\* To: the same request goes on.
LEMMA ToFits ==
    ASSUME Typed, NEW c \in Clients, NEW p \in PCs, To(c, p), UNCHANGED drawn,
           pc[c] \notin {"idle", "provision"}, p \notin {"idle", "provision"}
    PROVE  ControlTyped' /\ \A d \in Clients : Fits(d)'
<1>t. req \in [Clients -> Requests] /\ prov \in [Clients -> Runs] /\ Fits(c)
  BY DEF Typed, ControlTyped
<1>1. /\ pc' = [pc EXCEPT ![c] = p] /\ req' = [req EXCEPT ![c] = req[c]] /\ prov' = prov
      /\ req[c] \in Requests
  BY <1>t DEF To
<1>2. req[c].id \in Ids /\ req[c].name \in Names /\ drawn'[req[c].id] = req[c].name
  BY <1>t DEF Fits
<1> QED BY <1>t, <1>1, <1>2, MoveFits

\* Done and Raise: the client is free again, or goes on provisioning.
LEMMA EndFits ==
    ASSUME Typed, NEW c \in Clients, Done(c) \/ Raise(c), UNCHANGED drawn, pc[c] \notin {"idle", "provision"}
    PROVE  ControlTyped' /\ \A d \in Clients : Fits(d)'
<1>t. req \in [Clients -> Requests] /\ prov \in [Clients -> Runs] /\ Fits(c) /\ prov[c] \in Runs
  BY DEF Typed, ControlTyped
<1>0. NoReq \in Requests /\ req[c].name \in Names
  BY <1>t DEF NoReq, Requests, Ops, Fits
<1>p. "idle" \in PCs /\ "provision" \in PCs
  BY DEF PCs
<1>1. CASE Done(c)
  <2> DEFINE keep == IF req[c].op = "install" /\ Provisioning(c) THEN prov[c].keep \cup {req[c].name}
                     ELSE prov[c].keep
             q == [prov[c] EXCEPT !.keep = keep]
             p == IF Provisioning(c) THEN "provision" ELSE "idle"
  <2>1. prov' = [prov EXCEPT ![c] = q]
    BY <1>1, <1>t DEF Done
  <2>2. q \in Runs /\ q.mode = prov[c].mode
    <3>1. keep \in SUBSET Names
      BY <1>t, <1>0 DEF Runs
    <3> QED BY <1>t, <3>1 DEF Runs
  <2>3. pc' = [pc EXCEPT ![c] = p] /\ req' = [req EXCEPT ![c] = NoReq] /\ p \in PCs
    BY <1>1, <1>p DEF Done
  <2>4. (p = "idle" => prov[c].mode = "off") /\ (p = "provision" => prov[c].mode # "off")
        /\ p \in {"idle", "provision"}
    BY DEF Provisioning
  <2> HIDE DEF q, p
  <2>5. prov' \in [Clients -> Runs] /\ prov'[c].mode = prov[c].mode
        /\ \A d \in Clients : d # c => prov'[d].mode = prov[d].mode
    BY <1>t, <2>1, <2>2
  <2> QED BY <1>0, <2>3, <2>4, <2>5, MoveFits
<1>2. CASE Raise(c)
  <2>1. CASE Provisioning(c) /\ Caught(c)
    <3> DEFINE q == [prov[c] EXCEPT !.clean = FALSE]
    <3>1. /\ prov' = [prov EXCEPT ![c] = q] /\ pc' = [pc EXCEPT ![c] = "provision"]
          /\ req' = [req EXCEPT ![c] = NoReq]
      BY <1>2, <1>t, <2>1 DEF Raise
    <3>2. q \in Runs /\ q.mode # "off"
      BY <1>t, <2>1, RunUpdates DEF Provisioning
    <3> HIDE DEF q
    <3>3. prov' \in [Clients -> Runs] /\ prov'[c].mode # "off"
          /\ \A d \in Clients : d # c => prov'[d].mode = prov[d].mode
      BY <1>t, <3>1, <3>2
    <3> QED BY <1>0, <1>p, <3>1, <3>3, MoveFits
  <2>2. CASE ~(Provisioning(c) /\ Caught(c))
    <3>1. /\ prov' = [prov EXCEPT ![c] = NotRunning] /\ pc' = [pc EXCEPT ![c] = "idle"]
          /\ req' = [req EXCEPT ![c] = NoReq]
      BY <1>2, <2>2 DEF Raise
    <3>2. prov' \in [Clients -> Runs] /\ prov'[c].mode = "off"
          /\ \A d \in Clients : d # c => prov'[d].mode = prov[d].mode
      BY <1>t, <3>1, RunUpdates
    <3> QED BY <1>0, <1>p, <3>1, <3>2, MoveFits
  <2> QED BY <2>1, <2>2
<1> QED BY <1>1, <1>2

\* Enter: the client works on a provider that has a name.
LEMMA EnterFits ==
    ASSUME Typed, NEW c \in Clients, NEW p \in PCs, NEW op \in Ops, NEW u \in Ids, NEW n \in Names,
           Enter(c, p, op, u, n), p \notin {"idle", "provision"},
           \A v \in Ids : drawn[v] # None => drawn'[v] = drawn[v], drawn'[u] = n,
           prov' \in [Clients -> Runs], \A d \in Clients : d # c => prov'[d].mode = prov[d].mode
    PROVE  ControlTyped' /\ \A d \in Clients : Fits(d)'
<1> DEFINE q == [op |-> op, id |-> u, name |-> n]
<1>1. pc' = [pc EXCEPT ![c] = p] /\ req' = [req EXCEPT ![c] = q]
  BY DEF Enter
<1>2. q \in Requests /\ q.id \in Ids /\ q.name \in Names /\ drawn'[q.id] = q.name
  BY DEF Requests
<1> HIDE DEF q
<1> QED BY <1>1, <1>2, MoveFits

\* Request: the provisionings that run no longer run alone.
LEMMA RequestRuns ==
    ASSUME Typed, NEW c \in Clients, Request(c)
    PROVE  prov' \in [Clients -> Runs] /\ \A d \in Clients : prov'[d].mode = prov[d].mode
BY RunUpdates DEF Request, Typed, ControlTyped
-----------------------------------------------------------------------------
\* How a client begins to work on a provider: it draws a new one, or finds one
\* that is installed or was answered.
DrawsNew(c, v, n) ==
    /\ \E op \in {"install", "oauth2", "health"} : Enter(c, "write", op, v, n)
    /\ drawn[v] = None /\ drawn' = [drawn EXCEPT ![v] = n] /\ UNCHANGED touched
Deletes(c, v, n) ==
    /\ Enter(c, "dropSecret", "delete", v, n)
    /\ v \in secret /\ row[v] # None /\ n = row[v].name
    /\ touched' = touched \cup {v} /\ UNCHANGED drawn
Updates(c, v, n) ==
    /\ Enter(c, "writeUpdate", "update", v, n)
    /\ row[v] # None /\ n = row[v].name /\ UNCHANGED <<drawn, touched>>
Calls(c, v, n) ==
    /\ \E p \in {"use", "hook"} : Enter(c, p, p, v, n)
    /\ v \in secret /\ (row[v] # None \/ v \in answered) /\ n = drawn[v] /\ UNCHANGED <<drawn, touched>>
Begins(c) ==
    /\ pc[c] \in {"idle", "provision"} /\ UNCHANGED <<row, secret, faults, answered, lost>>
    /\ \E v \in Ids, n \in Names : DrawsNew(c, v, n) \/ Deletes(c, v, n) \/ Updates(c, v, n) \/ Calls(c, v, n)

\* A provisioning's own bookkeeping: no store and no request changes.
Keeps(c) ==
    /\ pc[c] \in {"idle", "provision"}
    /\ \E p \in {"idle", "provision"} : pc' = [pc EXCEPT ![c] = p]
    /\ UNCHANGED <<row, secret, drawn, req, answered, lost, touched, shared>>
    /\ UNCHANGED faults \/ Fault

\* One step of the operation a client is in.
Moves(c) ==
    \/ WriteSecret(c) \/ DropTemporary(c) \/ InsertRow(c) \/ RemoveSecret(c) \/ add_consumer(c)
    \/ DropSecret(c) \/ CleanUp(c) \/ DeleteRow(c)
    \/ WriteUpdate(c) \/ CommitUpdate(c) \/ UseProvider(c) \/ Hook(c)

\* What is installed or was answered has the name it was drawn for.
LEMMA Named ==
    ASSUME Typed, NEW v \in Ids
    PROVE  /\ row[v] # None => row[v].name \in Names /\ row[v].name = drawn[v] /\ row[v] \in Rows
           /\ v \in secret \cup answered \cup touched => drawn[v] \in Names
<1>1. row[v] # None => row[v] \in Rows /\ row[v].name = drawn[v]
  BY DEF Typed, StoresTyped, Drawn
<1>2. drawn[v] \in Names \/ drawn[v] = None
  BY DEF Typed, StoresTyped
<1>3. row[v] # None => row[v].name \in Names
  BY <1>1 DEF Rows
<1> QED BY <1>1, <1>2, <1>3 DEF Typed, Drawn

\* Every route begins a request.
LEMMA RouteBegins ==
    ASSUME Typed, NEW c \in Clients, Routes(c)
    PROVE  Begins(c) /\ Request(c)
<1>1. CASE DrawStep(c)
  <2>1. PICK op \in {"install", "oauth2", "health"} : Draws(c, op)
    BY <1>1, DrawsOne
  <2>2. PICK n \in Names, v \in {w \in Ids : drawn[w] = None} :
            drawn' = [drawn EXCEPT ![v] = n] /\ Enter(c, "write", op, v, n)
    BY <2>1 DEF Draws
  <2>3. Request(c) /\ UNCHANGED <<row, secret, asideVars, faults, answered, lost, touched>>
    BY <1>1, DrawsOne
  <2> QED BY <2>2, <2>3 DEF Begins, DrawsNew, Request, Begin
<1>2. CASE UsesStep(c)
  <2>1. PICK v \in Installed \cup answered : Uses(c, v)
    BY <1>2, UsesOne
  <2>2. v \in Ids /\ (row[v] # None \/ v \in answered) /\ drawn[v] \in Names
    BY <2>1, Named DEF Installed, Typed, StoresTyped, Uses, read_secret
  <2> QED BY <2>1, <2>2 DEF Uses, read_secret, Begins, Calls, Request, Begin
<1>3. CASE delete_provider(c)
  <2>1. PICK v \in Installed : Delete(c, v)
    BY <1>3 DEF delete_provider
  <2>2. v \in Ids /\ row[v] # None /\ row[v].name \in Names
    BY <2>1, Named DEF Installed
  <2> QED BY <1>3, <2>1, <2>2 DEF delete_provider, Delete, read_secret, Begins, Deletes, Request, Begin
<1>4. CASE update_provider(c)
  <2>1. PICK v \in Installed : Enter(c, "writeUpdate", "update", v, row[v].name)
    BY <1>4 DEF update_provider
  <2>2. v \in Ids /\ row[v] # None /\ row[v].name \in Names
    BY <2>1, Named DEF Installed
  <2> QED BY <1>4, <2>1, <2>2 DEF update_provider, Begins, Updates, Request, Begin
<1>5. CASE install_provider_webhook(c)
  <2>1. PICK v \in Installed \cup answered : read_secret(v) /\ Enter(c, "hook", "hook", v, drawn[v])
    BY <1>5 DEF install_provider_webhook
  <2>2. v \in Ids /\ (row[v] # None \/ v \in answered) /\ drawn[v] \in Names
    BY <2>1, Named DEF Installed, Typed, StoresTyped, read_secret
  <2> QED BY <1>5, <2>1, <2>2 DEF install_provider_webhook, read_secret, Begins, Calls, Request, Begin
<1> QED BY <1>1, <1>2, <1>3, <1>4, <1>5 DEF Routes, DrawStep, UsesStep

\* Every step of a provisioning begins an operation or keeps books.
LEMMA ProvisioningBegins ==
    ASSUME Typed, NEW c \in Clients,
           provision_providers(c) \/ ProvisionName(c) \/ Deprovision(c) \/ ProvisionEnds(c)
    PROVE  Begins(c) \/ Keeps(c)
<1>t. pc \in [Clients -> PCs]
  BY DEF Typed, ControlTyped
<1>1. CASE provision_providers(c)
  BY <1>1 DEF provision_providers, Begin, Keeps, historyVars
<1>2. CASE ProvisionEnds(c)
  BY <1>2 DEF ProvisionEnds, Provisioned, Keeps, historyVars
<1>3. CASE ProvisionName(c)
  <2>0. /\ pc[c] = "provision" /\ UNCHANGED <<row, secret, answered, lost, touched>>
        /\ prov[c].todo \subseteq Names
    BY <1>3 DEF ProvisionName, Typed, ControlTyped, Runs
  <2>1. PICK n \in prov[c].todo :
          \/ /\ UNCHANGED <<drawn, faults>>
             /\ \E u \in get_provider_by_name(n) : Enter(c, "writeUpdate", "update", u, n)
          \/ /\ UNCHANGED faults
             /\ \E u \in {v \in Ids : drawn[v] = None} :
                   drawn' = [drawn EXCEPT ![u] = n] /\ Enter(c, "write", "install", u, n)
          \/ Fault /\ UNCHANGED <<pc, req, drawn, shared>>
          \/ Fault /\ pc' = [pc EXCEPT ![c] = "idle"] /\ UNCHANGED <<req, drawn, shared>>
    BY <1>3 DEF ProvisionName
  <2>2. ASSUME UNCHANGED <<drawn, faults>>, NEW u \in get_provider_by_name(n), Enter(c, "writeUpdate", "update", u, n)
        PROVE  Begins(c)
    <3>1. u \in Ids /\ row[u] # None /\ row[u].name = n
      BY <2>2 DEF get_provider_by_name, Installed
    <3> QED BY <2>0, <2>2, <3>1 DEF Begins, Updates
  <2>3. ASSUME UNCHANGED faults, NEW u \in Ids, drawn[u] = None,
               drawn' = [drawn EXCEPT ![u] = n], Enter(c, "write", "install", u, n)
        PROVE  Begins(c)
    BY <2>0, <2>3 DEF Begins, DrawsNew
  <2>4. ASSUME Fault, UNCHANGED <<pc, req, drawn, shared>> PROVE Keeps(c)
    <3>1. pc' = [pc EXCEPT ![c] = "provision"]
      BY <1>t, <2>0, <2>4
    <3> QED BY <2>0, <2>4, <3>1 DEF Keeps
  <2>5. ASSUME Fault, pc' = [pc EXCEPT ![c] = "idle"], UNCHANGED <<req, drawn, shared>> PROVE Keeps(c)
    BY <2>0, <2>5 DEF Keeps
  <2> QED BY <2>1, <2>2, <2>3, <2>4, <2>5
<1>4. CASE Deprovision(c)
  <2>0. /\ pc[c] = "provision" /\ UNCHANGED <<row, secret, drawn, answered, lost>>
        /\ prov[c].gone \subseteq Ids
    BY <1>4 DEF Deprovision, Typed, ControlTyped, Runs
  <2>1. PICK u \in prov[c].gone :
          \/ Delete(c, u) /\ UNCHANGED faults
          \/ /\ UNCHANGED <<req, shared, touched>> /\ (UNCHANGED pc \/ pc' = [pc EXCEPT ![c] = "idle"])
             /\ UNCHANGED faults \/ Fault
    BY <1>4 DEF Deprovision
  <2>2. CASE Delete(c, u) /\ UNCHANGED faults
    <3>1. row[u] # None /\ row[u].name \in Names
      BY <2>0, <2>2, Named DEF Delete
    <3> QED BY <2>0, <2>2, <3>1 DEF Begins, Deletes, Delete, read_secret
  <2>3. CASE /\ UNCHANGED <<req, shared, touched>> /\ (UNCHANGED pc \/ pc' = [pc EXCEPT ![c] = "idle"])
             /\ UNCHANGED faults \/ Fault
    <3>1. pc' = [pc EXCEPT ![c] = "provision"] \/ pc' = [pc EXCEPT ![c] = "idle"]
      BY <1>t, <2>0, <2>3
    <3> QED BY <2>0, <2>3, <3>1 DEF Keeps
  <2> QED BY <2>1, <2>2, <2>3
<1> QED BY <1>1, <1>2, <1>3, <1>4
-----------------------------------------------------------------------------
\* How the step of an operation leaves its client.
LEMMA MoveEnds ==
    ASSUME NEW c \in Clients, Moves(c)
    PROVE  /\ pc[c] \notin {"idle", "provision"} /\ UNCHANGED <<drawn, touched, shared>>
           /\ \/ \E p \in PCs \ {"idle", "provision"} : To(c, p)
              \/ Done(c) \/ Raise(c)
<1>1. pc[c] \notin {"idle", "provision"} /\ UNCHANGED <<drawn, touched, shared>>
  BY DEF Moves, WriteSecret, DropTemporary, InsertRow, RemoveSecret, add_consumer, DropSecret, CleanUp,
     DeleteRow, WriteUpdate, CommitUpdate, UseProvider, Hook, historyVars
<1>2. (\E p \in PCs : To(c, p) /\ p \notin {"idle", "provision"}) \/ Done(c) \/ Raise(c)
  <2>1. CASE WriteSecret(c)
    <3>1. "tempDrop" \in PCs /\ "insert" \in PCs
      BY DEF PCs
    <3> QED BY <2>1, <3>1 DEF WriteSecret
  <2>2. CASE InsertRow(c)
    <3>1. "hook" \in PCs /\ "consume" \in PCs /\ "cleanup" \in PCs
      BY DEF PCs
    <3>2. To(c, "consume") \/ Succeeds(c) \/ To(c, "cleanup") \/ Raise(c)
      BY <2>2 DEF InsertRow
    <3> QED BY <3>1, <3>2 DEF Succeeds
  <2>3. CASE add_consumer(c)
    <3>1. "hook" \in PCs
      BY DEF PCs
    <3> QED BY <2>3, <3>1 DEF add_consumer, Succeeds
  <2>4. CASE DropSecret(c) \/ CleanUp(c) \/ WriteUpdate(c)
    <3>1. "cleanUp" \in PCs /\ "deleteRow" \in PCs /\ "commitUpdate" \in PCs
      BY DEF PCs
    <3> QED BY <2>4, <3>1 DEF DropSecret, CleanUp, WriteUpdate
  <2>5. CASE DropTemporary(c) \/ RemoveSecret(c) \/ DeleteRow(c) \/ CommitUpdate(c) \/ UseProvider(c) \/ Hook(c)
    BY <2>5 DEF DropTemporary, RemoveSecret, DeleteRow, CommitUpdate, UseProvider, Hook
  <2> QED BY <2>1, <2>2, <2>3, <2>4, <2>5 DEF Moves
<1> QED BY <1>1, <1>2

\* A step of a client is one of three kinds.
LEMMA StepKinds ==
    ASSUME Typed, NEW c \in Clients, Routes(c) \/ Steps(c)
    PROVE  Begins(c) \/ Keeps(c) \/ Moves(c)
BY RouteBegins, ProvisioningBegins DEF Steps, Moves

\* One name of the configuration.
SameRun(r, q) == r.mode = q.mode /\ r.cfg = q.cfg /\ r.alone = q.alone
NameStep(c, n, r) ==
    /\ r \in Runs /\ prov' = [prov EXCEPT ![c] = r]
    /\ SameRun(r, prov[c]) /\ r.todo = prov[c].todo \ {n} /\ r.gone = prov[c].gone
    /\ \/ /\ r.looked = prov[c].looked \cup {n} /\ r.keep = prov[c].keep \cup {n} /\ r.clean = prov[c].clean
          /\ \E u \in get_provider_by_name(n) : Enter(c, "writeUpdate", "update", u, n)
       \/ /\ r.looked = prov[c].looked \cup {n} /\ r.keep = prov[c].keep /\ r.clean = prov[c].clean
          /\ get_provider_by_name(n) = {} /\ \E u \in Ids : Enter(c, "write", "install", u, n)
       \/ /\ r.looked = prov[c].looked /\ r.keep = prov[c].keep /\ r.clean = FALSE
          /\ UNCHANGED <<pc, req>>
GivesUp(c) ==
    /\ prov' = [prov EXCEPT ![c] = NotRunning] /\ pc' = [pc EXCEPT ![c] = "idle"]
    /\ UNCHANGED <<row, secret, drawn, req, answered, lost, touched, shared>>

\* Provisioning one name of the configuration is a NameStep, or gives up.
LEMMA NameSteps ==
    ASSUME prov \in [Clients -> Runs], NEW c \in Clients, ProvisionName(c)
    PROVE  (\E n \in prov[c].todo, r \in Runs : NameStep(c, n, r)) \/ GivesUp(c)
<1>t. prov[c] \in Runs
  OBVIOUS
<1>0. PICK n \in prov[c].todo :
        \/ \E u \in get_provider_by_name(n) :
              /\ Enter(c, "writeUpdate", "update", u, n)
              /\ prov' = [prov EXCEPT ![c] = Noted(@, n)]
        \/ /\ get_provider_by_name(n) = {}
           /\ \E u \in Ids : Enter(c, "write", "install", u, n)
           /\ prov' = [prov EXCEPT ![c].todo = @ \ {n}, ![c].looked = @ \cup {n}]
        \/ /\ prov' = [prov EXCEPT ![c].todo = @ \ {n}, ![c].clean = FALSE]
           /\ UNCHANGED <<pc, req>>
        \/ GivesUp(c)
  BY DEF ProvisionName, GivesUp
<1>n. n \in Names /\ prov[c].todo \subseteq Names /\ prov[c].looked \subseteq Names /\ prov[c].keep \subseteq Names
  BY <1>t DEF Runs
<1>1. ASSUME NEW u \in get_provider_by_name(n), Enter(c, "writeUpdate", "update", u, n),
             prov' = [prov EXCEPT ![c] = Noted(@, n)]
      PROVE  \E r \in Runs : NameStep(c, n, r)
  <2> DEFINE r == [prov[c] EXCEPT !.todo = @ \ {n}, !.looked = @ \cup {n}, !.keep = @ \cup {n}]
  <2>1. prov' = [prov EXCEPT ![c] = r]
    BY <1>1, <1>t DEF Noted
  <2>2. /\ r \in Runs /\ SameRun(r, prov[c]) /\ r.todo = prov[c].todo \ {n} /\ r.gone = prov[c].gone
        /\ r.looked = prov[c].looked \cup {n} /\ r.keep = prov[c].keep \cup {n} /\ r.clean = prov[c].clean
    BY <1>t, <1>n DEF Runs, SameRun
  <2> HIDE DEF r
  <2> QED BY <1>1, <2>1, <2>2 DEF NameStep
<1>2. ASSUME get_provider_by_name(n) = {}, NEW u \in Ids, Enter(c, "write", "install", u, n),
             prov' = [prov EXCEPT ![c].todo = @ \ {n}, ![c].looked = @ \cup {n}]
      PROVE  \E r \in Runs : NameStep(c, n, r)
  <2> DEFINE r == [prov[c] EXCEPT !.todo = @ \ {n}, !.looked = @ \cup {n}]
  <2>1. prov' = [prov EXCEPT ![c] = r]
    BY <1>2, <1>t
  <2>2. /\ r \in Runs /\ SameRun(r, prov[c]) /\ r.todo = prov[c].todo \ {n} /\ r.gone = prov[c].gone
        /\ r.looked = prov[c].looked \cup {n} /\ r.keep = prov[c].keep /\ r.clean = prov[c].clean
    BY <1>t, <1>n DEF Runs, SameRun
  <2> HIDE DEF r
  <2> QED BY <1>2, <2>1, <2>2 DEF NameStep
<1>3. ASSUME prov' = [prov EXCEPT ![c].todo = @ \ {n}, ![c].clean = FALSE], UNCHANGED <<pc, req>>
      PROVE  \E r \in Runs : NameStep(c, n, r)
  <2> DEFINE r == [prov[c] EXCEPT !.todo = @ \ {n}, !.clean = FALSE]
  <2>1. prov' = [prov EXCEPT ![c] = r]
    BY <1>3, <1>t
  <2>2. /\ r \in Runs /\ SameRun(r, prov[c]) /\ r.todo = prov[c].todo \ {n} /\ r.gone = prov[c].gone
        /\ r.looked = prov[c].looked /\ r.keep = prov[c].keep /\ r.clean = FALSE
    BY <1>t, <1>n DEF Runs, SameRun
  <2> HIDE DEF r
  <2> QED BY <1>3, <2>1, <2>2 DEF NameStep
<1> QED BY <1>0, <1>1, <1>2, <1>3

\* One provider of the snapshot, or the end of the provisioning because of it.
GoneStep(c, u, r) ==
    /\ r \in Runs /\ prov' = [prov EXCEPT ![c] = r]
    /\ SameRun(r, prov[c]) /\ r.todo = prov[c].todo /\ r.gone = prov[c].gone \ {u}
    /\ r.looked = prov[c].looked /\ r.keep = prov[c].keep
    /\ \/ /\ prov[c].mode = "dir" /\ drawn[u] \in prov[c].keep /\ r.clean = prov[c].clean
          /\ UNCHANGED <<pc, req, touched>>
       \/ /\ prov[c].mode = "dir" => drawn[u] \notin prov[c].keep
          /\ Delete(c, u) /\ r.clean = prov[c].clean
       \/ r.clean = FALSE /\ UNCHANGED <<pc, req, touched>>

\* Deprovisioning takes one provider off the snapshot, or gives up.
LEMMA GoneSteps ==
    ASSUME prov \in [Clients -> Runs], NEW c \in Clients, Deprovision(c)
    PROVE  (\E u \in prov[c].gone, r \in Runs : GoneStep(c, u, r)) \/ GivesUp(c)
<1>t. prov[c] \in Runs
  OBVIOUS
<1>0. PICK u \in prov[c].gone :
        \/ /\ prov[c].mode = "dir" /\ drawn[u] \in prov[c].keep
           /\ prov' = [prov EXCEPT ![c].gone = @ \ {u}] /\ UNCHANGED <<pc, req, touched>>
        \/ /\ prov[c].mode = "dir" => drawn[u] \notin prov[c].keep
           /\ Delete(c, u) /\ prov' = [prov EXCEPT ![c].gone = @ \ {u}]
        \/ prov' = [prov EXCEPT ![c].gone = @ \ {u}, ![c].clean = FALSE] /\ UNCHANGED <<pc, req, touched>>
        \/ /\ prov' = [prov EXCEPT ![c] = NotRunning] /\ pc' = [pc EXCEPT ![c] = "idle"]
           /\ UNCHANGED <<req, touched, shared>>
  BY DEF Deprovision
<1>n. prov[c].gone \subseteq Ids
  BY <1>t DEF Runs
<1>1. ASSUME prov' = [prov EXCEPT ![c].gone = @ \ {u}],
             \/ /\ prov[c].mode = "dir" /\ drawn[u] \in prov[c].keep /\ UNCHANGED <<pc, req, touched>>
             \/ (prov[c].mode = "dir" => drawn[u] \notin prov[c].keep) /\ Delete(c, u)
      PROVE  \E r \in Runs : GoneStep(c, u, r)
  <2> DEFINE r == [prov[c] EXCEPT !.gone = @ \ {u}]
  <2>1. prov' = [prov EXCEPT ![c] = r]
    BY <1>1, <1>t
  <2>2. /\ r \in Runs /\ SameRun(r, prov[c]) /\ r.todo = prov[c].todo /\ r.gone = prov[c].gone \ {u}
        /\ r.looked = prov[c].looked /\ r.keep = prov[c].keep /\ r.clean = prov[c].clean
    BY <1>t, <1>n DEF Runs, SameRun
  <2> HIDE DEF r
  <2> QED BY <1>1, <2>1, <2>2 DEF GoneStep
<1>2. ASSUME prov' = [prov EXCEPT ![c].gone = @ \ {u}, ![c].clean = FALSE], UNCHANGED <<pc, req, touched>>
      PROVE  \E r \in Runs : GoneStep(c, u, r)
  <2> DEFINE r == [prov[c] EXCEPT !.gone = @ \ {u}, !.clean = FALSE]
  <2>1. prov' = [prov EXCEPT ![c] = r]
    BY <1>2, <1>t
  <2>2. /\ r \in Runs /\ SameRun(r, prov[c]) /\ r.todo = prov[c].todo /\ r.gone = prov[c].gone \ {u}
        /\ r.looked = prov[c].looked /\ r.keep = prov[c].keep /\ r.clean = FALSE
    BY <1>t, <1>n DEF Runs, SameRun
  <2> HIDE DEF r
  <2> QED BY <1>2, <2>1, <2>2 DEF GoneStep
<1>3. ASSUME prov' = [prov EXCEPT ![c] = NotRunning], pc' = [pc EXCEPT ![c] = "idle"], UNCHANGED <<req, touched, shared>>
      PROVE  GivesUp(c)
  BY <1>3 DEF GivesUp, Deprovision
<1> QED BY <1>0, <1>1, <1>2, <1>3

\* What a provisioning's step does to the provisionings.
LEMMA ProvisioningRuns ==
    ASSUME Typed, NEW c \in Clients,
           provision_providers(c) \/ ProvisionName(c) \/ Deprovision(c) \/ ProvisionEnds(c)
    PROVE  /\ prov' \in [Clients -> Runs]
           /\ \A d \in Clients : d # c => prov'[d].mode = prov[d].mode
           /\ pc'[c] = "idle" => prov'[c].mode = "off"
           /\ pc'[c] # "idle" => prov'[c].mode # "off"
<1>t. pc \in [Clients -> PCs] /\ prov \in [Clients -> Runs] /\ prov[c] \in Runs /\ req \in [Clients -> Requests]
  BY DEF Typed, ControlTyped
<1>f. pc[c] = "provision" => prov[c].mode # "off"
  BY DEF Typed, Fits
<1>1. CASE provision_providers(c)
  <2>1. PICK m \in {"none", "env", "dir"}, cfg \in SUBSET Names, a \in BOOLEAN, g \in SUBSET Ids :
          prov' = [d \in Clients |->
                IF d # c THEN [prov[d] EXCEPT !.alone = FALSE]
                ELSE [mode |-> m, cfg |-> cfg, todo |-> cfg, looked |-> {}, keep |-> {}, clean |-> TRUE,
                      alone |-> a, gone |-> g]]
    <3>1. PICK m \in {"none", "env", "dir"}, cfg \in SUBSET Names :
            prov' = [d \in Clients |->
                IF d # c THEN [prov[d] EXCEPT !.alone = FALSE]
                ELSE [mode |-> m, cfg |-> cfg, todo |-> cfg, looked |-> {}, keep |-> {}, clean |-> TRUE,
                      alone |-> \A o \in Clients \ {c} : pc[o] = "idle",
                      gone |-> IF m = "dir" THEN get_all_provisioned_providers
                               ELSE {u \in get_all_provisioned_providers : row[u].name \notin cfg}]]
      BY <1>1 DEF provision_providers
    <3> DEFINE a == \A o \in Clients \ {c} : pc[o] = "idle"
               g == IF m = "dir" THEN get_all_provisioned_providers
                    ELSE {u \in get_all_provisioned_providers : row[u].name \notin cfg}
    <3>2. a \in BOOLEAN
      OBVIOUS
    <3>3. g \in SUBSET Ids
      BY DEF get_all_provisioned_providers, Installed
    <3>4. prov' = [d \in Clients |->
                IF d # c THEN [prov[d] EXCEPT !.alone = FALSE]
                ELSE [mode |-> m, cfg |-> cfg, todo |-> cfg, looked |-> {}, keep |-> {}, clean |-> TRUE,
                      alone |-> a, gone |-> g]]
      BY <3>1
    <3> HIDE DEF a, g
    <3> QED BY <3>2, <3>3, <3>4
  <2> DEFINE r == [mode |-> m, cfg |-> cfg, todo |-> cfg, looked |-> {}, keep |-> {}, clean |-> TRUE,
                   alone |-> a, gone |-> g]
  <2>2. r \in Runs /\ r.mode # "off"
    BY DEF Runs
  <2>3. prov'[c] = r /\ \A d \in Clients \ {c} : prov'[d] = [prov[d] EXCEPT !.alone = FALSE]
    BY <2>1
  <2>4. prov' = [d \in Clients |-> prov'[d]]
    BY <2>1
  <2> HIDE DEF r
  <2>5. ASSUME NEW d \in Clients PROVE prov'[d] \in Runs /\ (d # c => prov'[d].mode = prov[d].mode)
    <3>1. CASE d = c
      BY <2>2, <2>3, <3>1
    <3>2. CASE d # c
      <4>1. prov'[d] = [prov[d] EXCEPT !.alone = FALSE] /\ prov[d] \in Runs
        BY <1>t, <2>3, <3>2
      <4> QED BY <4>1, RunUpdates
    <3> QED BY <3>1, <3>2
  <2>6. pc'[c] = "provision"
    BY <1>1, <1>t DEF provision_providers
  <2> QED BY <2>2, <2>3, <2>4, <2>5, <2>6
<1>2. CASE ProvisionName(c)
  <2>0. pc[c] = "provision" /\ prov[c].mode # "off"
    BY <1>2, <1>f DEF ProvisionName
  <2>1. ASSUME NEW n \in prov[c].todo, NEW r \in Runs, NameStep(c, n, r)
        PROVE  prov' = [prov EXCEPT ![c] = r] /\ r.mode # "off" /\ pc'[c] # "idle"
    BY <1>t, <2>0, <2>1 DEF NameStep, SameRun, Enter
  <2>2. ASSUME GivesUp(c) PROVE prov' = [prov EXCEPT ![c] = NotRunning] /\ pc'[c] = "idle"
    BY <1>t, <2>2 DEF GivesUp
  <2> QED BY <1>2, <1>t, <2>1, <2>2, NameSteps, RunUpdates
<1>3. CASE Deprovision(c)
  <2>0. pc[c] = "provision" /\ prov[c].mode # "off"
    BY <1>3, <1>f DEF Deprovision
  <2>1. ASSUME NEW u \in prov[c].gone, NEW r \in Runs, GoneStep(c, u, r)
        PROVE  prov' = [prov EXCEPT ![c] = r] /\ r.mode # "off" /\ pc'[c] # "idle"
    BY <1>t, <2>0, <2>1 DEF GoneStep, SameRun, Delete, Enter
  <2>2. ASSUME GivesUp(c) PROVE prov' = [prov EXCEPT ![c] = NotRunning] /\ pc'[c] = "idle"
    BY <1>t, <2>2 DEF GivesUp
  <2> QED BY <1>3, <1>t, <2>1, <2>2, GoneSteps, RunUpdates
<1>4. CASE ProvisionEnds(c)
  BY <1>4, <1>t, RunUpdates DEF ProvisionEnds
<1> QED BY <1>1, <1>2, <1>3, <1>4
-----------------------------------------------------------------------------
\* Every step of a client keeps the types of the control variables.
LEMMA ControlStep ==
    ASSUME Typed, NEW c \in Clients, Routes(c) \/ Steps(c)
    PROVE  ControlTyped' /\ \A d \in Clients : Fits(d)'
<1>t. /\ pc \in [Clients -> PCs] /\ prov \in [Clients -> Runs] /\ req \in [Clients -> Requests]
      /\ drawn \in [Ids -> Names \cup {None}] /\ None \notin Names /\ Fits(c)
  BY ProvidersAssumption DEF Typed, ControlTyped, StoresTyped
<1>1. CASE Moves(c)
  BY <1>1, MoveEnds, ToFits, EndFits
<1>2. ASSUME Begins(c), prov' \in [Clients -> Runs],
             \A d \in Clients : d # c => prov'[d].mode = prov[d].mode
      PROVE  ControlTyped' /\ \A d \in Clients : Fits(d)'
  <2>1. PICK v \in Ids, n \in Names : DrawsNew(c, v, n) \/ Deletes(c, v, n) \/ Updates(c, v, n) \/ Calls(c, v, n)
    BY <1>2 DEF Begins
  <2>p. /\ {"write", "dropSecret", "writeUpdate", "use", "hook"} \subseteq PCs
        /\ {"install", "oauth2", "health", "delete", "update", "use", "hook"} \subseteq Ops
    BY DEF PCs, Ops
  <2>2. CASE DrawsNew(c, v, n)
    <3>1. (\A w \in Ids : drawn[w] # None => drawn'[w] = drawn[w]) /\ drawn'[v] = n
      BY <1>t, <2>2 DEF DrawsNew
    <3> QED BY <1>2, <2>p, <2>2, <3>1, EnterFits DEF DrawsNew
  <2>3. CASE Deletes(c, v, n)
    <3>1. drawn' = drawn /\ drawn[v] = n
      BY <2>3, Named DEF Deletes
    <3> QED BY <1>2, <2>p, <2>3, <3>1, EnterFits DEF Deletes
  <2>4. CASE Updates(c, v, n)
    <3>1. drawn' = drawn /\ drawn[v] = n
      BY <2>4, Named DEF Updates
    <3> QED BY <1>2, <2>p, <2>4, <3>1, EnterFits DEF Updates
  <2>5. CASE Calls(c, v, n)
    <3>1. drawn' = drawn /\ drawn[v] = n
      BY <2>5, Named DEF Calls
    <3> QED BY <1>2, <2>p, <2>5, <3>1, EnterFits DEF Calls
  <2> QED BY <2>1, <2>2, <2>3, <2>4, <2>5
<1>3. CASE Routes(c)
  BY <1>2, <1>3, RouteBegins, RequestRuns
<1>4. CASE provision_providers(c) \/ ProvisionName(c) \/ Deprovision(c) \/ ProvisionEnds(c)
  <2>1. /\ prov' \in [Clients -> Runs] /\ \A d \in Clients : d # c => prov'[d].mode = prov[d].mode
        /\ pc'[c] = "idle" => prov'[c].mode = "off"
        /\ pc'[c] # "idle" => prov'[c].mode # "off"
    BY <1>4, ProvisioningRuns
  <2>2. CASE Keeps(c)
    <3>1. PICK p \in {"idle", "provision"} : pc' = [pc EXCEPT ![c] = p]
      BY <2>2 DEF Keeps
    <3>2. req' = [req EXCEPT ![c] = NoReq] /\ UNCHANGED drawn /\ NoReq \in Requests
      BY <1>t, <2>2 DEF Keeps, Fits
    <3>3. p \in PCs /\ pc'[c] = p
      BY <1>t, <3>1 DEF PCs
    <3> QED BY <2>1, <3>1, <3>2, <3>3, MoveFits
  <2> QED BY <1>2, <1>4, <2>1, <2>2, ProvisioningBegins
<1> QED BY <1>1, <1>3, <1>4 DEF Steps, Moves

\* What a step of a client leaves to the other clients.
Frame(c) ==
    \A d \in Clients \ {c} :
        pc'[d] = pc[d] /\ req'[d] = req[d] /\ prov'[d] \in {prov[d], [prov[d] EXCEPT !.alone = FALSE]}

\* A step of one client leaves to the others what Frame says.
LEMMA FrameStep ==
    ASSUME Typed, NEW c \in Clients, Routes(c) \/ Steps(c)
    PROVE  Frame(c)
<1>t. pc \in [Clients -> PCs] /\ prov \in [Clients -> Runs] /\ req \in [Clients -> Requests]
  BY DEF Typed, ControlTyped
<1>1. CASE Moves(c)
  BY <1>1, <1>t, MoveEnds DEF To, Done, Raise, Frame
<1>2. ASSUME Begins(c) \/ Keeps(c) PROVE \A d \in Clients \ {c} : pc'[d] = pc[d] /\ req'[d] = req[d]
  <2>1. CASE Begins(c)
    BY <1>t, <2>1 DEF Begins, DrawsNew, Deletes, Updates, Calls, Enter
  <2>2. CASE Keeps(c)
    BY <1>t, <2>2 DEF Keeps
  <2> QED BY <1>2, <2>1, <2>2
<1>3. CASE Routes(c)
  BY <1>2, <1>3, RouteBegins DEF Request, Frame
<1>4. CASE provision_providers(c)
  BY <1>2, <1>4, ProvisioningBegins DEF provision_providers, Frame
<1>5. CASE ProvisionName(c)
  <2>1. \E r \in Runs \cup {NotRunning} : prov' = [prov EXCEPT ![c] = r]
    BY <1>5, <1>t, NameSteps DEF NameStep, GivesUp
  <2> QED BY <1>2, <1>5, <1>t, <2>1, ProvisioningBegins DEF Frame
<1>6. CASE Deprovision(c)
  <2>1. \E r \in Runs \cup {NotRunning} : prov' = [prov EXCEPT ![c] = r]
    BY <1>6, <1>t, GoneSteps DEF GoneStep, GivesUp
  <2> QED BY <1>2, <1>6, <1>t, <2>1, ProvisioningBegins DEF Frame
<1>7. CASE ProvisionEnds(c)
  BY <1>2, <1>7, <1>t, ProvisioningBegins DEF ProvisionEnds, Frame
<1> QED BY <1>1, <1>3, <1>4, <1>5, <1>6, <1>7 DEF Steps, Moves
-----------------------------------------------------------------------------
\* What the step of an operation does to the stores.
LEMMA MoveStores ==
    ASSUME NEW c \in Clients, Moves(c)
    PROVE  /\ \/ UNCHANGED row \/ row' = [row EXCEPT ![req[c].id] = None]
              \/ \E p, k \in BOOLEAN :
                    row' = [row EXCEPT ![req[c].id] = [name |-> req[c].name, provisioned |-> p, consumer |-> k]]
           /\ secret' \in {secret, secret \cup {req[c].id}, secret \ {req[c].id}}
           /\ answered' \in {answered, answered \cup {req[c].id}}
           /\ lost' \in {lost, lost \cup {req[c].id}}
<1>1. \/ UNCHANGED row \/ row' = [row EXCEPT ![req[c].id] = None]
      \/ \E p, k \in BOOLEAN :
            row' = [row EXCEPT ![req[c].id] = [name |-> req[c].name, provisioned |-> p, consumer |-> k]]
  <2>1. CASE InsertRow(c)
    <3>1. Provisioning(c) \in BOOLEAN /\ (req[c].op = "install" /\ req[c].name \in Consumers) \in BOOLEAN
      BY DEF Provisioning
    <3>2. UNCHANGED row \/ row' = [row EXCEPT ![req[c].id] =
             [name |-> req[c].name, provisioned |-> Provisioning(c),
              consumer |-> req[c].op = "install" /\ req[c].name \in Consumers]]
      BY <2>1 DEF InsertRow
    <3> QED BY <3>1, <3>2
  <2> QED BY <2>1 DEF Moves, WriteSecret, DropTemporary, RemoveSecret, add_consumer, DropSecret, CleanUp,
             DeleteRow, WriteUpdate, CommitUpdate, UseProvider, Hook
<1>2. secret' \in {secret, secret \cup {req[c].id}, secret \ {req[c].id}}
  BY DEF Moves, WriteSecret, DropTemporary, InsertRow, RemoveSecret, add_consumer, DropSecret, CleanUp,
         DeleteRow, WriteUpdate, CommitUpdate, UseProvider, Hook, get_provider
<1>3. answered' \in {answered, answered \cup {req[c].id}} /\ lost' \in {lost, lost \cup {req[c].id}}
  BY DEF Moves, WriteSecret, DropTemporary, InsertRow, RemoveSecret, add_consumer, DropSecret, CleanUp,
         DeleteRow, WriteUpdate, CommitUpdate, UseProvider, Hook, historyVars, Succeeds
<1> QED BY <1>1, <1>2, <1>3

\* Every step of a client keeps the types of the stores, and the names.
LEMMA StoresStep ==
    ASSUME Typed, NEW c \in Clients, Begins(c) \/ Keeps(c) \/ Moves(c)
    PROVE  /\ StoresTyped' /\ Drawn'
           /\ \A v \in Ids : drawn[v] # None => drawn'[v] = drawn[v]
<1>t. /\ row \in [Ids -> Rows \cup {None}] /\ secret \subseteq Ids /\ drawn \in [Ids -> Names \cup {None}]
      /\ None \notin Rows /\ answered \subseteq Ids /\ lost \subseteq Ids /\ touched \subseteq Ids
      /\ shared \subseteq Ids /\ Drawn /\ None \notin Names
  BY ProvidersAssumption DEF Typed, StoresTyped
<1>1. CASE Keeps(c)
  BY <1>1, <1>t DEF Keeps, StoresTyped, Drawn
<1>2. CASE Begins(c)
  <2>1. PICK v \in Ids, n \in Names : DrawsNew(c, v, n) \/ Deletes(c, v, n) \/ Updates(c, v, n) \/ Calls(c, v, n)
    BY <1>2 DEF Begins
  <2>2. UNCHANGED <<row, secret, answered, lost>> /\ shared' \subseteq Ids
    BY <1>2, <1>t, <2>1 DEF Begins, DrawsNew, Deletes, Updates, Calls, Enter
  <2>3. CASE DrawsNew(c, v, n)
    <3>1. drawn' = [drawn EXCEPT ![v] = n] /\ drawn[v] = None /\ UNCHANGED touched
      BY <2>3 DEF DrawsNew
    <3>2. \A w \in Ids : row[w] # None => row[w].name # None /\ w # v
      <4> SUFFICES ASSUME NEW w \in Ids, row[w] # None PROVE row[w].name # None /\ w # v
        OBVIOUS
      <4> QED BY <1>t, <3>1, Named
    <3>3. StoresTyped'
      BY <1>t, <2>2, <3>1 DEF StoresTyped
    <3>4. \A w \in Ids : w # v => drawn'[w] = drawn[w]
      BY <1>t, <3>1
    <3>5. Drawn'
      BY <1>t, <2>2, <3>1, <3>2, <3>4 DEF Drawn
    <3> QED BY <3>1, <3>3, <3>4, <3>5
  <2>4. CASE Deletes(c, v, n) \/ Updates(c, v, n) \/ Calls(c, v, n)
    <3>1. UNCHANGED drawn /\ touched' \subseteq touched \cup {v} /\ (touched' # touched => row[v] # None)
      BY <2>4 DEF Deletes, Updates, Calls
    <3>2. row[v] # None => drawn[v] # None
      BY <1>t, Named
    <3>3. StoresTyped'
      BY <1>t, <2>2, <3>1 DEF StoresTyped
    <3>4. Drawn'
      BY <1>t, <2>2, <3>1, <3>2 DEF Drawn
    <3> QED BY <3>1, <3>3, <3>4
  <2> QED BY <2>1, <2>3, <2>4
<1>3. CASE Moves(c)
  <2>1. pc[c] \notin {"idle", "provision"} /\ UNCHANGED <<drawn, touched, shared>>
    BY <1>3, MoveEnds
  <2>2. PICK u \in Ids : u = req[c].id /\ drawn[u] \in Names /\ req[c].name = drawn[u]
    BY <2>1 DEF Typed, Fits
  <2>3. /\ secret' \in {secret, secret \cup {u}, secret \ {u}} /\ answered' \in {answered, answered \cup {u}}
        /\ lost' \in {lost, lost \cup {u}}
    BY <1>3, <2>2, MoveStores
  <2>4. row' \in [Ids -> Rows \cup {None}] /\ \A v \in Ids : row'[v] # None => row'[v].name = drawn[v]
    <3>1. CASE UNCHANGED row
      BY <1>t, <3>1 DEF Drawn
    <3>2. CASE row' = [row EXCEPT ![u] = None]
      BY <1>t, <3>2 DEF Drawn
    <3>3. CASE \E p, k \in BOOLEAN : row' = [row EXCEPT ![u] = [name |-> drawn[u], provisioned |-> p, consumer |-> k]]
      <4>1. PICK p, k \in BOOLEAN : row' = [row EXCEPT ![u] = [name |-> drawn[u], provisioned |-> p, consumer |-> k]]
        BY <3>3
      <4>2. [name |-> drawn[u], provisioned |-> p, consumer |-> k] \in Rows
        BY <2>2 DEF Rows
      <4> QED BY <1>t, <4>1, <4>2 DEF Drawn
    <3> QED BY <1>3, <2>2, <3>1, <3>2, <3>3, MoveStores
  <2>5. StoresTyped'
    BY <1>t, <2>1, <2>3, <2>4 DEF StoresTyped
  <2>6. Drawn'
    BY <1>t, <2>1, <2>2, <2>3, <2>4 DEF Drawn
  <2> QED BY <2>1, <2>5, <2>6
<1> QED BY <1>1, <1>2, <1>3

\* Typed is inductive.
LEMMA TypedInit == Init => Typed
<1> SUFFICES ASSUME Init PROVE Typed
  OBVIOUS
<1>1. ControlTyped
  <2>1. NoReq \in Requests
    BY DEF NoReq, Requests, Ops
  <2>2. pc \in [Clients -> PCs]
    BY DEF Init, PCs
  <2>3. req \in [Clients -> Requests]
    BY <2>1 DEF Init
  <2>4. prov \in [Clients -> Runs]
    BY RunUpdates DEF Init
  <2> QED BY <2>2, <2>3, <2>4 DEF ControlTyped
<1>2. StoresTyped
  BY ProvidersAssumption DEF Init, StoresTyped
<1>3. LifeTyped
  BY ProvidersAssumption DEF Init, LifeTyped
<1>4. Drawn /\ \A c \in Clients : Fits(c)
  BY RunUpdates DEF Init, Drawn, Fits
<1> QED BY <1>1, <1>2, <1>3, <1>4 DEF Typed

\* Every step keeps the types.
LEMMA TypedStep == Typed /\ [Next]_vars => Typed'
<1> SUFFICES ASSUME Typed, [Next]_vars PROVE Typed'
  OBVIOUS
<1>l. LifeTyped'
  BY LifeStep DEF Typed
<1>1. ASSUME NEW c \in Clients, Routes(c) \/ Steps(c) PROVE Typed'
  <2>1. ControlTyped' /\ \A d \in Clients : Fits(d)'
    BY <1>1, ControlStep
  <2>2. StoresTyped' /\ Drawn'
    BY <1>1, StepKinds, StoresStep
  <2> QED BY <1>l, <2>1, <2>2 DEF Typed
<1>2. ASSUME UNCHANGED <<row, secret, drawn, answered, lost, touched, shared, pc, req, prov>>
      PROVE  Typed'
  <2>1. ControlTyped' /\ \A d \in Clients : Fits(d)'
    BY <1>2 DEF Typed, ControlTyped, Fits, NoReq
  <2>2. StoresTyped' /\ Drawn'
    BY <1>2 DEF Typed, StoresTyped, Drawn
  <2> QED BY <1>l, <2>1, <2>2 DEF Typed
<1>3. CASE ProcessStep
  BY <1>2, <1>3 DEF ProcessStep, StartConsumers, ShutdownBegins, Shutdown, StopConsumer, ShutdownEnds, Instantiate, historyVars
<1>4. CASE Crash
  <2>1. /\ pc' = [c \in Clients |-> "idle"] /\ req' = [c \in Clients |-> NoReq]
        /\ prov' = [c \in Clients |-> NotRunning] /\ UNCHANGED <<row, secret, drawn, answered, lost, touched, shared>>
    BY <1>4 DEF Crash, historyVars
  <2>2. StoresTyped' /\ Drawn'
    BY <2>1 DEF Typed, StoresTyped, Drawn
  <2>3. ControlTyped'
    <3>1. NoReq \in Requests
      BY DEF NoReq, Requests, Ops
    <3>2. pc' \in [Clients -> PCs]
      BY <2>1 DEF PCs
    <3>3. req' \in [Clients -> Requests]
      BY <2>1, <3>1
    <3>4. prov' \in [Clients -> Runs]
      BY <2>1, RunUpdates
    <3> QED BY <3>2, <3>3, <3>4 DEF ControlTyped, PCs, Requests, Ops, Runs
  <2>4. \A d \in Clients : Fits(d)'
    BY <2>1, RunUpdates DEF Fits, NoReq
  <2> QED BY <1>l, <2>2, <2>3, <2>4 DEF Typed
<1>5. CASE UNCHANGED vars
  BY <1>2, <1>5 DEF vars, asideVars, historyVars
<1> QED BY <1>1, <1>3, <1>4, <1>5 DEF Next, ProcessStep

\* They include what TypeOK asks of the stores and of the process.
LEMMA TypedMeansTypeOK == Typed => TypeOK
<1> SUFFICES ASSUME Typed PROVE TypeOK
  OBVIOUS
<1>1. req \in [Clients -> Requests] /\ prov \in [Clients -> Runs] /\ pc \in [Clients -> PCs]
  BY DEF Typed, ControlTyped
<1>2. req \in [Clients -> [op : {"none", "install", "oauth2", "health", "delete", "update", "use", "hook"},
                            id : Ids \cup {None}, name : Names \cup {None}]]
  BY <1>1 DEF Requests, Ops
<1>3. prov \in [Clients -> [mode : {"off", "none", "env", "dir"}, cfg : SUBSET Names, todo : SUBSET Names,
                             gone : SUBSET Ids, looked : SUBSET Names, keep : SUBSET Names,
                             alone : BOOLEAN, clean : BOOLEAN]]
  BY <1>1 DEF Runs
<1> QED BY <1>1, <1>2, <1>3 DEF TypeOK, Typed, StoresTyped, LifeTyped
-----------------------------------------------------------------------------
(***************************************************************************)
(* An installed provider stays listed.  Until its row is committed nobody  *)
(* but the client that drew it works on a provider, and only deletions     *)
(* take a row or a secret from one that is known.                          *)
(***************************************************************************)
\* A client that has not committed the row it drew an id for.
NewPCs == {"write", "insert", "cleanup", "tempDrop"}
DeletionPCs == {"dropSecret", "cleanUp", "deleteRow"}

\* Until then the provider is its own.
Fresh(c) ==
    pc[c] \in NewPCs =>
        /\ row[req[c].id] = None /\ req[c].id \notin answered \cup touched
        /\ Working(req[c].id) = {c}
        /\ \A d \in Clients : req[c].id \notin prov[d].gone

\* How far the operation of a client has come, and what it has stored.
Operation(c) ==
    /\ pc[c] = "write" => req[c].op \in {"install", "oauth2", "health"}
    /\ pc[c] = "insert" => req[c].op \in {"install", "oauth2"}
    /\ pc[c] \in {"insert", "cleanup"} => req[c].id \in secret
    /\ pc[c] = "consume" => req[c].id \in touched \/ (row[req[c].id] # None /\ req[c].id \in secret)
    /\ pc[c] \in DeletionPCs => req[c].id \in touched
    /\ \A u \in prov[c].gone : drawn[u] # None

ListedInv == InstalledIsListed /\ \A c \in Clients : Fresh(c) /\ Operation(c)

\* A client that is in no other's fresh provider: what it works on.
LEMMA FreshIsOwn ==
    ASSUME NEW c \in Clients, NEW d \in Clients, c # d, Fresh(d), pc[d] \in NewPCs
    PROVE  req[c].id # req[d].id
BY DEF Fresh, Working

\* The new snapshot of a provisioning is of installed providers.
LEMMA GoneStays ==
    ASSUME Typed, NEW c \in Clients, Routes(c) \/ Steps(c), NEW d \in Clients
    PROVE  \A u \in prov'[d].gone : u \in prov[d].gone \/ (u \in Ids /\ row[u] # None)
<1>t. pc \in [Clients -> PCs] /\ prov \in [Clients -> Runs] /\ prov[d] \in Runs
  BY DEF Typed, ControlTyped
<1>a. [prov[d] EXCEPT !.alone = FALSE].gone = prov[d].gone
  BY <1>t DEF Runs
<1>1. CASE d # c
  BY <1>1, <1>a, FrameStep DEF Frame
<1>2. CASE d = c /\ Moves(c)
  <2>1. To(c, "idle") \/ (\E p \in PCs : To(c, p)) \/ Done(c) \/ Raise(c)
    BY <1>2, MoveEnds
  <2>2. prov'[c].gone \subseteq prov[c].gone
    <3>1. CASE Done(c)
      BY <1>t, <1>2, <3>1 DEF Done, Runs
    <3>2. CASE Raise(c)
      BY <1>t, <1>2, <3>2 DEF Raise, Runs, NotRunning
    <3> QED BY <2>1, <3>1, <3>2 DEF To
  <2> QED BY <1>2, <2>2
<1>3. CASE d = c /\ Routes(c)
  <2>1. prov'[d] = [prov[d] EXCEPT !.alone = FALSE]
    BY <1>3, RouteBegins DEF Request
  <2> QED BY <1>a, <2>1
<1>4. CASE d = c /\ provision_providers(c)
  <2>1. prov'[c].gone \subseteq get_all_provisioned_providers
    BY <1>4 DEF provision_providers
  <2> QED BY <1>4, <2>1 DEF get_all_provisioned_providers, Installed
<1>5. CASE d = c /\ ProvisionName(c)
  <2>1. ASSUME NEW n \in prov[c].todo, NEW r \in Runs, NameStep(c, n, r) PROVE prov'[c].gone \subseteq prov[c].gone
    BY <1>t, <2>1 DEF NameStep
  <2>2. GivesUp(c) => prov'[c].gone = {}
    BY <1>t DEF GivesUp, NotRunning
  <2> QED BY <1>5, <1>t, <2>1, <2>2, NameSteps
<1>6. CASE d = c /\ Deprovision(c)
  <2>1. ASSUME NEW u \in prov[c].gone, NEW r \in Runs, GoneStep(c, u, r) PROVE prov'[c].gone \subseteq prov[c].gone
    BY <1>t, <2>1 DEF GoneStep
  <2>2. GivesUp(c) => prov'[c].gone = {}
    BY <1>t DEF GivesUp, NotRunning
  <2> QED BY <1>6, <1>t, <2>1, <2>2, GoneSteps
<1>7. CASE d = c /\ ProvisionEnds(c)
  BY <1>7, <1>t DEF ProvisionEnds, NotRunning
<1> QED BY <1>1, <1>2, <1>3, <1>4, <1>5, <1>6, <1>7 DEF Steps, Moves

\* How a step of an operation changes what other providers have: not at all.
LEMMA OthersKept ==
    ASSUME Typed, NEW c \in Clients, Moves(c), NEW v \in Ids, v # req[c].id
    PROVE  /\ row'[v] = row[v] /\ (v \in secret' <=> v \in secret)
           /\ (v \in answered' <=> v \in answered) /\ (v \in lost' <=> v \in lost)
<1>t. row \in [Ids -> Rows \cup {None}]
  BY DEF Typed, StoresTyped
<1>1. row'[v] = row[v]
  <2>1. CASE row' = [row EXCEPT ![req[c].id] = None]
    BY <1>t, <2>1
  <2>2. CASE \E p, k \in BOOLEAN :
                row' = [row EXCEPT ![req[c].id] = [name |-> req[c].name, provisioned |-> p, consumer |-> k]]
    BY <1>t, <2>2
  <2> QED BY <2>1, <2>2, MoveStores
<1>2. /\ secret' \in {secret, secret \cup {req[c].id}, secret \ {req[c].id}}
      /\ answered' \in {answered, answered \cup {req[c].id}}
      /\ lost' \in {lost, lost \cup {req[c].id}}
  BY MoveStores
<1> QED BY <1>1, <1>2

\* The fresh provider of a client survives the steps of the others.
LEMMA OthersFresh ==
    ASSUME Typed, NEW c \in Clients, Routes(c) \/ Steps(c), NEW d \in Clients \ {c}, Fresh(d), Operation(d)
    PROVE  Fresh(d)'
<1>t. pc \in [Clients -> PCs] /\ req \in [Clients -> Requests] /\ drawn \in [Ids -> Names \cup {None}]
      /\ None \notin Ids
  BY ProvidersAssumption DEF Typed, ControlTyped, StoresTyped
<1>f. pc'[d] = pc[d] /\ req'[d] = req[d] /\ \A e \in Clients \ {c} : req'[e] = req[e]
  BY FrameStep DEF Frame
<1> SUFFICES ASSUME pc[d] \in NewPCs PROVE Fresh(d)'
  BY <1>f DEF Fresh
<1>u. PICK u \in Ids : u = req[d].id /\ drawn[u] # None
  <2>1. req[d].id \in Ids /\ req[d].name \in Names /\ drawn[req[d].id] = req[d].name
    BY DEF Typed, Fits, NewPCs
  <2> QED BY <2>1, ProvidersAssumption
<1>1. row[u] = None /\ u \notin answered /\ u \notin touched /\ Working(u) = {d}
      /\ \A e \in Clients : u \notin prov[e].gone
  BY <1>u DEF Fresh
<1>2. \A e \in Clients : u \notin prov'[e].gone
  BY <1>1, GoneStays
<1>3. /\ row'[u] = None /\ u \notin answered' /\ u \notin touched' /\ req'[c].id # u
  <2>0. req[c].id # u
    BY <1>1 DEF Working
  <2>1. CASE Begins(c)
    <3>1. PICK v \in Ids, n \in Names : DrawsNew(c, v, n) \/ Deletes(c, v, n) \/ Updates(c, v, n) \/ Calls(c, v, n)
      BY <2>1 DEF Begins
    <3>2. v # u /\ touched' \subseteq touched \cup {v}
      BY <1>1, <1>u, <3>1 DEF DrawsNew, Deletes, Updates, Calls
    <3>3. req'[c].id = v
      BY <1>t, <3>1 DEF DrawsNew, Deletes, Updates, Calls, Enter
    <3> QED BY <1>1, <2>1, <3>2, <3>3 DEF Begins
  <2>2. CASE Keeps(c)
    BY <1>1, <2>0, <2>2 DEF Keeps
  <2>3. CASE Moves(c)
    <3>1. row'[u] = row[u] /\ u \notin answered'
      BY <1>1, <2>0, <2>3, OthersKept
    <3>2. req'[c].id \in {req[c].id, None}
      BY <1>t, <2>3, MoveEnds DEF To, Done, Raise, NoReq
    <3>3. touched' = touched
      BY <2>3, MoveEnds
    <3> QED BY <1>1, <1>t, <2>0, <3>1, <3>2, <3>3
  <2> QED BY <2>1, <2>2, <2>3, StepKinds
<1>4. Working(u)' = {d}
  BY <1>1, <1>3, <1>f, <1>u DEF Working
<1> QED BY <1>2, <1>3, <1>4, <1>f, <1>u DEF Fresh
\* Only deletions take a row or a secret from a provider that is not fresh.
LEMMA TakesAway ==
    ASSUME Typed, NEW c \in Clients, Moves(c), Fresh(c), Operation(c), NEW v \in Ids, v \notin touched
    PROVE  /\ row[v] # None => row'[v] # None
           /\ v \in secret => v \in secret' \/ (v = req[c].id /\ pc[c] \in {"cleanup", "tempDrop"})
<1>t. row \in [Ids -> Rows \cup {None}] /\ None \notin Rows
  BY DEF Typed, StoresTyped
<1>1. CASE v # req[c].id
  BY <1>1, OthersKept
<1>2. CASE v = req[c].id
  <2>1. pc[c] \notin DeletionPCs
    BY <1>2 DEF Operation
  <2>2. row[v] # None => row'[v] # None
    <3>1. CASE InsertRow(c)
      BY <1>t, <1>2, <3>1 DEF InsertRow, Fresh, NewPCs
    <3>2. CASE ~InsertRow(c)
      BY <2>1, <3>2 DEF Moves, DeletionPCs, WriteSecret, DropTemporary, RemoveSecret, add_consumer, DropSecret,
         CleanUp, DeleteRow, WriteUpdate, CommitUpdate, UseProvider, Hook
    <3> QED BY <3>1, <3>2
  <2>3. v \in secret => v \in secret' \/ pc[c] \in {"cleanup", "tempDrop"}
    BY <2>1 DEF Moves, DeletionPCs, WriteSecret, DropTemporary, InsertRow, RemoveSecret, add_consumer, DropSecret,
       CleanUp, DeleteRow, WriteUpdate, CommitUpdate, UseProvider, Hook, get_provider
  <2> QED BY <1>2, <2>2, <2>3
<1> QED BY <1>1, <1>2

\* What is answered by the step is in both stores, or a deletion has worked on it.
LEMMA AnswersListed ==
    ASSUME Typed, NEW c \in Clients, Moves(c), Operation(c), NEW v \in Ids, v \in answered', v \notin answered
    PROVE  v \in touched \/ (row'[v] # None /\ v \in secret')
<1>t. row \in [Ids -> Rows \cup {None}] /\ None \notin Rows
  BY DEF Typed, StoresTyped
<1>1. v = req[c].id
  BY OthersKept
<1>2. InsertRow(c) \/ add_consumer(c)
  BY DEF Moves, WriteSecret, DropTemporary, RemoveSecret, DropSecret, CleanUp, DeleteRow, WriteUpdate,
     CommitUpdate, UseProvider, Hook, historyVars
<1>3. CASE InsertRow(c)
  <2>1. PICK p, k \in BOOLEAN :
          row' = [row EXCEPT ![v] = [name |-> req[c].name, provisioned |-> p, consumer |-> k]]
    <3>1. Provisioning(c) \in BOOLEAN /\ (req[c].op = "install" /\ req[c].name \in Consumers) \in BOOLEAN
      BY DEF Provisioning
    <3> QED BY <1>1, <1>3, <3>1 DEF InsertRow
  <2>2. [name |-> req[c].name, provisioned |-> p, consumer |-> k] \in Rows
    <3>1. req[c].name \in Names
      BY <1>3 DEF InsertRow, Typed, Fits
    <3> QED BY <3>1 DEF Rows
  <2>3. row'[v] # None
    BY <1>t, <2>1, <2>2
  <2> QED BY <1>1, <1>3, <2>3 DEF InsertRow, Operation
<1>4. CASE add_consumer(c)
  BY <1>1, <1>4 DEF add_consumer, Operation
<1> QED BY <1>2, <1>3, <1>4

\* What a step changes without being in an operation: nothing in the stores.
LEMMA QuietStores ==
    ASSUME NEW c \in Clients, Begins(c) \/ Keeps(c)
    PROVE  UNCHANGED <<row, secret, answered, lost>> /\ touched \subseteq touched' /\ shared \subseteq shared'
BY DEF Begins, Keeps, DrawsNew, Deletes, Updates, Calls, Enter

\* What was answered and not touched since stays in both stores.
LEMMA ListedStep ==
    ASSUME Typed, ListedInv, NEW c \in Clients, Routes(c) \/ Steps(c)
    PROVE  InstalledIsListed'
<1>t. row \in [Ids -> Rows \cup {None}] /\ secret \subseteq Ids /\ answered \subseteq Ids /\ answered' \subseteq Ids
  BY StoresStep, StepKinds DEF Typed, StoresTyped
<1>i. \A v \in answered : v \notin touched => row[v] # None /\ v \in secret
  BY <1>t DEF ListedInv, InstalledIsListed, get_installed_providers, Installed, read_secret
<1>1. ASSUME NEW v \in answered', v \notin touched' PROVE row'[v] # None /\ v \in secret'
  <2>1. CASE Begins(c) \/ Keeps(c)
    BY <1>i, <1>1, <2>1, QuietStores
  <2>2. CASE Moves(c)
    <3>1. v \in Ids /\ v \notin touched
      BY <1>t, <1>1, <2>2, MoveEnds
    <3>2. CASE v \in answered
      <4>1. v = req[c].id => pc[c] \notin NewPCs
        BY <3>2 DEF ListedInv, Fresh
      <4> QED BY <1>i, <2>2, <3>1, <3>2, <4>1, TakesAway DEF ListedInv, NewPCs
    <3>3. CASE v \notin answered
      BY <1>1, <2>2, <3>1, <3>3, AnswersListed DEF ListedInv
    <3> QED BY <3>2, <3>3
  <2> QED BY <2>1, <2>2, StepKinds
<1> QED BY <1>t, <1>1 DEF InstalledIsListed, get_installed_providers, Installed, read_secret

\* A step of one client keeps the account of the operation another is in.
LEMMA OthersOperation ==
    ASSUME Typed, NEW c \in Clients, Routes(c) \/ Steps(c), NEW d \in Clients \ {c},
           Fresh(c), Operation(c), Fresh(d), Operation(d)
    PROVE  Operation(d)'
<1>t. prov[d] \in Runs /\ drawn \in [Ids -> Names \cup {None}]
  BY DEF Typed, ControlTyped, StoresTyped
<1>f. pc'[d] = pc[d] /\ req'[d] = req[d] /\ prov'[d].gone = prov[d].gone
  BY <1>t, FrameStep DEF Frame, Runs
<1>g. \A u \in Ids : drawn[u] # None => drawn'[u] = drawn[u]
  BY StoresStep, StepKinds
<1>n. pc[c] \in NewPCs /\ req[d].id \in Ids => req[d].id # req[c].id
  BY FreshIsOwn
<1>i. pc[d] \in NewPCs \cup DeletionPCs \cup {"consume"} => req[d].id \in Ids
  BY DEF Typed, Fits, NewPCs, DeletionPCs
<1>o. pc[d] \in NewPCs => req[d].id # req[c].id
  BY FreshIsOwn
<1>1. pc[d] \in {"insert", "cleanup"} => req[d].id \in secret'
  BY <1>i, <1>o, OthersKept, QuietStores, StepKinds DEF Operation, NewPCs
<1>2. touched \subseteq touched'
  BY QuietStores, MoveEnds, StepKinds
<1>3. pc[d] = "consume" => req[d].id \in touched' \/ (row'[req[d].id] # None /\ req[d].id \in secret')
  <2> SUFFICES ASSUME pc[d] = "consume", req[d].id \notin touched
               PROVE  row'[req[d].id] # None /\ req[d].id \in secret'
    BY <1>2
  <2>1. PICK u \in Ids : u = req[d].id
    BY <1>i
  <2>2. row[u] # None /\ u \in secret
    BY <2>1 DEF Operation
  <2>3. CASE Moves(c)
    <3>1. pc[c] \in {"cleanup", "tempDrop"} => u # req[c].id
      BY <1>n, <2>1 DEF NewPCs
    <3> QED BY <2>1, <2>2, <2>3, <3>1, TakesAway
  <2> QED BY <2>1, <2>2, <2>3, QuietStores, StepKinds
<1>4. \A u \in prov'[d].gone : drawn'[u] # None
  BY <1>f, <1>g, <1>t DEF Operation, Runs
<1>5. pc[d] \in DeletionPCs => req[d].id \in touched'
  BY <1>2 DEF Operation
<1> QED BY <1>1, <1>3, <1>4, <1>5, <1>f DEF Operation
\* A provider that is drawn is fresh.
LEMMA DrawnFresh ==
    ASSUME Typed, ListedInv, NEW c \in Clients, Routes(c) \/ Steps(c), NEW v \in Ids, NEW n \in Names, DrawsNew(c, v, n),
           UNCHANGED <<row, answered>>
    PROVE  Fresh(c)'
<1>t. /\ pc \in [Clients -> PCs] /\ req \in [Clients -> Requests] /\ None \notin Ids /\ None \notin Names
      /\ drawn[v] = None /\ UNCHANGED touched /\ req'[c].id = v
  BY ProvidersAssumption DEF Typed, ControlTyped, DrawsNew, Enter
<1>1. row[v] = None /\ v \notin answered /\ v \notin touched
  BY <1>t, Named
<1>2. \A d \in Clients : v \notin prov'[d].gone
  BY <1>t, <1>1, GoneStays DEF ListedInv, Operation
<1>3. \A d \in Clients \ {c} : req'[d].id # v
  <2>1. \A d \in Clients : req[d].id # v
    BY <1>t DEF Typed, Fits, NoReq
  <2> QED BY <2>1, FrameStep DEF Frame
<1>4. Working(v)' = {c}
  BY <1>t, <1>3 DEF Working
<1> QED BY <1>t, <1>1, <1>2, <1>4 DEF Fresh

\* The client that steps has its new provider to itself.
LEMMA OwnFresh ==
    ASSUME Typed, ListedInv, NEW c \in Clients, Routes(c) \/ Steps(c)
    PROVE  Fresh(c)'
<1>t. pc \in [Clients -> PCs] /\ req \in [Clients -> Requests] /\ Fresh(c)
  BY DEF Typed, ControlTyped, ListedInv
<1>1. CASE Begins(c)
  <2>1. PICK v \in Ids, n \in Names : DrawsNew(c, v, n) \/ Deletes(c, v, n) \/ Updates(c, v, n) \/ Calls(c, v, n)
    BY <1>1 DEF Begins
  <2>2. CASE DrawsNew(c, v, n)
    BY <1>1, <2>2, DrawnFresh DEF Begins
  <2>3. CASE Deletes(c, v, n) \/ Updates(c, v, n) \/ Calls(c, v, n)
    <3>1. pc'[c] \notin NewPCs
      BY <1>t, <2>3 DEF Deletes, Updates, Calls, Enter, NewPCs
    <3> QED BY <3>1 DEF Fresh
  <2> QED BY <2>1, <2>2, <2>3
<1>2. CASE Keeps(c)
  <2>1. pc'[c] \notin NewPCs
    BY <1>t, <1>2 DEF Keeps, NewPCs
  <2> QED BY <2>1 DEF Fresh
<1>3. CASE Moves(c)
  <2> SUFFICES ASSUME pc'[c] \in NewPCs PROVE Fresh(c)'
    BY DEF Fresh
  <2>1. (WriteSecret(c) \/ InsertRow(c)) /\ req' = req
    <3>1. ~Done(c) /\ ~Raise(c)
      BY <1>t DEF Done, Raise, NewPCs
    <3>2. /\ ~(add_consumer(c) \/ DropSecret(c) \/ CleanUp(c) \/ WriteUpdate(c))
          /\ InsertRow(c) => req' = req
      BY <1>t, <3>1 DEF add_consumer, DropSecret, CleanUp, WriteUpdate, InsertRow, Succeeds, To, NewPCs
    <3> QED BY <1>3, <3>1, <3>2 DEF Moves, WriteSecret, DropTemporary, RemoveSecret, DeleteRow,
            CommitUpdate, UseProvider, Hook, To
  <2>2. UNCHANGED <<row, answered, touched>>
    <3>1. CASE WriteSecret(c)
      BY <3>1 DEF WriteSecret, historyVars
    <3>2. CASE InsertRow(c)
      BY <1>t, <3>2 DEF InsertRow, Succeeds, To, Done, Raise, NewPCs
    <3> QED BY <2>1, <3>1, <3>2
  <2>3. pc[c] \in NewPCs
    BY <2>1 DEF WriteSecret, InsertRow, NewPCs
  <2>4. PICK u : u = req[c].id
    OBVIOUS
  <2>5. u \in Ids /\ row[u] = None /\ u \notin answered \cup touched /\ Working(u) = {c}
        /\ \A d \in Clients : u \notin prov[d].gone
    BY <1>t, <2>3, <2>4 DEF Typed, Fits, Fresh, NewPCs
  <2>6. \A d \in Clients : u \notin prov'[d].gone
    BY <2>5, GoneStays
  <2>7. Working(u)' = {c}
    BY <2>1, <2>5 DEF Working
  <2> QED BY <2>1, <2>2, <2>4, <2>5, <2>6, <2>7 DEF Fresh
<1> QED BY <1>1, <1>2, <1>3, StepKinds

\* The client that steps keeps its account of what it has stored.
LEMMA OwnOperation ==
    ASSUME Typed, ListedInv, NEW c \in Clients, Routes(c) \/ Steps(c)
    PROVE  Operation(c)'
<1>t. /\ pc \in [Clients -> PCs] /\ req \in [Clients -> Requests] /\ Operation(c) /\ prov[c] \in Runs
      /\ row \in [Ids -> Rows \cup {None}] /\ None \notin Rows
  BY DEF Typed, ControlTyped, ListedInv, StoresTyped
<1>g. \A u \in prov'[c].gone : drawn'[u] # None
  <2> SUFFICES ASSUME NEW u \in prov'[c].gone PROVE drawn'[u] # None
    OBVIOUS
  <2>1. u \in Ids
    BY <1>t, GoneStays DEF Runs
  <2>2. drawn[u] # None
    BY <1>t, <2>1, GoneStays, Named, ProvidersAssumption DEF Operation
  <2> QED BY <2>1, <2>2, StoresStep, StepKinds
<1> SUFFICES ASSUME pc'[c] \in {"write", "insert", "cleanup", "consume"} \cup DeletionPCs
             PROVE  /\ pc'[c] = "write" => req'[c].op \in {"install", "oauth2", "health"}
                    /\ pc'[c] = "insert" => req'[c].op \in {"install", "oauth2"}
                    /\ pc'[c] \in {"insert", "cleanup"} => req'[c].id \in secret'
                    /\ pc'[c] = "consume" => req'[c].id \in touched' \/ (row'[req'[c].id] # None /\ req'[c].id \in secret')
                    /\ pc'[c] \in DeletionPCs => req'[c].id \in touched'
  BY <1>g DEF Operation
<1>1. CASE Begins(c)
  <2>1. PICK v \in Ids, n \in Names : DrawsNew(c, v, n) \/ Deletes(c, v, n) \/ Updates(c, v, n) \/ Calls(c, v, n)
    BY <1>1 DEF Begins
  <2>2. CASE DrawsNew(c, v, n)
    BY <1>t, <2>2 DEF DrawsNew, Enter, DeletionPCs
  <2>3. CASE Deletes(c, v, n)
    BY <1>t, <2>3 DEF Deletes, Enter, DeletionPCs
  <2>4. CASE Updates(c, v, n) \/ Calls(c, v, n)
    BY <1>t, <2>4 DEF Updates, Calls, Enter, DeletionPCs
  <2> QED BY <2>1, <2>2, <2>3, <2>4
<1>2. CASE Keeps(c)
  BY <1>t, <1>2 DEF Keeps, DeletionPCs
<1>3. CASE Moves(c)
  <2>0. ~Done(c) /\ ~Raise(c)
    BY <1>t DEF Done, Raise, DeletionPCs
  <2>1. CASE WriteSecret(c)
    BY <1>t, <2>0, <2>1 DEF WriteSecret, To, Operation, DeletionPCs
  <2>2. CASE InsertRow(c)
    <3>1. PICK u \in Ids : u = req[c].id /\ req[c].name \in Names
      BY <2>2 DEF InsertRow, Typed, Fits
    <3>2. UNCHANGED <<secret, req>> /\ u \in secret /\ pc'[c] \in {"cleanup", "consume", "hook"}
      BY <1>t, <2>0, <2>2, <3>1 DEF InsertRow, Succeeds, To, Operation
    <3>3. CASE pc'[c] = "cleanup"
      BY <3>1, <3>2, <3>3 DEF DeletionPCs
    <3>4. CASE pc'[c] = "consume"
      <4>1. \E p, k \in BOOLEAN :
               row' = [row EXCEPT ![u] = [name |-> req[c].name, provisioned |-> p, consumer |-> k]]
        <5>1. Provisioning(c) \in BOOLEAN /\ (req[c].op = "install" /\ req[c].name \in Consumers) \in BOOLEAN
          BY DEF Provisioning
        <5>2. row' = [row EXCEPT ![u] = [name |-> req[c].name, provisioned |-> Provisioning(c),
                        consumer |-> req[c].op = "install" /\ req[c].name \in Consumers]]
          BY <1>t, <2>0, <2>2, <3>1, <3>4 DEF InsertRow, To
        <5> QED BY <5>1, <5>2
      <4>2. \A p, k \in BOOLEAN : [name |-> req[c].name, provisioned |-> p, consumer |-> k] \in Rows
        BY <3>1 DEF Rows
      <4>3. row'[u] # None
        BY <1>t, <4>1, <4>2
      <4> QED BY <3>1, <3>2, <3>4, <4>3 DEF DeletionPCs
    <3> QED BY <3>2, <3>3, <3>4 DEF DeletionPCs
  <2>3. CASE add_consumer(c)
    BY <1>t, <2>0, <2>3 DEF add_consumer, Succeeds, To, DeletionPCs
  <2>4. CASE DropSecret(c) \/ CleanUp(c)
    BY <1>t, <2>4 DEF DropSecret, CleanUp, To, Operation, DeletionPCs, historyVars
  <2>5. CASE WriteUpdate(c)
    BY <1>t, <2>0, <2>5 DEF WriteUpdate, To, DeletionPCs
  <2> QED BY <1>3, <2>0, <2>1, <2>2, <2>3, <2>4, <2>5 DEF Moves, DropTemporary, RemoveSecret, DeleteRow,
          CommitUpdate, UseProvider, Hook
<1> QED BY <1>1, <1>2, <1>3, StepKinds
\* Where nobody works the invariant stays.
LEMMA ListedRest ==
    ASSUME Typed, ListedInv, ~(\E c \in Clients : Routes(c) \/ Steps(c)), [Next]_vars
    PROVE  ListedInv'
<1>1. CASE UNCHANGED <<row, secret, drawn, answered, touched, pc, req, prov>>
  BY <1>1 DEF ListedInv, InstalledIsListed, get_installed_providers, Installed, read_secret, Fresh, Working, Operation
<1>2. CASE Crash
  <2>1. /\ pc' = [c \in Clients |-> "idle"] /\ prov' = [c \in Clients |-> NotRunning]
        /\ UNCHANGED <<row, secret, drawn, answered, touched>>
    BY <1>2 DEF Crash, historyVars
  <2>2. InstalledIsListed'
    BY <2>1 DEF ListedInv, InstalledIsListed, get_installed_providers, Installed, read_secret
  <2>3. \A c \in Clients : Fresh(c)' /\ Operation(c)'
    BY <2>1 DEF Fresh, Operation, NewPCs, DeletionPCs, NotRunning
  <2> QED BY <2>2, <2>3 DEF ListedInv
<1>3. CASE ProcessStep
  BY <1>1, <1>3 DEF ProcessStep, StartConsumers, ShutdownBegins, Shutdown, StopConsumer, ShutdownEnds, Instantiate, historyVars
<1>4. CASE UNCHANGED vars
  BY <1>1, <1>4 DEF vars, historyVars
<1> QED BY <1>2, <1>3, <1>4 DEF Next, ProcessStep

\* Every step keeps the three together.
LEMMA ListedInvStep == Typed /\ ListedInv /\ [Next]_vars => ListedInv'
<1> SUFFICES ASSUME Typed, ListedInv, [Next]_vars PROVE ListedInv'
  OBVIOUS
<1>1. ASSUME NEW c \in Clients, Routes(c) \/ Steps(c) PROVE ListedInv'
  <2>1. InstalledIsListed' /\ Fresh(c)' /\ Operation(c)'
    BY <1>1, ListedStep, OwnFresh, OwnOperation
  <2>2. \A d \in Clients \ {c} : Fresh(d)' /\ Operation(d)'
    BY <1>1, OthersFresh, OthersOperation DEF ListedInv
  <2> QED BY <2>1, <2>2 DEF ListedInv
<1> QED BY <1>1, ListedRest

-----------------------------------------------------------------------------
(***************************************************************************)
(* While nothing has failed, the two stores agree on every provider, up to *)
(* the operation that works on it.                                         *)
(***************************************************************************)
\* The secrets the code is known to leave: of a lost name, of overlapping
\* operations, of a provider that writes its configuration back.
Left(u) == u \in lost \cup shared \/ drawn[u] \in Refreshing
Clearing(u) == \E c \in Clients : req[c].id = u /\ pc[c] \in {"cleanUp", "deleteRow"}
Pending(u) == \E c \in Clients : req[c].id = u /\ pc[c] \in {"insert", "cleanup", "tempDrop"}

Agree(u) ==
    /\ row[u] # None => u \in secret \/ Clearing(u)
    /\ u \in secret /\ row[u] = None => Left(u) \/ Pending(u)

\* What a client relies on when it writes to a store.
Sound(c) ==
    /\ pc[c] \in {"consume", "use", "hook", "writeUpdate", "commitUpdate"} =>
         row[req[c].id] # None \/ Left(req[c].id)
    /\ pc[c] = "cleanUp" => req[c].id \notin secret \/ req[c].id \in shared
    /\ pc[c] = "deleteRow" => req[c].id \notin secret \/ Left(req[c].id)

\* Two clients that work on one provider are on record.
Sharing == \A c, d \in Clients : c # d /\ req[c].id = req[d].id /\ req[c].id \in Ids => req[c].id \in shared

AgreeInv == faults = 0 => Sharing /\ (\A u \in Ids : Agree(u)) /\ \A c \in Clients : Sound(c)

\* A secret that was left stays on record as left.
LEMMA LeftStays ==
    ASSUME Typed, NEW c \in Clients, Routes(c) \/ Steps(c), NEW u \in Ids, Left(u)
    PROVE  Left(u)'
<1>1. lost \subseteq lost' /\ shared \subseteq shared'
  BY StepKinds, QuietStores, MoveStores, MoveEnds
<1>2. drawn[u] # None => drawn'[u] = drawn[u]
  BY StoresStep, StepKinds
<1> QED BY <1>1, <1>2, ProvidersAssumption DEF Left

\* Whoever joins another client on one provider puts that on record.
LEMMA SharingStep ==
    ASSUME Typed, Sharing, NEW c \in Clients, Routes(c) \/ Steps(c)
    PROVE  Sharing'
<1>t. pc \in [Clients -> PCs] /\ req \in [Clients -> Requests] /\ None \notin Ids
  BY ProvidersAssumption DEF Typed, ControlTyped
<1>f. \A d \in Clients \ {c} : req'[d] = req[d]
  BY FrameStep DEF Frame
<1>s. shared \subseteq shared'
  BY StepKinds, QuietStores, MoveEnds
<1>1. ASSUME NEW d \in Clients \ {c}, req'[c].id = req[d].id, req[d].id \in Ids PROVE req[d].id \in shared'
  <2>1. CASE Begins(c)
    <3>1. PICK v \in Ids, n \in Names : DrawsNew(c, v, n) \/ Deletes(c, v, n) \/ Updates(c, v, n) \/ Calls(c, v, n)
      BY <2>1 DEF Begins
    <3>2. req'[c].id = v /\ shared' = IF Working(v) \ {c} = {} THEN shared ELSE shared \cup {v}
      BY <1>t, <3>1 DEF DrawsNew, Deletes, Updates, Calls, Enter
    <3> QED BY <1>1, <3>2 DEF Working
  <2>2. CASE Keeps(c)
    BY <1>1, <1>s, <2>2 DEF Keeps, Sharing
  <2>3. CASE Moves(c)
    <3>1. req'[c].id \in {req[c].id, None}
      BY <1>t, <2>3, MoveEnds DEF To, Done, Raise, NoReq
    <3> QED BY <1>1, <1>s, <1>t, <3>1 DEF Sharing
  <2> QED BY <2>1, <2>2, <2>3, StepKinds
<1> QED BY <1>1, <1>f, <1>s DEF Sharing

\* The other clients go on clearing and installing.
LEMMA OthersWork ==
    ASSUME Typed, NEW c \in Clients, Routes(c) \/ Steps(c), NEW u \in Ids
    PROVE  /\ Clearing(u) => Clearing(u)' \/ (req[c].id = u /\ pc[c] \in {"cleanUp", "deleteRow"})
           /\ Pending(u) => Pending(u)' \/ (req[c].id = u /\ pc[c] \in {"insert", "cleanup", "tempDrop"})
BY FrameStep DEF Frame, Clearing, Pending

\* A step of one client spoils no other's reliance, unless they share a provider.
LEMMA OthersSound ==
    ASSUME Typed, Sharing, NEW c \in Clients, Routes(c) \/ Steps(c), NEW d \in Clients \ {c}, Sound(d)
    PROVE  Sound(d)'
<1>f. pc'[d] = pc[d] /\ req'[d] = req[d]
  BY FrameStep DEF Frame
<1> SUFFICES ASSUME pc[d] \notin {"idle", "provision"} PROVE Sound(d)'
  BY <1>f DEF Sound
<1>1. PICK u \in Ids : u = req[d].id
  BY DEF Typed, Fits
<1>s. shared \subseteq shared'
  BY StepKinds, QuietStores, MoveEnds
<1>2. CASE u \in shared
  <2>1. u \in shared' /\ Left(u)'
    BY <1>2, <1>s DEF Left
  <2> QED BY <1>1, <1>f, <2>1 DEF Sound
<1>3. CASE u \notin shared
  <2>1. req[c].id # u
    BY <1>1, <1>3 DEF Sharing
  <2>2. row'[u] = row[u] /\ (u \in secret' <=> u \in secret)
    BY <2>1, OthersKept, QuietStores, StepKinds
  <2>3. Left(u) => Left(u)'
    BY LeftStays
  <2> QED BY <1>1, <1>3, <1>f, <2>2, <2>3 DEF Sound
<1> QED BY <1>2, <1>3
\* A committed row, as the step writes it.
LEMMA InsertWrites ==
    ASSUME Typed, NEW c \in Clients, InsertRow(c)
    PROVE  UNCHANGED row \/ row'[req[c].id] # None
<1>t. /\ row \in [Ids -> Rows \cup {None}] /\ None \notin Rows /\ req[c].id \in Ids /\ req[c].name \in Names
      /\ Provisioning(c) \in BOOLEAN /\ (req[c].op = "install" /\ req[c].name \in Consumers) \in BOOLEAN
  BY DEF Typed, StoresTyped, InsertRow, Fits, Provisioning
<1>1. UNCHANGED row \/ row' = [row EXCEPT ![req[c].id] =
         [name |-> req[c].name, provisioned |-> Provisioning(c),
          consumer |-> req[c].op = "install" /\ req[c].name \in Consumers]]
  BY DEF InsertRow
<1>2. [name |-> req[c].name, provisioned |-> Provisioning(c),
       consumer |-> req[c].op = "install" /\ req[c].name \in Consumers] \in Rows
  BY <1>t DEF Rows
<1> QED BY <1>t, <1>1, <1>2

\* Without failures, the step of an operation keeps the agreement on its provider.
LEMMA MoveAgrees ==
    ASSUME Typed, ListedInv, NEW c \in Clients, Moves(c), ~Fault, NEW u \in Ids, u = req[c].id,
           Agree(u), Sound(c), Left(u) => Left(u)',
           Clearing(u) => Clearing(u)' \/ pc[c] \in {"cleanUp", "deleteRow"},
           Pending(u) => Pending(u)' \/ pc[c] \in {"insert", "cleanup", "tempDrop"}
    PROVE  Agree(u)'
<1>t. /\ pc \in [Clients -> PCs] /\ req \in [Clients -> Requests] /\ row \in [Ids -> Rows \cup {None}]
      /\ None \notin Rows /\ Fresh(c) /\ Operation(c) /\ secret \subseteq Ids
  BY DEF Typed, ControlTyped, StoresTyped, ListedInv
<1>c. \A p : To(c, p) => /\ p \in {"cleanUp", "deleteRow"} => Clearing(u)'
                         /\ p \in {"insert", "cleanup", "tempDrop"} => Pending(u)'
  BY <1>t DEF To, Clearing, Pending
<1>1. CASE WriteSecret(c)
  <2>1. u \in secret' /\ UNCHANGED row /\ row[u] = None /\ Pending(u)'
    BY <1>1, <1>c, <1>t DEF WriteSecret, Fresh, NewPCs
  <2> QED BY <2>1 DEF Agree
<1>2. CASE DropTemporary(c) \/ RemoveSecret(c)
  <2>1. u \notin secret' /\ UNCHANGED row /\ row[u] = None
    BY <1>2, <1>t DEF DropTemporary, RemoveSecret, Fresh, NewPCs
  <2> QED BY <2>1 DEF Agree
<1>3. CASE InsertRow(c)
  <2>1. UNCHANGED secret /\ u \in secret /\ row[u] = None
    BY <1>3, <1>t DEF InsertRow, Fresh, NewPCs, Operation
  <2>2. CASE row' # row
    BY <1>3, <2>1, <2>2, InsertWrites DEF Agree
  <2>3. CASE row' = row
    <3>1. To(c, "cleanup") \/ lost' = lost \cup {u}
      <4>1. row'[u] # None => FALSE
        BY <2>1, <2>3
      <4>2. ASSUME row' = [row EXCEPT ![u] = [name |-> req[c].name, provisioned |-> Provisioning(c),
                        consumer |-> req[c].op = "install" /\ req[c].name \in Consumers]]
            PROVE  FALSE
        <5>1. [name |-> req[c].name, provisioned |-> Provisioning(c),
               consumer |-> req[c].op = "install" /\ req[c].name \in Consumers] \in Rows
          <6>1. /\ req[c].name \in Names /\ Provisioning(c) \in BOOLEAN
                /\ (req[c].op = "install" /\ req[c].name \in Consumers) \in BOOLEAN
            BY <1>3 DEF InsertRow, Typed, Fits, Provisioning
          <6> QED BY <6>1 DEF Rows
        <5> QED BY <1>t, <4>1, <4>2, <5>1
      <4> QED BY <1>3, <4>2 DEF InsertRow
    <3> QED BY <1>c, <2>1, <2>3, <3>1 DEF Agree, Left
  <2> QED BY <2>2, <2>3
<1>4. CASE add_consumer(c) \/ CommitUpdate(c)
  <2>1. UNCHANGED <<row, secret>> /\ pc[c] \in {"consume", "commitUpdate"}
    BY <1>4 DEF add_consumer, CommitUpdate
  <2> QED BY <2>1 DEF Agree
<1>5. CASE DropSecret(c)
  <2>1. u \notin secret' /\ UNCHANGED row /\ Clearing(u)'
    BY <1>5, <1>c DEF DropSecret
  <2> QED BY <2>1 DEF Agree
<1>6. CASE CleanUp(c)
  <2>1. UNCHANGED row /\ Clearing(u)' /\ pc[c] = "cleanUp" /\ secret' = IF req[c].name \in Refreshing THEN secret \cup {u} ELSE secret
    BY <1>6, <1>c DEF CleanUp, get_provider
  <2>2. req[c].name = drawn[u]
    BY <2>1 DEF Typed, Fits
  <2>3. u \in secret' => Left(u)
    BY <2>1, <2>2 DEF Sound, Left
  <2> QED BY <2>1, <2>3 DEF Agree
<1>7. CASE DeleteRow(c)
  <2>1. row'[u] = None /\ UNCHANGED secret /\ pc[c] = "deleteRow"
    BY <1>7, <1>t DEF DeleteRow
  <2>2. u \in secret => Left(u)
    BY <2>1 DEF Sound
  <2> QED BY <2>1, <2>2 DEF Agree
<1>8. CASE WriteUpdate(c) \/ UseProvider(c) \/ Hook(c)
  <2>1. UNCHANGED row /\ pc[c] \in {"writeUpdate", "use", "hook"} /\ secret' \in {secret, secret \cup {u}}
    BY <1>8 DEF WriteUpdate, UseProvider, Hook, get_provider
  <2>2. row[u] = None => Left(u)
    BY <2>1 DEF Sound
  <2> QED BY <2>1, <2>2 DEF Agree
<1> QED BY <1>1, <1>2, <1>3, <1>4, <1>5, <1>6, <1>7, <1>8 DEF Moves

\* While nothing fails, every step keeps row and secret of a provider agreeing.
LEMMA AgreeStep ==
    ASSUME Typed, ListedInv, Sharing, NEW c \in Clients, Routes(c) \/ Steps(c), ~Fault, Sound(c),
           NEW u \in Ids, Agree(u)
    PROVE  Agree(u)'
<1>1. Left(u) => Left(u)'
  BY LeftStays
<1>2. CASE Moves(c) /\ req[c].id = u
  BY <1>1, <1>2, OthersWork, MoveAgrees
<1>3. CASE Begins(c) \/ Keeps(c) \/ (Moves(c) /\ req[c].id # u)
  <2>1. row'[u] = row[u] /\ (u \in secret' <=> u \in secret)
    BY <1>3, QuietStores, OthersKept
  <2>2. /\ Clearing(u) => Clearing(u)'
        /\ Pending(u) => Pending(u)'
    <3>1. Begins(c) \/ Keeps(c) => pc[c] \in {"idle", "provision"}
      BY DEF Begins, Keeps
    <3> QED BY <1>3, <3>1, OthersWork
  <2> QED BY <1>1, <2>1, <2>2 DEF Agree
<1> QED BY <1>2, <1>3, StepKinds

\* What the client that moves relies on next.
LEMMA OwnSound ==
    ASSUME Typed, ListedInv, NEW c \in Clients, Routes(c) \/ Steps(c), ~Fault, Sound(c),
           \A u \in Ids : Agree(u)
    PROVE  Sound(c)'
<1>t. /\ pc \in [Clients -> PCs] /\ req \in [Clients -> Requests] /\ row \in [Ids -> Rows \cup {None}]
      /\ secret \subseteq Ids /\ Operation(c)
  BY DEF Typed, ControlTyped, StoresTyped, ListedInv
<1>1. CASE Keeps(c)
  BY <1>t, <1>1 DEF Keeps, Sound
<1>2. CASE Begins(c)
  <2>1. PICK v \in Ids, n \in Names : DrawsNew(c, v, n) \/ Deletes(c, v, n) \/ Updates(c, v, n) \/ Calls(c, v, n)
    BY <1>2 DEF Begins
  <2>2. CASE DrawsNew(c, v, n) \/ Deletes(c, v, n)
    BY <1>t, <2>2 DEF DrawsNew, Deletes, Enter, Sound
  <2>3. CASE Updates(c, v, n)
    BY <1>t, <1>2, <2>3 DEF Updates, Enter, Sound, Begins
  <2>4. CASE Calls(c, v, n)
    <3>1. v \in secret /\ (row[v] # None \/ v \in answered) /\ req'[c].id = v /\ pc'[c] \in {"use", "hook"}
      BY <1>t, <2>4 DEF Calls, Enter
    <3>2. row[v] # None \/ Left(v)
      <4>1. v \in answered => ~Pending(v)
        BY DEF Pending, ListedInv, Fresh, NewPCs
      <4> QED BY <3>1, <4>1 DEF Agree
    <3>3. row'[v] # None \/ Left(v)'
      BY <1>2, <3>2, LeftStays DEF Begins
    <3> QED BY <3>1, <3>3 DEF Sound
  <2> QED BY <2>1, <2>2, <2>3, <2>4
<1>3. CASE Moves(c)
  <2>1. PICK u \in Ids : u = req[c].id /\ req[c].name = drawn[u]
    BY <1>3, MoveEnds DEF Typed, Fits
  <2>2. Left(u) => Left(u)'
    BY LeftStays
  <2>e. ASSUME Done(c) \/ Raise(c) PROVE Sound(c)'
    BY <1>t, <2>e DEF Done, Raise, Sound
  <2> SUFFICES ASSUME ~(Done(c) \/ Raise(c)) PROVE Sound(c)'
    BY <2>e
  <2>3. req'[c] = req[c]
    BY <1>3, MoveEnds DEF To
  <2>4. CASE WriteSecret(c)
    BY <1>t, <2>4 DEF WriteSecret, To, Sound
  <2>5. CASE InsertRow(c)
    <3>1. pc'[c] = "cleanup" \/ (pc'[c] \in {"consume", "hook"} /\ row'[u] # None)
      <4>1. CASE get_provider_by_name(req[c].name) # {}
        BY <1>t, <2>5, <4>1 DEF InsertRow, To
      <4>2. CASE get_provider_by_name(req[c].name) = {}
        <5>1. /\ row' = [row EXCEPT ![u] = [name |-> req[c].name, provisioned |-> Provisioning(c),
                        consumer |-> req[c].op = "install" /\ req[c].name \in Consumers]]
              /\ To(c, "consume") \/ Succeeds(c)
          BY <2>1, <2>5, <4>2 DEF InsertRow
        <5>2. pc'[c] \in {"consume", "hook"}
          BY <1>t, <5>1 DEF To, Succeeds
        <5>3. row'[u] = [name |-> req[c].name, provisioned |-> Provisioning(c),
                        consumer |-> req[c].op = "install" /\ req[c].name \in Consumers]
          BY <1>t, <5>1
        <5>4. row'[u] \in Rows
          <6>1. /\ req[c].name \in Names /\ Provisioning(c) \in BOOLEAN
                /\ (req[c].op = "install" /\ req[c].name \in Consumers) \in BOOLEAN
            BY <2>5 DEF InsertRow, Typed, Fits, Provisioning
          <6> QED BY <5>3, <6>1 DEF Rows
        <5> QED BY <5>2, <5>4 DEF Typed, StoresTyped
      <4> QED BY <4>1, <4>2
    <3> QED BY <2>1, <2>3, <3>1 DEF Sound
  <2>6. CASE add_consumer(c)
    BY <1>t, <2>1, <2>2, <2>3, <2>6 DEF add_consumer, Succeeds, To, Sound
  <2>7. CASE DropSecret(c)
    BY <1>t, <2>1, <2>3, <2>7 DEF DropSecret, To, Sound
  <2>8. CASE CleanUp(c)
    <3>1. /\ pc[c] = "cleanUp" /\ pc'[c] = "deleteRow" /\ UNCHANGED shared
          /\ secret' = IF req[c].name \in Refreshing THEN secret \cup {u} ELSE secret
      BY <1>t, <2>1, <2>8 DEF CleanUp, get_provider, To, historyVars
    <3>2. u \in secret' => Left(u)
      BY <2>1, <3>1 DEF Sound, Left
    <3> QED BY <2>1, <2>2, <2>3, <3>1, <3>2 DEF Sound
  <2>9. CASE WriteUpdate(c)
    BY <1>t, <2>1, <2>2, <2>3, <2>9 DEF WriteUpdate, To, Sound
  <2> QED BY <1>3, <2>4, <2>5, <2>6, <2>7, <2>8, <2>9 DEF Moves, DropTemporary, RemoveSecret, DeleteRow,
          CommitUpdate, UseProvider, Hook
<1> QED BY <1>1, <1>2, <1>3, StepKinds
\* So the whole of it is kept,
LEMMA AgreeInvStep == Typed /\ ListedInv /\ AgreeInv /\ [Next]_vars => AgreeInv'
<1> SUFFICES ASSUME Typed, ListedInv, AgreeInv, [Next]_vars, faults' = 0
             PROVE  Sharing' /\ (\A u \in Ids : Agree(u)') /\ \A c \in Clients : Sound(c)'
  BY DEF AgreeInv
<1>f. faults = 0 /\ ~Fault
  <2>1. faults \in Nat
    BY ProvidersAssumption DEF Typed, LifeTyped
  <2>2. ~Fault
    BY <2>1 DEF Fault
  <2>3. faults' = faults
    <3>1. ASSUME NEW c \in Clients, Routes(c) \/ Steps(c) PROVE UNCHANGED faults \/ Fault
      BY <3>1, StepKinds DEF Begins, Keeps, Moves, WriteSecret, DropTemporary, InsertRow, RemoveSecret, add_consumer,
         DropSecret, CleanUp, DeleteRow, WriteUpdate, CommitUpdate, UseProvider, Hook
    <3> QED BY <2>2, <3>1 DEF Next, StartConsumers, ShutdownBegins, Shutdown, StopConsumer, ShutdownEnds, Instantiate, Crash, vars
  <2> QED BY <2>2, <2>3
<1>i. Sharing /\ (\A u \in Ids : Agree(u)) /\ \A c \in Clients : Sound(c)
  BY <1>f DEF AgreeInv
<1>1. ASSUME NEW c \in Clients, Routes(c) \/ Steps(c)
      PROVE  Sharing' /\ (\A u \in Ids : Agree(u)') /\ \A d \in Clients : Sound(d)'
  <2>1. Sharing' /\ \A u \in Ids : Agree(u)'
    BY <1>1, <1>f, <1>i, SharingStep, AgreeStep
  <2>2. Sound(c)'
    BY <1>1, <1>f, <1>i, OwnSound
  <2>3. \A d \in Clients \ {c} : Sound(d)'
    BY <1>1, <1>i, OthersSound
  <2> QED BY <2>1, <2>2, <2>3
<1>2. CASE UNCHANGED <<row, secret, drawn, lost, shared, pc, req>>
  BY <1>2, <1>i DEF Sharing, Agree, Sound, Left, Clearing, Pending
<1>3. CASE ProcessStep
  BY <1>2, <1>3 DEF ProcessStep, StartConsumers, ShutdownBegins, Shutdown, StopConsumer, ShutdownEnds, Instantiate, historyVars
<1>4. CASE Crash
  BY <1>4, <1>f DEF Crash
<1>5. CASE UNCHANGED vars
  BY <1>2, <1>5 DEF vars, asideVars, historyVars
<1> QED BY <1>1, <1>3, <1>4, <1>5 DEF Next, ProcessStep

\* and holds at first, when nothing is stored.
LEMMA StoresInit == Init => ListedInv /\ AgreeInv
<1> SUFFICES ASSUME Init PROVE ListedInv /\ AgreeInv
  OBVIOUS
<1>1. ListedInv
  BY DEF Init, ListedInv, InstalledIsListed, Fresh, Operation, NewPCs, DeletionPCs, NotRunning
<1>2. AgreeInv
  BY ProvidersAssumption DEF Init, AgreeInv, Sharing, Agree, Sound, NoReq
<1> QED BY <1>1, <1>2

\* providers_service.py: an installation that was answered stays listed until a
\* deletion works on it, whatever fails, and without failures the database and
\* the secret manager agree on every provider nobody works on (StoresAreSound).
THEOREM StoresTheorem == Spec => []StoresAreSound
<1> DEFINE Inv == Typed /\ ListedInv /\ AgreeInv
<1>1. Init => Inv
  BY TypedInit, StoresInit
<1>2. Inv /\ [Next]_vars => Inv'
  BY TypedStep, ListedInvStep, AgreeInvStep
<1>3. Inv => StoresAreSound
  <2> SUFFICES ASSUME Inv PROVE StoresAreSound
    OBVIOUS
  <2>1. TypeOK /\ InstalledIsListed
    BY TypedMeansTypeOK DEF ListedInv
  <2>2. ASSUME faults = 0, NEW u \in Ids, Working(u) = {}
        PROVE  /\ row[u] # None => u \in secret
               /\ u \in secret /\ row[u] = None => u \in lost \cup shared \/ drawn[u] \in Refreshing
    <3>1. Agree(u) /\ ~Clearing(u) /\ ~Pending(u)
      BY <2>2 DEF AgreeInv, Working, Clearing, Pending
    <3> QED BY <3>1 DEF Agree, Left
  <2> QED BY <2>1, <2>2 DEF StoresAreSound, StoresAgree
<1> QED BY <1>1, <1>2, <1>3, PTL DEF Spec
-----------------------------------------------------------------------------
(***************************************************************************)
(* Provisioning.  A file that could be read names a provider that is kept, *)
(* or was not installed when its turn came; a provisioning that ran alone  *)
(* and raised nothing has installed every name it has come to and has left *)
(* no other provisioned.                                                   *)
(***************************************************************************)
\* The provisioning's configuration, notes and snapshot.
Notes(c) ==
    /\ prov[c].todo \subseteq prov[c].cfg /\ prov[c].keep \subseteq prov[c].cfg
    /\ prov[c].mode \in {"none", "env"} => \A u \in prov[c].gone : drawn[u] \notin prov[c].cfg
    /\ prov[c].mode = "dir" =>
         \A u \in prov[c].gone : drawn[u] \in prov[c].looked => drawn[u] \in prov[c].keep \/ row[u] = None
    /\ prov[c].mode = "dir" /\ prov[c].clean =>
         \A n \in prov[c].cfg \ prov[c].todo : n \in prov[c].keep \/ (req[c].op = "install" /\ req[c].name = n)

\* The operation a provisioning is in.
Serves(c) ==
    Provisioning(c) =>
        /\ pc[c] \notin {"use", "tempDrop"}
        /\ pc[c] \in {"write", "insert", "cleanup", "consume", "hook"} => req[c].op = "install"
        /\ pc[c] \in {"writeUpdate", "commitUpdate"} => req[c].op = "update"
        /\ pc[c] \in DeletionPCs => req[c].op = "delete"
        /\ req[c].op \in {"install", "update"} => req[c].name \in prov[c].cfg
        /\ req[c].op = "delete" /\ prov[c].clean => req[c].name \notin prov[c].cfg
        /\ req[c].op = "delete" /\ prov[c].mode = "dir" => req[c].name \notin prov[c].looked

\* A provisioning that runs alone.
Alone(c) == prov[c].alone => Provisioning(c) /\ \A d \in Clients \ {c} : pc[d] = "idle"

\* A client that does not provision notes nothing.
LEMMA NotRunningNotes ==
    ASSUME NEW c \in Clients, prov'[c] = NotRunning
    PROVE  Notes(c)' /\ Serves(c)' /\ Alone(c)'
BY DEF Notes, Serves, Alone, NotRunning, Provisioning

\* What a finished operation writes into the notes of its provisioning.
LEMMA DoneRun ==
    ASSUME Typed, NEW c \in Clients, Done(c)
    PROVE  /\ prov'[c].mode = prov[c].mode /\ prov'[c].cfg = prov[c].cfg /\ prov'[c].todo = prov[c].todo
           /\ prov'[c].gone = prov[c].gone /\ prov'[c].looked = prov[c].looked /\ prov'[c].alone = prov[c].alone
           /\ prov'[c].clean = prov[c].clean
           /\ prov'[c].keep = IF req[c].op = "install" /\ Provisioning(c) THEN prov[c].keep \cup {req[c].name}
                              ELSE prov[c].keep
           /\ req'[c] = NoReq /\ pc'[c] = IF Provisioning(c) THEN "provision" ELSE "idle"
<1>t. pc \in [Clients -> PCs] /\ req \in [Clients -> Requests] /\ prov \in [Clients -> Runs] /\ prov[c] \in Runs
  BY DEF Typed, ControlTyped
<1> DEFINE k == IF req[c].op = "install" /\ Provisioning(c) THEN prov[c].keep \cup {req[c].name} ELSE prov[c].keep
<1>1. prov'[c] = [prov[c] EXCEPT !.keep = k]
  BY <1>t DEF Done
<1>2. req'[c] = NoReq /\ pc'[c] = IF Provisioning(c) THEN "provision" ELSE "idle"
  BY <1>t DEF Done
<1> HIDE DEF k
<1>3. /\ prov'[c].mode = prov[c].mode /\ prov'[c].cfg = prov[c].cfg /\ prov'[c].todo = prov[c].todo
      /\ prov'[c].gone = prov[c].gone /\ prov'[c].looked = prov[c].looked /\ prov'[c].alone = prov[c].alone
      /\ prov'[c].clean = prov[c].clean /\ prov'[c].keep = k
  BY <1>1, <1>t DEF Runs
<1> QED BY <1>2, <1>3 DEF k

\* What a raised one does: it ends the provisioning, or spoils it and goes on.
LEMMA RaiseRun ==
    ASSUME Typed, NEW c \in Clients, Raise(c)
    PROVE  /\ req'[c] = NoReq
           /\ \/ prov'[c] = NotRunning
              \/ /\ Provisioning(c) /\ Caught(c)
                 /\ prov'[c].mode = prov[c].mode /\ prov'[c].cfg = prov[c].cfg /\ prov'[c].todo = prov[c].todo
                 /\ prov'[c].gone = prov[c].gone /\ prov'[c].looked = prov[c].looked
                 /\ prov'[c].alone = prov[c].alone /\ prov'[c].keep = prov[c].keep /\ prov'[c].clean = FALSE
                 /\ pc'[c] = "provision"
<1>t. pc \in [Clients -> PCs] /\ req \in [Clients -> Requests] /\ prov \in [Clients -> Runs] /\ prov[c] \in Runs
  BY DEF Typed, ControlTyped
<1>1. req'[c] = NoReq
  BY <1>t DEF Raise
<1>2. CASE Provisioning(c) /\ Caught(c)
  <2>1. prov'[c] = [prov[c] EXCEPT !.clean = FALSE] /\ pc'[c] = "provision"
    BY <1>2, <1>t DEF Raise
  <2>2. /\ prov'[c].mode = prov[c].mode /\ prov'[c].cfg = prov[c].cfg /\ prov'[c].todo = prov[c].todo
        /\ prov'[c].gone = prov[c].gone /\ prov'[c].looked = prov[c].looked
        /\ prov'[c].alone = prov[c].alone /\ prov'[c].keep = prov[c].keep /\ prov'[c].clean = FALSE
    BY <1>t, <2>1 DEF Runs
  <2> QED BY <1>1, <1>2, <2>1, <2>2
<1>3. CASE ~(Provisioning(c) /\ Caught(c))
  BY <1>1, <1>3, <1>t DEF Raise
<1> QED BY <1>2, <1>3

\* A row that is gone comes back only when its own fresh client commits it.
LEMMA RowsStayGone ==
    ASSUME Typed, ListedInv, NEW c \in Clients, Routes(c) \/ Steps(c), NEW u \in Ids, row[u] = None, row'[u] # None
    PROVE  InsertRow(c) /\ u = req[c].id /\ \A d \in Clients : u \notin prov[d].gone
<1>1. Moves(c)
  BY StepKinds, QuietStores
<1>2. u = req[c].id
  BY <1>1, OthersKept
<1>t. row \in [Ids -> Rows \cup {None}]
  BY DEF Typed, StoresTyped
<1>3. InsertRow(c)
  BY <1>1, <1>2, <1>t DEF Moves, WriteSecret, DropTemporary, RemoveSecret, add_consumer, DropSecret,
     CleanUp, DeleteRow, WriteUpdate, CommitUpdate, UseProvider, Hook
<1> QED BY <1>2, <1>3 DEF InsertRow, ListedInv, Fresh, NewPCs

\* The snapshots keep their names, and what is gone from them stays gone.
LEMMA GoneKept ==
    ASSUME Typed, ListedInv, NEW c \in Clients, Routes(c) \/ Steps(c), NEW d \in Clients, NEW u \in prov[d].gone
    PROVE  drawn'[u] = drawn[u] /\ (row[u] = None => row'[u] = None) /\ u \in Ids
<1>1. u \in Ids
  BY DEF Typed, ControlTyped, Runs
<1>2. drawn[u] # None
  BY DEF ListedInv, Operation
<1> QED BY <1>1, <1>2, RowsStayGone, StoresStep, StepKinds

\* A step of another client leaves a provisioning its notes.
LEMMA OthersNotes ==
    ASSUME Typed, ListedInv, NEW c \in Clients, Routes(c) \/ Steps(c), NEW d \in Clients \ {c},
           Notes(d), Serves(d)
    PROVE  Notes(d)' /\ Serves(d)'
<1>t. prov[d] \in Runs
  BY DEF Typed, ControlTyped
<1>1. /\ pc'[d] = pc[d] /\ req'[d] = req[d]
      /\ prov'[d].mode = prov[d].mode /\ prov'[d].cfg = prov[d].cfg /\ prov'[d].todo = prov[d].todo
      /\ prov'[d].gone = prov[d].gone /\ prov'[d].looked = prov[d].looked /\ prov'[d].keep = prov[d].keep
      /\ prov'[d].clean = prov[d].clean
  <2>1. CASE prov'[d] = prov[d]
    BY <2>1, FrameStep DEF Frame
  <2>2. CASE prov'[d] = [prov[d] EXCEPT !.alone = FALSE]
    BY <1>t, <2>2, FrameStep DEF Frame, Runs
  <2> QED BY <2>1, <2>2, FrameStep DEF Frame
<1>2. Notes(d)'
  BY <1>1, GoneKept DEF Notes
<1>3. Serves(d)'
  BY <1>1 DEF Serves, Provisioning
<1> QED BY <1>2, <1>3
\* Between two operations a provisioning serves nothing.
LEMMA RestServes ==
    ASSUME NEW c \in Clients, pc'[c] \in {"idle", "provision"}, req'[c] = NoReq
    PROVE  Serves(c)'
<1>1. req'[c].op = "none"
  BY DEF NoReq
<1>2. pc'[c] \notin {"use", "tempDrop", "write", "insert", "cleanup", "consume", "hook", "writeUpdate", "commitUpdate"}
      /\ pc'[c] \notin DeletionPCs
  BY DEF DeletionPCs
<1> QED BY <1>1, <1>2 DEF Serves

\* The step of an operation and the notes of its own provisioning.
LEMMA MoveNotes ==
    ASSUME Typed, ListedInv, NEW c \in Clients, Moves(c), Notes(c), Serves(c)
    PROVE  Notes(c)' /\ Serves(c)'
<1>t. /\ pc \in [Clients -> PCs] /\ req \in [Clients -> Requests] /\ prov \in [Clients -> Runs] /\ prov[c] \in Runs
      /\ Operation(c) /\ Fits(c)
  BY DEF Typed, ControlTyped, ListedInv
<1>g. \A u \in prov[c].gone : drawn'[u] = drawn[u] /\ (row[u] = None => row'[u] = None)
  BY GoneKept DEF Steps, Moves
<1>n. None \notin Names
  BY ProvidersAssumption
<1>1. CASE Raise(c)
  <2>1. CASE prov'[c] = NotRunning
    BY <2>1, NotRunningNotes
  <2>2. CASE prov'[c] # NotRunning
    <3>1. Notes(c)'
      BY <1>1, <1>g, <2>2, RaiseRun DEF Notes
    <3>2. Serves(c)'
      BY <1>1, <2>2, RaiseRun, RestServes
    <3> QED BY <3>1, <3>2
  <2> QED BY <2>1, <2>2
<1>2. CASE Done(c)
  <2>k. prov'[c].keep \subseteq prov[c].cfg /\ prov[c].keep \subseteq prov'[c].keep
    <3>1. req[c].op = "install" /\ Provisioning(c) => req[c].name \in prov[c].cfg
      BY DEF Serves
    <3>2. prov'[c].keep = IF req[c].op = "install" /\ Provisioning(c) THEN prov[c].keep \cup {req[c].name}
                          ELSE prov[c].keep
      BY <1>2, DoneRun
    <3>3. prov[c].keep \subseteq prov[c].cfg
      BY DEF Notes
    <3> QED BY <3>1, <3>2, <3>3
  <2>1. Notes(c)'
    <3>1. prov[c].mode = "dir" /\ req[c].op = "install" => req[c].name \in prov'[c].keep
      BY <1>2, DoneRun DEF Provisioning
    <3>2. /\ prov'[c].mode = prov[c].mode /\ prov'[c].cfg = prov[c].cfg /\ prov'[c].todo = prov[c].todo
          /\ prov'[c].gone = prov[c].gone /\ prov'[c].looked = prov[c].looked /\ prov'[c].clean = prov[c].clean
      BY <1>2, DoneRun
    <3> QED BY <1>g, <2>k, <3>1, <3>2 DEF Notes
  <2>2. Serves(c)'
    <3>1. req'[c] = NoReq /\ pc'[c] \in {"idle", "provision"}
      BY <1>2, DoneRun
    <3> QED BY <3>1, RestServes
  <2> QED BY <2>1, <2>2
<1>3. ASSUME NEW p \in PCs, To(c, p) PROVE Notes(c)' /\ Serves(c)'
  <2>1. UNCHANGED <<req, prov>> /\ pc'[c] = p
    BY <1>3, <1>t DEF To
  <2>2. Notes(c)'
    BY <1>g, <2>1 DEF Notes
  <2>3. ASSUME Provisioning(c)
        PROVE  /\ p \notin {"use", "tempDrop"}
               /\ p \in {"write", "insert", "cleanup", "consume", "hook"} => req[c].op = "install"
               /\ p \in {"writeUpdate", "commitUpdate"} => req[c].op = "update"
               /\ p \in DeletionPCs => req[c].op = "delete"
    <3>1. CASE WriteSecret(c) \/ InsertRow(c) \/ add_consumer(c)
      <4>1. pc[c] \in {"write", "insert", "consume"} /\ req[c].op = "install"
        BY <2>3, <3>1 DEF Serves, WriteSecret, InsertRow, add_consumer
      <4>2. p \in {"insert", "cleanup", "consume", "hook", "idle", "provision"}
        BY <1>t, <2>1, <3>1, <4>1 DEF WriteSecret, InsertRow, add_consumer, Succeeds, To, Done, Raise
      <4> QED BY <4>1, <4>2 DEF DeletionPCs
    <3>2. CASE DropSecret(c) \/ CleanUp(c)
      <4>1. req[c].op = "delete" /\ p \in {"cleanUp", "deleteRow"}
        BY <1>t, <2>1, <2>3, <3>2 DEF Serves, DropSecret, CleanUp, To, DeletionPCs
      <4> QED BY <4>1 DEF DeletionPCs
    <3>3. CASE WriteUpdate(c)
      <4>1. req[c].op = "update" /\ p \in {"commitUpdate", "idle", "provision"}
        BY <1>t, <2>1, <2>3, <3>3 DEF Serves, WriteUpdate, To, Raise
      <4> QED BY <4>1 DEF DeletionPCs
    <3>4. CASE DropTemporary(c) \/ RemoveSecret(c) \/ DeleteRow(c) \/ CommitUpdate(c) \/ UseProvider(c) \/ Hook(c)
      <4>1. p \in {"idle", "provision"}
        BY <1>t, <2>1, <3>4 DEF DropTemporary, RemoveSecret, DeleteRow, CommitUpdate, UseProvider, Hook, Done, Raise
      <4> QED BY <4>1 DEF DeletionPCs
    <3> QED BY <3>1, <3>2, <3>3, <3>4 DEF Moves
  <2>4. Serves(c)'
    BY <2>1, <2>3 DEF Serves, Provisioning
  <2> QED BY <2>2, <2>4
<1> QED BY <1>1, <1>2, <1>3, MoveEnds

\* A route's own client provisions nothing.
LEMMA RouteNotes ==
    ASSUME Typed, NEW c \in Clients, Routes(c), Notes(c)
    PROVE  Notes(c)' /\ Serves(c)' /\ prov'[c].alone = FALSE
<1>t. prov \in [Clients -> Runs] /\ prov[c] \in Runs
  BY DEF Typed, ControlTyped
<1>1. pc[c] = "idle" /\ prov[c].mode = "off" /\ prov'[c] = [prov[c] EXCEPT !.alone = FALSE]
  BY RouteBegins DEF Request, Begin, Typed, Fits
<1>2. prov'[c].mode = "off" /\ prov'[c].todo = prov[c].todo /\ prov'[c].cfg = prov[c].cfg
      /\ prov'[c].keep = prov[c].keep /\ prov'[c].alone = FALSE
  BY <1>t, <1>1 DEF Runs
<1> QED BY <1>2 DEF Notes, Serves, Provisioning

\* A provisioning begins with an empty notebook.
LEMMA StartNotes ==
    ASSUME Typed, NEW c \in Clients, provision_providers(c)
    PROVE  /\ Notes(c)' /\ Serves(c)'
           /\ prov'[c].mode # "off" /\ prov'[c].todo = prov'[c].cfg
           /\ prov'[c].alone = (\A o \in Clients \ {c} : pc[o] = "idle")
           /\ \A u \in Ids : row[u] # None /\ row[u].provisioned => row[u].name \in prov'[c].cfg \/ u \in prov'[c].gone
<1>t. pc \in [Clients -> PCs]
  BY DEF Typed, ControlTyped
<1>1. PICK m \in {"none", "env", "dir"}, cfg \in SUBSET Names :
        /\ m = "none" => cfg = {}
        /\ prov' = [d \in Clients |->
                IF d # c THEN [prov[d] EXCEPT !.alone = FALSE]
                ELSE [mode |-> m, cfg |-> cfg, todo |-> cfg, looked |-> {}, keep |-> {}, clean |-> TRUE,
                      alone |-> \A o \in Clients \ {c} : pc[o] = "idle",
                      gone |-> IF m = "dir" THEN get_all_provisioned_providers
                               ELSE {u \in get_all_provisioned_providers : row[u].name \notin cfg}]]
  BY DEF provision_providers
<1> DEFINE g == IF m = "dir" THEN get_all_provisioned_providers
                ELSE {u \in get_all_provisioned_providers : row[u].name \notin cfg}
<1>2. /\ prov'[c].mode = m /\ prov'[c].cfg = cfg /\ prov'[c].todo = cfg /\ prov'[c].looked = {} /\ prov'[c].keep = {}
      /\ prov'[c].alone = (\A o \in Clients \ {c} : pc[o] = "idle") /\ prov'[c].gone = g
  BY <1>1
<1>3. UNCHANGED <<row, drawn, req>> /\ pc'[c] = "provision" /\ req[c] = NoReq
  BY <1>t DEF provision_providers, Begin, Typed, Fits
<1>4. \A u \in g : drawn[u] = row[u].name
  BY Named DEF get_all_provisioned_providers, Installed
<1>5. \A u \in Ids : row[u] # None /\ row[u].provisioned => row[u].name \in cfg \/ u \in g
  BY DEF get_all_provisioned_providers, Installed
<1>6. m \in {"none", "env"} => \A u \in g : drawn[u] \notin cfg
  BY <1>4
<1> HIDE DEF g
<1>7. Notes(c)'
  BY <1>2, <1>3, <1>6 DEF Notes
<1>8. Serves(c)'
  BY <1>3 DEF Serves, NoReq, DeletionPCs
<1> QED BY <1>2, <1>5, <1>7, <1>8
\* One name of the configuration is noted before it is worked on.
LEMMA NameNotes ==
    ASSUME Typed, ListedInv, NEW c \in Clients, ProvisionName(c), Notes(c)
    PROVE  Notes(c)' /\ Serves(c)'
<1>t. /\ pc \in [Clients -> PCs] /\ req \in [Clients -> Requests] /\ prov \in [Clients -> Runs] /\ prov[c] \in Runs
      /\ None \notin Names
  BY ProvidersAssumption DEF Typed, ControlTyped
<1>r. CASE GivesUp(c)
  <2>1. prov'[c] = NotRunning /\ pc'[c] = "idle" /\ req'[c] = req[c]
    BY <1>t, <1>r DEF GivesUp
  <2>2. pc'[c] # "provision" /\ pc'[c] \notin DeletionPCs /\ req[c] = NoReq
    BY <2>1 DEF DeletionPCs, ProvisionName, Typed, Fits
  <2> QED BY <2>1, <2>2, NotRunningNotes DEF Serves, NoReq
<1> SUFFICES ASSUME ~GivesUp(c) PROVE Notes(c)' /\ Serves(c)'
  BY <1>r
<1>0. PICK n \in prov[c].todo, r \in Runs : NameStep(c, n, r)
  BY <1>t, NameSteps
<1>1. /\ prov'[c].mode = prov[c].mode /\ prov'[c].cfg = prov[c].cfg /\ prov'[c].gone = prov[c].gone
      /\ prov'[c].todo = prov[c].todo \ {n} /\ n \in prov[c].cfg /\ row' = row
      /\ prov[c].todo \subseteq prov[c].cfg /\ prov[c].keep \subseteq prov[c].cfg
  BY <1>0, <1>t DEF NameStep, SameRun, Notes, ProvisionName
<1>2. req[c] = NoReq /\ req[c].op = "none" /\ pc[c] = "provision"
  BY DEF ProvisionName, Typed, Fits, NoReq
<1>g. \A u \in prov[c].gone : drawn'[u] = drawn[u] /\ u \in Ids
  BY GoneKept DEF Steps
<1>k. /\ prov[c].mode \in {"none", "env"} => \A u \in prov[c].gone : drawn[u] \notin prov[c].cfg
      /\ prov[c].mode = "dir" =>
           \A u \in prov[c].gone : drawn[u] \in prov[c].looked => drawn[u] \in prov[c].keep \/ row[u] = None
      /\ prov[c].mode = "dir" /\ prov[c].clean => \A m \in prov[c].cfg \ prov[c].todo : m \in prov[c].keep
  BY <1>2 DEF Notes
<1>3. CASE \E u \in get_provider_by_name(n) : Enter(c, "writeUpdate", "update", u, n)
  <2>1. /\ prov'[c].looked = prov[c].looked \cup {n} /\ prov'[c].keep = prov[c].keep \cup {n}
        /\ prov'[c].clean = prov[c].clean /\ req'[c].op = "update" /\ req'[c].name = n /\ pc'[c] = "writeUpdate"
    BY <1>0, <1>2, <1>3, <1>t DEF NameStep, Enter
  <2>2. Notes(c)'
    BY <1>1, <1>g, <1>k, <2>1 DEF Notes
  <2>3. Serves(c)'
    BY <1>1, <2>1 DEF Serves, DeletionPCs
  <2> QED BY <2>2, <2>3
<1>4. CASE get_provider_by_name(n) = {} /\ \E u \in Ids : Enter(c, "write", "install", u, n)
  <2>1. /\ prov'[c].looked = prov[c].looked \cup {n} /\ prov'[c].keep = prov[c].keep
        /\ prov'[c].clean = prov[c].clean /\ req'[c].op = "install" /\ req'[c].name = n /\ pc'[c] = "write"
    BY <1>0, <1>2, <1>4, <1>t DEF NameStep, Enter
  <2>2. \A u \in prov[c].gone : drawn[u] = n => row[u] = None
    BY <1>4, <1>g, Named DEF get_provider_by_name, Installed
  <2>3. Notes(c)'
    BY <1>1, <1>g, <1>k, <2>1, <2>2 DEF Notes
  <2>4. Serves(c)'
    BY <1>1, <2>1 DEF Serves, DeletionPCs
  <2> QED BY <2>3, <2>4
<1>5. CASE UNCHANGED <<pc, req>> /\ prov'[c].looked = prov[c].looked /\ prov'[c].keep = prov[c].keep /\ prov'[c].clean = FALSE
  <2>1. Notes(c)'
    BY <1>1, <1>5, <1>g, <1>k DEF Notes
  <2>2. Serves(c)'
    BY <1>2, <1>5, RestServes
  <2> QED BY <2>1, <2>2
<1>6. prov'[c] = r
  BY <1>0, <1>t DEF NameStep
<1> QED BY <1>0, <1>3, <1>4, <1>5, <1>6 DEF NameStep

\* A provider of the snapshot is deleted when the configuration does not have it.
LEMMA GoneNotes ==
    ASSUME Typed, ListedInv, NEW c \in Clients, Deprovision(c), Notes(c)
    PROVE  Notes(c)' /\ Serves(c)'
<1>t. /\ pc \in [Clients -> PCs] /\ req \in [Clients -> Requests] /\ prov \in [Clients -> Runs] /\ prov[c] \in Runs
      /\ None \notin Names
  BY ProvidersAssumption DEF Typed, ControlTyped
<1>2. /\ req[c] = NoReq /\ req[c].op = "none" /\ pc[c] = "provision" /\ prov[c].mode # "off"
      /\ UNCHANGED <<row, drawn>>
      /\ prov[c].mode = "dir" => prov[c].todo = {}
  BY DEF Deprovision, Typed, Fits, NoReq
<1>k. /\ prov[c].todo \subseteq prov[c].cfg /\ prov[c].keep \subseteq prov[c].cfg
      /\ prov[c].mode \in {"none", "env"} => \A u \in prov[c].gone : drawn[u] \notin prov[c].cfg
      /\ prov[c].mode = "dir" =>
           \A u \in prov[c].gone : drawn[u] \in prov[c].looked => drawn[u] \in prov[c].keep \/ row[u] = None
      /\ prov[c].mode = "dir" /\ prov[c].clean => \A m \in prov[c].cfg \ prov[c].todo : m \in prov[c].keep
  BY <1>2 DEF Notes
<1>1. ASSUME NEW u \in prov[c].gone, NEW r \in Runs, GoneStep(c, u, r)
      PROVE  Notes(c)' /\ Serves(c)'
  <2>1. /\ prov'[c].mode = prov[c].mode /\ prov'[c].cfg = prov[c].cfg /\ prov'[c].gone = prov[c].gone \ {u}
        /\ prov'[c].todo = prov[c].todo /\ prov'[c].looked = prov[c].looked /\ prov'[c].keep = prov[c].keep
        /\ prov'[c].clean => prov[c].clean
    BY <1>1, <1>t DEF GoneStep, SameRun
  <2>2. Notes(c)'
    BY <1>2, <1>k, <2>1 DEF Notes
  <2>3. CASE UNCHANGED <<pc, req>>
    BY <1>2, <2>2, <2>3, RestServes
  <2>4. CASE Delete(c, u) /\ (prov[c].mode = "dir" => drawn[u] \notin prov[c].keep)
    <3>1. u \in Ids /\ row[u] # None /\ row[u].name = drawn[u]
      <4>1. u \in Ids
        BY <1>t DEF Runs
      <4> QED BY <2>4, <4>1, Named DEF Delete
    <3>2. pc'[c] = "dropSecret" /\ req'[c].op = "delete" /\ req'[c].name = drawn[u]
      BY <1>t, <2>4, <3>1 DEF Delete, Enter
    <3>3. prov[c].clean => drawn[u] \notin prov[c].cfg
      <4>1. CASE prov[c].mode = "dir"
        BY <1>2, <1>k, <2>4, <4>1
      <4>2. CASE prov[c].mode # "dir"
        <5>1. prov[c].mode \in {"none", "env"}
          BY <1>2, <1>t, <4>2 DEF Runs
        <5> QED BY <1>k, <5>1
      <4> QED BY <4>1, <4>2
    <3>4. prov[c].mode = "dir" => drawn[u] \notin prov[c].looked
      BY <1>k, <2>4, <3>1
    <3>5. Serves(c)'
      BY <2>1, <3>2, <3>3, <3>4 DEF Serves, DeletionPCs
    <3> QED BY <2>2, <3>5
  <2> QED BY <1>1, <2>3, <2>4 DEF GoneStep
<1>3. CASE GivesUp(c)
  BY <1>3, <1>t, NotRunningNotes DEF GivesUp
<1> QED BY <1>1, <1>3, <1>t, GoneSteps

\* The client that steps keeps its notes true.
LEMMA OwnNotes ==
    ASSUME Typed, ListedInv, NEW c \in Clients, Routes(c) \/ Steps(c), Notes(c), Serves(c)
    PROVE  Notes(c)' /\ Serves(c)'
<1>1. CASE ProvisionEnds(c)
  <2>1. prov'[c] = NotRunning
    BY <1>1 DEF ProvisionEnds, Typed, ControlTyped
  <2> QED BY <2>1, NotRunningNotes
<1> QED BY <1>1, MoveNotes, RouteNotes, StartNotes, NameNotes, GoneNotes DEF Steps, Moves

\* What begins alone is no longer alone when anything else begins.
LEMMA AloneStep ==
    ASSUME Typed, NEW c \in Clients, Routes(c) \/ Steps(c), \A d \in Clients : Alone(d)
    PROVE  /\ \A d \in Clients : Alone(d)'
           /\ \A d \in Clients \ {c} : prov'[d].alone = FALSE
<1>t. pc \in [Clients -> PCs] /\ prov \in [Clients -> Runs]
  BY DEF Typed, ControlTyped
<1>a. \A d \in Clients : [prov[d] EXCEPT !.alone = FALSE].alone = FALSE /\ prov[d].alone \in BOOLEAN
  BY <1>t DEF Runs
<1>1. ASSUME NEW d \in Clients \ {c} PROVE prov'[d].alone = FALSE
  <2>1. CASE Routes(c) \/ provision_providers(c)
    <3>1. prov'[d] = [prov[d] EXCEPT !.alone = FALSE]
      BY <2>1, RouteBegins DEF Request, provision_providers
    <3> QED BY <1>a, <3>1
  <2>2. CASE Moves(c) \/ ProvisionName(c) \/ Deprovision(c) \/ ProvisionEnds(c)
    <3>1. pc[c] # "idle"
      BY <2>2, MoveEnds DEF ProvisionName, Deprovision, ProvisionEnds, Provisioned
    <3>2. prov[d].alone = FALSE
      BY <1>a, <3>1 DEF Alone
    <3>3. prov'[d] \in {prov[d], [prov[d] EXCEPT !.alone = FALSE]}
      BY FrameStep DEF Frame
    <3> QED BY <1>a, <3>2, <3>3
  <2> QED BY <2>1, <2>2 DEF Steps, Moves
<1>f. \A d \in Clients \ {c} : pc'[d] = pc[d]
  BY FrameStep DEF Frame
<1>2. Alone(c)'
  <2>1. CASE Routes(c)
    BY <1>a, <2>1, RouteBegins DEF Request, Alone
  <2>2. CASE provision_providers(c)
    <3>1. prov'[c].mode # "off" /\ prov'[c].alone = (\A o \in Clients \ {c} : pc[o] = "idle")
      BY <2>2, StartNotes
    <3> QED BY <1>f, <3>1 DEF Alone, Provisioning
  <2>3. CASE prov'[c].alone = prov[c].alone /\ prov'[c].mode = prov[c].mode
    BY <1>f, <2>3 DEF Alone, Provisioning
  <2>4. CASE prov'[c] = NotRunning
    BY <2>4, NotRunningNotes
  <2>5. CASE Moves(c)
    <3>1. (\E p \in PCs : To(c, p)) => prov'[c].alone = prov[c].alone /\ prov'[c].mode = prov[c].mode
      BY DEF To
    <3> QED BY <2>3, <2>4, <2>5, <3>1, MoveEnds, DoneRun, RaiseRun
  <2>6. CASE ProvisionName(c)
    <3>1. ASSUME NEW n \in prov[c].todo, NEW r \in Runs, NameStep(c, n, r)
          PROVE  prov'[c].alone = prov[c].alone /\ prov'[c].mode = prov[c].mode
      BY <1>t, <3>1 DEF NameStep, SameRun
    <3>2. GivesUp(c) => prov'[c] = NotRunning
      BY <1>t DEF GivesUp
    <3> QED BY <1>t, <2>3, <2>4, <2>6, <3>1, <3>2, NameSteps
  <2>7. CASE Deprovision(c)
    <3>1. ASSUME NEW u \in prov[c].gone, NEW r \in Runs, GoneStep(c, u, r)
          PROVE  prov'[c].alone = prov[c].alone /\ prov'[c].mode = prov[c].mode
      BY <1>t, <3>1 DEF GoneStep, SameRun
    <3>2. GivesUp(c) => prov'[c] = NotRunning
      BY <1>t DEF GivesUp
    <3> QED BY <1>t, <2>3, <2>4, <2>7, <3>1, <3>2, GoneSteps
  <2>8. CASE ProvisionEnds(c)
    BY <1>t, <2>4, <2>8 DEF ProvisionEnds
  <2> QED BY <2>1, <2>2, <2>5, <2>6, <2>7, <2>8 DEF Steps, Moves
<1>3. \A d \in Clients \ {c} : Alone(d)'
  BY <1>1 DEF Alone
<1> QED BY <1>1, <1>2, <1>3
-----------------------------------------------------------------------------
\* A name that is installed and listed.
Listed(n) == \E u \in Ids : row[u] # None /\ row[u].name = n /\ u \in secret

\* How far a provisioning that runs alone and raised nothing has come.
Exact(c) ==
    prov[c].alone /\ prov[c].clean =>
        /\ \A n \in prov[c].cfg \ prov[c].todo :
             Listed(n) \/ (req[c].name = n /\ pc[c] \in {"write", "insert", "cleanup", "writeUpdate"})
        /\ \A u \in Ids : row[u] # None /\ row[u].provisioned =>
             row[u].name \in prov[c].cfg \/ u \in prov[c].gone \/ (req[c].op = "delete" /\ req[c].id = u)
        /\ pc[c] = "writeUpdate" => row[req[c].id] # None

\* The step changes neither the configuration, nor what is left of it, nor the snapshot.
SamePlan(c) ==
    /\ prov'[c].cfg = prov[c].cfg /\ prov'[c].todo = prov[c].todo /\ prov'[c].gone = prov[c].gone
    /\ prov'[c].alone = prov[c].alone /\ prov'[c].mode = prov[c].mode /\ prov'[c].clean = prov[c].clean

\* A step of an operation that leaves its provisioning clean changes no plan.
LEMMA MovePlan ==
    ASSUME Typed, NEW c \in Clients, Moves(c), prov'[c].alone, prov'[c].clean
    PROVE  SamePlan(c) /\ ~Raise(c) /\ (Done(c) \/ \E p \in PCs : To(c, p))
<1>1. ~Raise(c)
  <2>1. NotRunning.alone = FALSE
    BY DEF NotRunning
  <2> QED BY <2>1, RaiseRun
<1>2. Done(c) \/ \E p \in PCs : To(c, p)
  BY <1>1, MoveEnds
<1>3. Done(c) => SamePlan(c)
  BY DoneRun DEF SamePlan
<1>4. (\E p \in PCs : To(c, p)) => SamePlan(c)
  BY DEF To, SamePlan
<1> QED BY <1>1, <1>2, <1>3, <1>4

\* The row an installation commits.
LEMMA InsertedRow ==
    ASSUME Typed, NEW c \in Clients, InsertRow(c), ~Raise(c), NEW u \in Ids, u = req[c].id
    PROVE  \/ UNCHANGED row /\ To(c, "cleanup")
           \/ /\ \A v \in Ids : v # u => row'[v] = row[v]
              /\ row'[u] # None /\ row'[u].name = req[c].name
              /\ \E p \in PCs : p # "cleanup" /\ (To(c, p) \/ Done(c))
<1>t. /\ row \in [Ids -> Rows \cup {None}] /\ None \notin Rows /\ req[c].name \in Names
      /\ Provisioning(c) \in BOOLEAN /\ (req[c].op = "install" /\ req[c].name \in Consumers) \in BOOLEAN
  BY DEF Typed, StoresTyped, InsertRow, Fits, Provisioning
<1> DEFINE q == [name |-> req[c].name, provisioned |-> Provisioning(c),
                 consumer |-> req[c].op = "install" /\ req[c].name \in Consumers]
<1>1. \/ UNCHANGED row /\ To(c, "cleanup")
      \/ row' = [row EXCEPT ![u] = q] /\ (To(c, "consume") \/ Succeeds(c))
  BY DEF InsertRow
<1>2. q \in Rows /\ q.name = req[c].name
  BY <1>t DEF Rows
<1> HIDE DEF q
<1>3. ASSUME row' = [row EXCEPT ![u] = q]
      PROVE  /\ \A v \in Ids : v # u => row'[v] = row[v]
             /\ row'[u] # None /\ row'[u].name = req[c].name
  BY <1>t, <1>2, <1>3
<1>4. ASSUME To(c, "consume") \/ Succeeds(c) PROVE \E p \in PCs : p # "cleanup" /\ (To(c, p) \/ Done(c))
  <2>1. "consume" \in PCs /\ "hook" \in PCs
    BY DEF PCs
  <2> QED BY <1>4, <2>1 DEF Succeeds
<1> QED BY <1>1, <1>3, <1>4

\* Where rows and secrets only grow, what was listed stays listed.
LEMMA ListedStays ==
    ASSUME NEW n, Listed(n), \A u \in Ids : row[u] # None /\ row[u].name = n => row'[u] = row[u] /\ (u \in secret => u \in secret')
    PROVE  Listed(n)'
BY DEF Listed

\* The step of an operation and its own provisioning.
LEMMA MoveExact ==
    ASSUME Typed, ListedInv, NEW c \in Clients, Moves(c), Serves(c), Alone(c), Exact(c)
    PROVE  Exact(c)'
<1> SUFFICES ASSUME prov'[c].alone, prov'[c].clean PROVE Exact(c)'
  BY DEF Exact
<1>p. SamePlan(c) /\ ~Raise(c) /\ (Done(c) \/ \E p \in PCs : To(c, p))
  BY MovePlan
<1>t. /\ pc \in [Clients -> PCs] /\ req \in [Clients -> Requests] /\ row \in [Ids -> Rows \cup {None}]
      /\ Fresh(c) /\ Operation(c) /\ None \notin Names /\ None \notin Ids
  BY ProvidersAssumption DEF Typed, ControlTyped, StoresTyped, ListedInv
<1>m. prov[c].alone /\ prov[c].clean /\ Provisioning(c)
  BY <1>p DEF SamePlan, Alone
<1>u. PICK u \in Ids : u = req[c].id /\ req[c].name = drawn[u] /\ req[c].name \in Names
  BY MoveEnds DEF Typed, Fits
<1>e. /\ \A n \in prov[c].cfg \ prov[c].todo :
           Listed(n) \/ (req[c].name = n /\ pc[c] \in {"write", "insert", "cleanup", "writeUpdate"})
      /\ \A v \in Ids : row[v] # None /\ row[v].provisioned =>
           row[v].name \in prov[c].cfg \/ v \in prov[c].gone \/ (req[c].op = "delete" /\ u = v)
      /\ pc[c] = "writeUpdate" => row[u] # None
  BY <1>m, <1>u DEF Exact
<1>o. \A v \in Ids : v # u => row'[v] = row[v] /\ (v \in secret => v \in secret')
  BY <1>u, OthersKept
<1>q. (\E p \in PCs : To(c, p)) => req'[c] = req[c]
  BY DEF To
<1>d. Done(c) => req'[c] = NoReq /\ pc'[c] = "provision"
  BY <1>m, DoneRun
<1>w. pc'[c] # "writeUpdate"
  <2>1. pc'[c] = "writeUpdate" => To(c, "writeUpdate")
    BY <1>d, <1>p, <1>t DEF To
  <2> QED BY <1>d, <1>p, <1>t, <2>1 DEF Moves, WriteSecret, DropTemporary, InsertRow, RemoveSecret, add_consumer,
          DropSecret, CleanUp, DeleteRow, WriteUpdate, CommitUpdate, UseProvider, Hook, Succeeds, To
\* What has to be shown of the names and of the rows.
<1> SUFFICES /\ \A n \in prov[c].cfg \ prov[c].todo :
                  Listed(n)' \/ (req'[c].name = n /\ pc'[c] \in {"write", "insert", "cleanup", "writeUpdate"})
             /\ \A v \in Ids : row'[v] # None /\ row'[v].provisioned =>
                  row'[v].name \in prov[c].cfg \/ v \in prov[c].gone \/ (req'[c].op = "delete" /\ req'[c].id = v)
  BY <1>p, <1>w DEF Exact, SamePlan
<1>1. CASE WriteSecret(c)
  <2>1. req[c].op = "install" /\ pc[c] = "write"
    BY <1>1, <1>m DEF Serves, WriteSecret
  <2>2. UNCHANGED <<row, req>> /\ secret \subseteq secret' /\ pc'[c] = "insert"
    BY <1>1, <1>p, <1>t, <2>1 DEF WriteSecret, To
  <2>3. \A n : Listed(n) => Listed(n)'
    BY <2>2 DEF Listed
  <2> QED BY <1>e, <1>u, <2>1, <2>2, <2>3
<1>2. CASE InsertRow(c)
  <2>1. /\ req[c].op = "install" /\ pc[c] = "insert" /\ req[c].name \in prov[c].cfg
        /\ row[u] = None /\ u \in secret /\ UNCHANGED secret
    BY <1>2, <1>m, <1>t, <1>u DEF Serves, InsertRow, Fresh, Operation, NewPCs
  <2>2. \A n : Listed(n) => Listed(n)'
    BY <1>o, <2>1, ListedStays
  <2>3. CASE UNCHANGED row /\ To(c, "cleanup")
    <3>1. pc'[c] = "cleanup" /\ req'[c] = req[c]
      BY <1>t, <2>3 DEF To
    <3> QED BY <1>e, <1>u, <2>1, <2>2, <2>3, <3>1
  <2>4. CASE row'[u] # None /\ row'[u].name = req[c].name /\ (\A v \in Ids : v # u => row'[v] = row[v])
    <3>1. \A n : n = req[c].name => Listed(n)'
      BY <2>1, <2>4 DEF Listed
    <3>2. \A n \in prov[c].cfg \ prov[c].todo : Listed(n)'
      BY <1>e, <2>2, <3>1
    <3>3. ASSUME NEW v \in Ids, row'[v] # None, row'[v].provisioned
          PROVE  row'[v].name \in prov[c].cfg \/ v \in prov[c].gone
      <4>1. CASE v = u
        BY <2>1, <2>4, <4>1
      <4>2. CASE v # u
        BY <1>e, <2>1, <2>4, <3>3, <4>2
      <4> QED BY <4>1, <4>2
    <3> QED BY <3>2, <3>3
  <2> QED BY <1>2, <1>p, <1>u, <2>3, <2>4, InsertedRow
<1>3. CASE RemoveSecret(c)
  BY <1>3, <1>p DEF RemoveSecret
<1>4. CASE add_consumer(c) \/ Hook(c) \/ CommitUpdate(c)
  <2>1. pc[c] \in {"consume", "hook", "commitUpdate"} /\ UNCHANGED row /\ secret \subseteq secret'
    BY <1>4 DEF add_consumer, Hook, CommitUpdate
  <2>2. req[c].op # "delete"
    BY <1>m, <2>1 DEF Serves
  <2>3. \A n : Listed(n) => Listed(n)'
    BY <2>1 DEF Listed
  <2> QED BY <1>e, <2>1, <2>2, <2>3
<1>5. CASE DropSecret(c) \/ CleanUp(c) \/ DeleteRow(c)
  <2>1. req[c].op = "delete" /\ req[c].name \notin prov[c].cfg /\ pc[c] \in DeletionPCs
    BY <1>5, <1>m DEF Serves, DropSecret, CleanUp, DeleteRow, DeletionPCs
  <2>2. \A v \in Ids : row[v] # None /\ row[v].name \in prov[c].cfg => v # u
    BY <1>u, <2>1, Named
  <2>3. ASSUME NEW n \in prov[c].cfg, Listed(n) PROVE Listed(n)'
    BY <1>o, <2>2, <2>3, ListedStays
  <2>4. \A n \in prov[c].cfg \ prov[c].todo : Listed(n)'
    BY <1>e, <2>1, <2>3 DEF DeletionPCs
  <2>5. CASE DropSecret(c) \/ CleanUp(c)
    <3>1. UNCHANGED row /\ req'[c] = req[c]
      BY <2>5 DEF DropSecret, CleanUp, To
    <3> QED BY <1>e, <1>u, <2>4, <3>1
  <2>6. CASE DeleteRow(c)
    <3>1. row'[u] = None
      BY <1>p, <1>t, <1>u, <2>6 DEF DeleteRow
    <3> QED BY <1>e, <1>o, <2>4, <3>1
  <2> QED BY <1>5, <2>5, <2>6
<1>6. CASE WriteUpdate(c)
  <2>1. /\ pc[c] = "writeUpdate" /\ UNCHANGED <<row, req>> /\ u \in secret' /\ secret \subseteq secret'
        /\ pc'[c] = "commitUpdate" /\ req[c].op = "update"
    BY <1>6, <1>m, <1>p, <1>t, <1>u DEF WriteUpdate, To, Serves
  <2>2. row[u] # None /\ row[u].name = req[c].name
    BY <1>e, <1>u, <2>1, Named
  <2>3. Listed(req[c].name)'
    BY <2>1, <2>2 DEF Listed
  <2>4. \A n : Listed(n) => Listed(n)'
    BY <2>1 DEF Listed
  <2> QED BY <1>e, <2>1, <2>3, <2>4
<1>7. CASE DropTemporary(c) \/ UseProvider(c)
  BY <1>7, <1>m DEF Serves, DropTemporary, UseProvider
<1> QED BY <1>1, <1>2, <1>3, <1>4, <1>5, <1>6, <1>7 DEF Moves
\* A name of the configuration, and a provider of the snapshot, of a provisioning that runs alone.
LEMMA NameExact ==
    ASSUME Typed, NEW c \in Clients, ProvisionName(c), Exact(c)
    PROVE  Exact(c)'
<1>t. /\ pc \in [Clients -> PCs] /\ req \in [Clients -> Requests] /\ prov \in [Clients -> Runs] /\ prov[c] \in Runs
      /\ None \notin Names
  BY ProvidersAssumption DEF Typed, ControlTyped
<1> SUFFICES ASSUME prov'[c].alone, prov'[c].clean PROVE Exact(c)'
  BY DEF Exact
<1>n. ~GivesUp(c)
  <2>1. NotRunning.alone = FALSE
    BY DEF NotRunning
  <2> QED BY <1>t, <2>1 DEF GivesUp
<1>0. PICK n \in prov[c].todo, r \in Runs : NameStep(c, n, r)
  BY <1>n, <1>t, NameSteps
<1>1. /\ prov'[c].cfg = prov[c].cfg /\ prov'[c].gone = prov[c].gone /\ prov'[c].todo = prov[c].todo \ {n}
      /\ prov[c].alone /\ prov[c].clean /\ UNCHANGED <<row, secret>> /\ prov'[c] = r
  BY <1>0, <1>t DEF NameStep, SameRun, ProvisionName
<1>2. req[c].op = "none" /\ req[c].name = None /\ pc[c] = "provision"
  BY DEF ProvisionName, Typed, Fits, NoReq
<1>e. /\ \A m \in prov[c].cfg \ prov[c].todo : Listed(m)
      /\ \A v \in Ids : row[v] # None /\ row[v].provisioned => row[v].name \in prov[c].cfg \/ v \in prov[c].gone
  BY <1>1, <1>2 DEF Exact
<1>l. \A m : Listed(m) => Listed(m)'
  BY <1>1 DEF Listed
<1>3. ASSUME NEW u \in get_provider_by_name(n), Enter(c, "writeUpdate", "update", u, n) PROVE Exact(c)'
  <2>1. req'[c].name = n /\ pc'[c] = "writeUpdate" /\ req'[c].id = u /\ row[u] # None
    BY <1>3, <1>t DEF Enter, get_provider_by_name, Installed
  <2> QED BY <1>1, <1>e, <1>l, <2>1 DEF Exact
<1>4. ASSUME NEW u \in Ids, Enter(c, "write", "install", u, n) PROVE Exact(c)'
  <2>1. req'[c].name = n /\ pc'[c] = "write"
    BY <1>4, <1>t DEF Enter
  <2> QED BY <1>1, <1>e, <1>l, <2>1 DEF Exact
<1> QED BY <1>0, <1>1, <1>3, <1>4 DEF NameStep

\* Deprovisioning keeps the count of what is provisioned exact.
LEMMA GoneExact ==
    ASSUME Typed, NEW c \in Clients, Deprovision(c), Notes(c), Exact(c)
    PROVE  Exact(c)'
<1>t. /\ pc \in [Clients -> PCs] /\ req \in [Clients -> Requests] /\ prov \in [Clients -> Runs] /\ prov[c] \in Runs
  BY DEF Typed, ControlTyped
<1> SUFFICES ASSUME prov'[c].alone, prov'[c].clean PROVE Exact(c)'
  BY DEF Exact
<1>n. ~GivesUp(c)
  <2>1. NotRunning.alone = FALSE
    BY DEF NotRunning
  <2> QED BY <1>t, <2>1 DEF GivesUp
<1>0. PICK u \in prov[c].gone, r \in Runs : GoneStep(c, u, r)
  BY <1>n, <1>t, GoneSteps
<1>1. /\ prov'[c].cfg = prov[c].cfg /\ prov'[c].gone = prov[c].gone \ {u} /\ prov'[c].todo = prov[c].todo
      /\ prov[c].alone /\ prov'[c] = r /\ u \in Ids
  BY <1>0, <1>t DEF GoneStep, SameRun, Runs
<1>2. /\ req[c].op = "none" /\ req[c].name = None /\ pc[c] = "provision" /\ UNCHANGED <<row, secret>>
  BY DEF Deprovision, Typed, Fits, NoReq
<1>3. prov[c].clean
  BY <1>0, <1>1 DEF GoneStep
<1>e. /\ \A m \in prov[c].cfg \ prov[c].todo : Listed(m)
      /\ \A v \in Ids : row[v] # None /\ row[v].provisioned => row[v].name \in prov[c].cfg \/ v \in prov[c].gone
  <2>1. \A m \in prov[c].cfg : m # None
    BY <1>t, ProvidersAssumption DEF Runs
  <2> QED BY <1>1, <1>2, <1>3, <2>1 DEF Exact
<1>l. \A m : Listed(m) => Listed(m)'
  BY <1>2 DEF Listed
<1>4. CASE drawn[u] \in prov[c].keep /\ UNCHANGED <<pc, req>>
  <2>1. row[u] # None => row[u].name \in prov[c].cfg
    BY <1>1, <1>4, Named DEF Notes
  <2> QED BY <1>1, <1>2, <1>4, <1>e, <1>l, <2>1 DEF Exact
<1>5. CASE Delete(c, u)
  <2>1. pc'[c] = "dropSecret" /\ req'[c].op = "delete" /\ req'[c].id = u
    BY <1>5, <1>t DEF Delete, Enter
  <2> QED BY <1>1, <1>2, <1>e, <1>l, <2>1 DEF Exact
<1> QED BY <1>0, <1>1, <1>4, <1>5 DEF GoneStep

\* Every step of the client itself does.
LEMMA OwnExact ==
    ASSUME Typed, ListedInv, NEW c \in Clients, Routes(c) \/ Steps(c), Notes(c), Serves(c), Alone(c), Exact(c)
    PROVE  Exact(c)'
<1>1. CASE Routes(c)
  BY <1>1, RouteNotes DEF Exact
<1>2. CASE provision_providers(c)
  <2>1. /\ prov'[c].todo = prov'[c].cfg
        /\ \A u \in Ids : row[u] # None /\ row[u].provisioned => row[u].name \in prov'[c].cfg \/ u \in prov'[c].gone
    BY <1>2, StartNotes
  <2>2. UNCHANGED row /\ pc'[c] = "provision"
    BY <1>2 DEF provision_providers, Typed, ControlTyped
  <2> QED BY <2>1, <2>2 DEF Exact
<1>3. CASE ProvisionEnds(c)
  <2>1. prov'[c] = NotRunning
    BY <1>3 DEF ProvisionEnds, Typed, ControlTyped
  <2> QED BY <2>1 DEF Exact, NotRunning
<1> QED BY <1>1, <1>2, <1>3, MoveExact, NameExact, GoneExact DEF Steps, Moves

ProvisioningInv == \A c \in Clients : Notes(c) /\ Serves(c) /\ Alone(c) /\ Exact(c)

\* Every step keeps notes, operations, company and exactness of all clients,
LEMMA ProvisioningInvStep == Typed /\ ListedInv /\ ProvisioningInv /\ [Next]_vars => ProvisioningInv'
<1> SUFFICES ASSUME Typed, ListedInv, ProvisioningInv, [Next]_vars PROVE ProvisioningInv'
  OBVIOUS
<1>i. \A c \in Clients : Notes(c) /\ Serves(c) /\ Alone(c) /\ Exact(c)
  BY DEF ProvisioningInv
<1>1. ASSUME NEW c \in Clients, Routes(c) \/ Steps(c) PROVE ProvisioningInv'
  <2>1. Notes(c)' /\ Serves(c)' /\ Exact(c)'
    BY <1>1, <1>i, OwnNotes, OwnExact
  <2>2. /\ \A d \in Clients : Alone(d)'
        /\ \A d \in Clients \ {c} : prov'[d].alone = FALSE
    BY <1>1, <1>i, AloneStep
  <2>3. ASSUME NEW d \in Clients \ {c} PROVE Notes(d)' /\ Serves(d)' /\ Exact(d)'
    <3>1. Exact(d)'
      BY <2>2 DEF Exact
    <3> QED BY <1>1, <1>i, <3>1, OthersNotes
  <2> QED BY <2>1, <2>2, <2>3 DEF ProvisioningInv
<1>2. CASE UNCHANGED <<row, secret, drawn, pc, req, prov>>
  BY <1>2, <1>i DEF ProvisioningInv, Notes, Serves, Alone, Exact, Listed, Provisioning
<1>3. CASE ProcessStep
  BY <1>2, <1>3 DEF ProcessStep, StartConsumers, ShutdownBegins, Shutdown, StopConsumer, ShutdownEnds, Instantiate, historyVars
<1>4. CASE Crash
  <2> SUFFICES ASSUME NEW c \in Clients PROVE Notes(c)' /\ Serves(c)' /\ Alone(c)' /\ Exact(c)'
    BY DEF ProvisioningInv
  <2>1. prov'[c] = NotRunning
    BY <1>4 DEF Crash
  <2>2. Exact(c)'
    BY <2>1 DEF Exact, NotRunning
  <2> QED BY <2>1, <2>2, NotRunningNotes
<1>5. CASE UNCHANGED vars
  BY <1>2, <1>5 DEF vars, asideVars, historyVars
<1> QED BY <1>1, <1>3, <1>4, <1>5 DEF Next, ProcessStep

\* which hold at first, when nobody provisions.
LEMMA ProvisioningInit == Init => ProvisioningInv
<1> SUFFICES ASSUME Init, NEW c \in Clients PROVE Notes(c) /\ Serves(c) /\ Alone(c) /\ Exact(c)
  BY DEF ProvisioningInv
<1>1. prov[c] = NotRunning
  BY DEF Init
<1> QED BY <1>1 DEF Notes, Serves, Alone, Exact, NotRunning, Provisioning

\* provision_providers: a provider whose file the provisioning could read and look
\* up is not deprovisioned by it, and a provisioning that ran alone and raised nothing
\* leaves exactly its configuration (ProvisioningIsExact).
THEOREM ProvisioningTheorem == Spec => []ProvisioningIsExact
<1> DEFINE Inv == Typed /\ ListedInv /\ ProvisioningInv
<1>1. Init => Inv
  BY TypedInit, StoresInit, ProvisioningInit
<1>2. Inv /\ [Next]_vars => Inv'
  BY TypedStep, ListedInvStep, ProvisioningInvStep
<1>3. Inv => ProvisioningIsExact
  <2> SUFFICES ASSUME Inv PROVE ProvisioningIsExact
    OBVIOUS
  <2>1. ReadFilesStay
    <3>1. \A c \in Clients : Serves(c)
      BY DEF ProvisioningInv
    <3> QED BY <3>1 DEF ReadFilesStay, Serves, Provisioning
  <2>2. ASSUME NEW c \in Clients, Provisioned(c), prov[c].alone, prov[c].clean
        PROVE  /\ \A n \in prov[c].cfg : get_provider_by_name(n) \cap get_installed_providers # {}
               /\ \A u \in Installed : row[u].provisioned => row[u].name \in prov[c].cfg
    <3>1. Exact(c) /\ req[c] = NoReq /\ pc[c] = "provision" /\ prov[c].todo = {} /\ prov[c].gone = {}
      BY <2>2 DEF ProvisioningInv, Provisioned, Typed, Fits
    <3>2. req[c].op = "none"
      BY <3>1 DEF NoReq
    <3>3. \A n \in prov[c].cfg : Listed(n)
      BY <2>2, <3>1 DEF Exact
    <3>4. \A u \in Installed : row[u].provisioned => row[u].name \in prov[c].cfg
      BY <2>2, <3>1, <3>2 DEF Exact, Installed
    <3> QED BY <3>3, <3>4 DEF Listed, get_provider_by_name, get_installed_providers, Installed, read_secret
  <2> QED BY <2>1, <2>2 DEF ProvisioningIsExact, ProvisionConverges
<1> QED BY <1>1, <1>2, <1>3, PTL DEF Spec

=============================================================================
