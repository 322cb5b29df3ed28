---------------------------- MODULE RulesProofs ----------------------------
(***************************************************************************)
(* The properties of the module Rules, for every set of names, providers,  *)
(* clients and replicas.                                                   *)
(*                                                                         *)
(* Provisioning settles because a start-up that no other one overlaps is   *)
(* the only one to touch provisioned rules: what it has read stays true of *)
(* the table until it writes, and a request that found a rule free to      *)
(* change finds it so when it commits, since ids are not used twice.  The  *)
(* other tables rest on what an update still has to write, and on the      *)
(* rule and the alert that an execution was given.                         *)
(***************************************************************************)
EXTENDS Rules, TLAPS

\* A row of a table, and the columns an update assigns.
Cells(k) == IF k = "mapping" THEN Bit ELSE 0 .. 2
InTable(k, x) == DOMAIN x = Columns[k] /\ \A f \in Columns[k] : x[f] \in Cells(k)
Assigns(k, want) == DOMAIN want \subseteq Columns[k] /\ \A f \in DOMAIN want : want[f] \in Cells(k)

\* What a request holds at each of its steps.
Held(q) ==
    /\ q.pc = "update" => q.kind \in Kinds /\ Assigns(q.kind, q.want)
    /\ q.pc = "update" /\ q.kind = "maintenance" => \E s, d \in Bit : q.want = Window(s, d)
    /\ q.pc = "remove" => q.kind \in Kinds
    /\ q.pc = "run" => q.kind \in {"mapping", "extraction"}
    /\ q.pc = "run" /\ q.kind = "mapping" => InTable("mapping", q.seen) /\ q.want \in Alerts
    /\ q.pc = "insert" => q.want \in DedupRows /\ ~q.want.provisioned
    /\ q.pc = "change" => q.id \in Ids /\ q.want \in [name : Names, prov : Provs, mode : Modes]
    /\ q.pc = "erase" => q.id \in Ids

\* A deduplication rule of the environment, and one that a request may change.
OfEnv(i) == dedup[i] # None /\ dedup[i].provisioned
FreeToChange(q) == q.pc \in {"change", "erase"} => q.id <= made /\ ~OfEnv(q.id)

Boots == [pc : {"off", "read", "delete", "write"}, env : Envs \cup {None}, known : SUBSET (Names \X Ids),
          stale : SUBSET Ids, done : SUBSET Names, alone : BOOLEAN]

Typed ==
    /\ dedup \in [Ids -> DedupRows \cup {None}] /\ made \in 0 .. MaxRules
    /\ \A i \in Ids : dedup[i] # None => i <= made
    /\ installed \subseteq Provs
    /\ boot \in [Replicas -> Boots] /\ \A r \in Replicas : Booting(r) => boot[r].env \in Envs
    /\ settled \in Envs \cup {None}
    /\ work \in 0 .. MaxWork

RowsTyped ==
    /\ DOMAIN row = Kinds /\ gen \in [Kinds -> Nat] /\ torn \in BOOLEAN
    /\ \A k \in Kinds : row[k] = None \/ InTable(k, row[k])

Requested ==
    /\ DOMAIN req = Clients
    /\ \A c \in Clients : Held(req[c]) /\ FreeToChange(req[c])

\* What a start-up that no other one overlaps knows of the table.
InEnv(n, env) == \E i \in Ids : OfEnv(i) /\ dedup[i].name = n /\ dedup[i].prov = env[n]
Sees(b) ==
    /\ b.pc \in {"read", "delete"} => b.done = {}
    /\ b.pc = "delete" => b.stale = {i \in Ids : OfEnv(i) /\ dedup[i].name \notin DOMAIN b.env}
    /\ b.pc = "write" => \A i \in Ids : OfEnv(i) => dedup[i].name \in DOMAIN b.env
    /\ b.pc \in {"delete", "write"} =>
          \A e \in b.known : e[1] \in DOMAIN b.env => OfEnv(e[2]) /\ dedup[e[2]].name = e[1]
    /\ \A n \in b.done : InEnv(n, b.env)

Booted ==
    /\ settled # None => \A r \in Replicas : ~Booting(r)
    /\ \A r \in Replicas : Booting(r) /\ boot[r].alone =>
          Sees(boot[r]) /\ \A t \in Replicas \ {r} : ~Booting(t)

\* The hash an alert was stored with is that of its value, but for a strict rule.
Hashed ==
    /\ DOMAIN last = Provs /\ missed = FALSE
    /\ \A p \in Provs : last[p] # None =>
          last[p].mode \in Modes /\ (last[p].mode # "strict" => last[p].hash = Hash(last[p].value, 0, last[p].mode))

\* One recorded execution.
ToldRight(e) ==
    /\ e.kind \in {"mapping", "extraction"} /\ e.status \in {"skipped", "failure"}
    /\ e.kind = "mapping" =>
        LET ms == Range(Matchers(e.rule))
            rows == Rows(e.rule)
            hits == {n \in DOMAIN rows : \E m \in ms : Agrees(e.alert, rows[n], m)}
        IN /\ e.status = "skipped" <=> \A m \in ms : \E a \in Range(m) : e.alert[a] = None
           /\ e.status = "failure" /\ e.rule.multi = 0 =>
                \A n \in hits : Added(e.rule, rows[n]) # {} => \E i \in hits : i < n

RulesInv ==
    /\ Typed /\ RowsTyped /\ Requested
    /\ Booted /\ ProvisionSettles
    /\ Hashed /\ WindowEnds
    /\ \A e \in events : ToldRight(e)

-----------------------------------------------------------------------------
(* The parts of the invariant that a step leaves alone. *)

LEMMA RulesAlone ==
    ASSUME Typed, Booted, ProvisionSettles, UNCHANGED <<dedupVars, boot, settled>>,
           installed' \subseteq Provs, work' \in 0 .. MaxWork
    PROVE  Typed' /\ Booted' /\ ProvisionSettles'
<1>1. UNCHANGED <<dedup, made>>
  BY DEF dedupVars
<1>2. Typed'
  BY <1>1 DEF Typed, Booting
<1>3. Booted'
  BY <1>1 DEF Booted, Booting, Sees, InEnv, OfEnv
<1>4. ProvisionSettles'
  BY <1>1 DEF ProvisionSettles
<1> QED
  BY <1>2, <1>3, <1>4

LEMMA RowsAlone ==
    ASSUME RowsTyped, WindowEnds, UNCHANGED rowVars
    PROVE  RowsTyped' /\ WindowEnds'
BY DEF RowsTyped, WindowEnds, rowVars

LEMMA AlertsAlone ==
    ASSUME Hashed, UNCHANGED alertVars
    PROVE  Hashed'
BY DEF Hashed, alertVars

LEMMA EventsAlone ==
    ASSUME \A e \in events : ToldRight(e), UNCHANGED events
    PROVE  \A e \in events' : ToldRight(e)
OBVIOUS

\* The requests, when only one of them moves: ids stay given out, and no rule turns into one of the environment.
LEMMA RequestedStep ==
    ASSUME Requested, NEW c \in Clients, NEW x, Held(x), FreeToChange(x)',
           req' = [req EXCEPT ![c] = x] \/ req' = req,
           \A q : FreeToChange(q) /\ Held(q) => FreeToChange(q)'
    PROVE  Requested'
<1>1. DOMAIN req' = Clients
  BY DEF Requested
<1>2. ASSUME NEW d \in Clients
      PROVE  Held(req[d])' /\ FreeToChange(req[d])'
  <2>1. PICK y : y = req'[d]
    OBVIOUS
  <2>2. y = req[d] \/ y = x
    BY <2>1 DEF Requested
  <2>3. Held(y) /\ FreeToChange(y)'
    BY <2>2 DEF Requested
  <2> QED
    BY <2>1, <2>3 DEF FreeToChange, OfEnv, Held
<1> QED
  BY <1>1, <1>2 DEF Requested

\* A request is done, and the rules are as they were.
LEMMA IdleHeld == Held(Idle) /\ FreeToChange(Idle) /\ FreeToChange(Idle)'
BY DEF Held, FreeToChange, Idle

LEMMA FreeKept ==
    ASSUME UNCHANGED dedupVars
    PROVE  \A q : FreeToChange(q) => FreeToChange(q)'
BY DEF FreeToChange, OfEnv, dedupVars

LEMMA WorkDone ==
    ASSUME Typed, Work
    PROVE  work' \in 0 .. MaxWork
BY RulesAssumption DEF Typed, Work

-----------------------------------------------------------------------------
(* Correlation, mapping, extraction and maintenance rules. *)

\* A request reads, and remembers what it has read.
LEMMA RequestStep ==
    ASSUME RulesInv, NEW c \in Clients, NEW x, Held(x), FreeToChange(x), req' = [req EXCEPT ![c] = x], Work,
           UNCHANGED <<dedupVars, installed, rowVars, boot, events, alertVars, settled>>
    PROVE  RulesInv'
<1>1. Requested'
  BY FreeKept, RequestedStep DEF RulesInv
<1>2. installed' \subseteq Provs /\ work' \in 0 .. MaxWork
  BY WorkDone DEF RulesInv, Typed
<1> QED
  BY <1>1, <1>2, RulesAlone, RowsAlone, AlertsAlone, EventsAlone DEF RulesInv

\* One row is written or removed, and a request may end.
LEMMA RowStep ==
    ASSUME RulesInv, NEW c \in Clients, req' = [req EXCEPT ![c] = Idle] \/ req' = req,
           NEW k \in Kinds, NEW y, y = None \/ InTable(k, y), row' = [row EXCEPT ![k] = y],
           gen' \in [Kinds -> Nat], torn' \in BOOLEAN, k # "maintenance" => torn' = torn,
           k = "maintenance" /\ y # None /\ ~torn' => y.end = y.start + y.duration,
           UNCHANGED <<dedupVars, installed, boot, events, alertVars, settled>>, work' \in 0 .. MaxWork
    PROVE  RulesInv'
<1>1. Requested'
  BY FreeKept, IdleHeld, RequestedStep DEF RulesInv
<1>2. installed' \subseteq Provs
  BY DEF RulesInv, Typed
<1>3. DOMAIN row' = Kinds /\ row'[k] = y /\ \A j \in Kinds \ {k} : row'[j] = row[j]
  BY DEF RulesInv, RowsTyped
<1>4. RowsTyped'
  BY <1>3 DEF RulesInv, RowsTyped
<1>5. "maintenance" \in Kinds
  BY DEF Kinds
<1>6. WindowEnds'
  BY <1>3, <1>5 DEF RulesInv, WindowEnds
<1> QED
  BY <1>1, <1>2, <1>4, <1>6, RulesAlone, AlertsAlone, EventsAlone DEF RulesInv

LEMMA CreateKeepsInv ==
    ASSUME RulesInv, NEW c \in Clients, NEW k \in Kinds, NEW new, InTable(k, new),
           k = "maintenance" => new.end = new.start + new.duration, Create(c, k, new)
    PROVE  RulesInv'
<1>1. /\ Work /\ row' = [row EXCEPT ![k] = new] /\ gen' = [gen EXCEPT ![k] = @ + 1]
      /\ torn' = (torn /\ k # "maintenance")
      /\ UNCHANGED <<dedupVars, installed, req, boot, events, alertVars, settled>>
  BY DEF Create, Begin
<1>2. gen' \in [Kinds -> Nat]
  BY <1>1 DEF RulesInv, RowsTyped
<1>3. torn' \in BOOLEAN /\ (k # "maintenance" => torn' = torn)
  <2>1. torn \in BOOLEAN
    BY DEF RulesInv, RowsTyped
  <2> QED
    BY <1>1, <2>1, Zenon
<1>4. work' \in 0 .. MaxWork
  BY <1>1, WorkDone DEF RulesInv
<1> QED
  BY <1>1, <1>2, <1>3, <1>4, RowStep

LEMMA KindColumns ==
    /\ Columns["correlation"] = {"body", "deleted"} /\ Columns["mapping"] = {"body", "rows", "multi"}
    /\ Columns["extraction"] = {"regex", "priority"} /\ Columns["maintenance"] = {"start", "duration", "end"}
    /\ {"correlation", "mapping", "extraction", "maintenance"} \subseteq Kinds
    /\ Cells("mapping") = 0 .. 1 /\ Cells("correlation") = 0 .. 2 /\ Cells("extraction") = 0 .. 2
    /\ Cells("maintenance") = 0 .. 2
BY DEF Columns, Kinds, Cells, Bit

LEMMA WindowIs ==
    ASSUME NEW s \in Bit, NEW d \in Bit
    PROVE  /\ InTable("maintenance", Window(s, d)) /\ Assigns("maintenance", Window(s, d))
           /\ Window(s, d).end = Window(s, d).start + Window(s, d).duration
BY KindColumns DEF Window, InTable, Assigns, Bit

LEMMA CreatesKeepInv ==
    ASSUME RulesInv, NEW c \in Clients,
           create_rule(c) \/ create_mapping_rule(c) \/ create_extraction_rule(c) \/ create_maintenance_rule(c)
    PROVE  RulesInv'
<1>1. CASE create_rule(c)
  <2>1. PICK b \in Bit : Create(c, "correlation", [body |-> b, deleted |-> 0])
    BY <1>1 DEF create_rule
  <2>2. InTable("correlation", [body |-> b, deleted |-> 0])
    BY KindColumns DEF InTable, Bit
  <2> QED
    BY <2>1, <2>2, KindColumns, CreateKeepsInv
<1>2. CASE create_mapping_rule(c)
  <2>1. PICK b \in Bit, m \in Bit : Create(c, "mapping", [body |-> b, rows |-> 1, multi |-> m])
    BY <1>2 DEF create_mapping_rule
  <2>2. InTable("mapping", [body |-> b, rows |-> 1, multi |-> m])
    BY KindColumns DEF InTable, Bit
  <2> QED
    BY <2>1, <2>2, KindColumns, CreateKeepsInv
<1>3. CASE create_extraction_rule(c)
  <2>1. PICK new \in [Columns.extraction -> Bit] : Create(c, "extraction", new)
    BY <1>3 DEF create_extraction_rule
  <2>2. InTable("extraction", new)
    BY KindColumns DEF InTable, Bit, Columns
  <2> QED
    BY <2>1, <2>2, KindColumns, CreateKeepsInv
<1>4. CASE create_maintenance_rule(c)
  <2>1. PICK s \in Bit, d \in Bit : Create(c, "maintenance", Window(s, d))
    BY <1>4 DEF create_maintenance_rule
  <2> QED
    BY <2>1, WindowIs, KindColumns, CreateKeepsInv
<1> QED
  BY <1>1, <1>2, <1>3, <1>4

\* What Select puts in the request.
Selected(k, pc, want) == [Idle EXCEPT !.pc = pc, !.kind = k, !.gen = gen[k], !.seen = row[k], !.want = want]

LEMMA SelectKeepsInv ==
    ASSUME RulesInv, NEW c \in Clients, NEW k \in Kinds, NEW pc \in {"update", "remove", "run"}, NEW want,
           pc = "update" => Assigns(k, want),
           pc = "update" /\ k = "maintenance" => \E s, d \in Bit : want = Window(s, d),
           pc = "run" => k \in {"mapping", "extraction"},
           pc = "run" /\ k = "mapping" => want \in Alerts,
           Select(c, k, pc, want)
    PROVE  RulesInv'
<1>1. PICK x : x = Selected(k, pc, want)
  OBVIOUS
<1>2. x.pc = pc /\ x.kind = k /\ x.seen = row[k] /\ x.want = want
  BY <1>1 DEF Selected, Idle
<1>3. row[k] # None /\ Work /\ req' = [req EXCEPT ![c] = x]
      /\ UNCHANGED <<dedupVars, installed, rowVars, boot, events, alertVars, settled>>
  BY <1>1 DEF Select, Begin, Selected
<1>4. InTable(k, row[k])
  BY <1>3 DEF RulesInv, RowsTyped
<1>5. Held(x)
  BY <1>2, <1>4 DEF Held
<1>6. FreeToChange(x)
  BY <1>2 DEF FreeToChange
<1> QED
  BY <1>3, <1>5, <1>6, RequestStep

LEMMA UpdatesKeepInv ==
    ASSUME RulesInv, NEW c \in Clients,
           update_rule(c) \/ update_mapping_rule(c) \/ update_extraction_rule(c) \/ update_maintenance_rule(c) \/ delete_rule(c)
    PROVE  RulesInv'
<1>1. CASE update_rule(c)
  <2>1. PICK b \in Bit : Select(c, "correlation", "update", [body |-> b])
    BY <1>1 DEF update_rule
  <2>2. Assigns("correlation", [body |-> b])
    BY KindColumns DEF Assigns, Bit
  <2> QED
    BY <2>1, <2>2, KindColumns, SelectKeepsInv
<1>2. CASE update_mapping_rule(c)
  <2>1. PICK want \in [{"body"} -> Bit] \cup [{"body", "rows"} -> Bit] : Select(c, "mapping", "update", want)
    BY <1>2 DEF update_mapping_rule
  <2>2. Assigns("mapping", want)
    BY KindColumns DEF Assigns, Bit
  <2> QED
    BY <2>1, <2>2, KindColumns, SelectKeepsInv
<1>3. CASE update_extraction_rule(c)
  <2>1. PICK want \in [{"regex"} -> Bit] \cup [Columns.extraction -> Bit] : Select(c, "extraction", "update", want)
    BY <1>3 DEF update_extraction_rule
  <2>2. Assigns("extraction", want)
    BY KindColumns DEF Assigns, Bit, Columns
  <2> QED
    BY <2>1, <2>2, KindColumns, SelectKeepsInv
<1>4. CASE update_maintenance_rule(c)
  <2>1. PICK s \in Bit, d \in Bit : Select(c, "maintenance", "update", Window(s, d))
    BY <1>4 DEF update_maintenance_rule
  <2>2. PICK want : want = Window(s, d)
    OBVIOUS
  <2>3. Assigns("maintenance", want)
    BY <2>2, WindowIs
  <2> QED
    BY <2>1, <2>2, <2>3, KindColumns, SelectKeepsInv
<1>5. CASE delete_rule(c)
  <2>1. Select(c, "correlation", "update", [deleted |-> 1])
    BY <1>5 DEF delete_rule
  <2>2. Assigns("correlation", [deleted |-> 1])
    BY KindColumns DEF Assigns
  <2> QED
    BY <2>1, <2>2, KindColumns, SelectKeepsInv
<1> QED
  BY <1>1, <1>2, <1>3, <1>4, <1>5

LEMMA OtherSelectsKeepInv ==
    ASSUME RulesInv, NEW c \in Clients,
           \/ delete_mapping_rule(c) \/ delete_extraction_rule(c) \/ delete_maintenance_rule(c)
           \/ execute_rule(c) \/ execute_extraction_rule(c)
    PROVE  RulesInv'
<1>1. CASE delete_mapping_rule(c) \/ delete_extraction_rule(c) \/ delete_maintenance_rule(c)
  BY <1>1, KindColumns, SelectKeepsInv DEF delete_mapping_rule, delete_extraction_rule, delete_maintenance_rule
<1>2. CASE execute_rule(c)
  <2>1. PICK alert \in Alerts : Select(c, "mapping", "run", alert)
    BY <1>2 DEF execute_rule
  <2> QED
    BY <2>1, KindColumns, SelectKeepsInv
<1>3. CASE execute_extraction_rule(c)
  BY <1>3, KindColumns, SelectKeepsInv DEF execute_extraction_rule
<1> QED
  BY <1>1, <1>2, <1>3

\* What is written is the row as it is now but for the columns the request assigns.
LEMMA FlushIs ==
    ASSUME NEW k \in Kinds, NEW now, InTable(k, now), NEW seen, NEW want, Assigns(k, want)
    PROVE  /\ InTable(k, Flush(now, seen, want))
           /\ \A f \in Columns[k] : Flush(now, seen, want)[f] # now[f] =>
                 f \in DOMAIN want /\ Flush(now, seen, want)[f] = want[f]
           /\ now = seen => \A f \in DOMAIN want : Flush(now, seen, want)[f] = want[f]
BY DEF Flush, InTable, Assigns

LEMMA CommitUpdateKeepsInv ==
    ASSUME RulesInv, NEW c \in Clients, CommitUpdate(c)
    PROVE  RulesInv'
<1>1. PICK q : q = req[c]
  OBVIOUS
<1>2. PICK k \in Kinds : k = q.kind
  BY <1>1 DEF CommitUpdate, RulesInv, Requested, Held
<1>3. q.pc = "update" /\ Held(q) /\ Assigns(k, q.want)
  BY <1>1, <1>2 DEF CommitUpdate, RulesInv, Requested, Held
<1>4. PICK there \in BOOLEAN : there <=> row[k] # None /\ gen[k] = q.gen
  OBVIOUS
<1>5. /\ row' = [row EXCEPT ![k] = IF there THEN Flush(@, q.seen, q.want) ELSE @]
      /\ torn' = IF there /\ k = "maintenance" THEN row[k] # q.seen ELSE torn
      /\ req' = [req EXCEPT ![c] = Idle]
      /\ UNCHANGED <<dedupVars, installed, gen, boot, events, alertVars, work, settled>>
  BY <1>1, <1>2, <1>4 DEF CommitUpdate, Done
<1>6. gen' \in [Kinds -> Nat] /\ work' \in 0 .. MaxWork /\ torn \in BOOLEAN /\ DOMAIN row = Kinds
      /\ (row[k] = None \/ InTable(k, row[k]))
  BY <1>5 DEF RulesInv, RowsTyped, Typed
<1>7. CASE ~there
  <2>1. PICK y : y = row[k]
    OBVIOUS
  <2>2. row' = [row EXCEPT ![k] = y] /\ torn' = torn
    BY <1>5, <1>7, <2>1
  <2>3. k = "maintenance" /\ y # None /\ ~torn' => y.end = y.start + y.duration
    BY <2>1, <2>2 DEF RulesInv, WindowEnds
  <2> QED
    BY <1>5, <1>6, <2>1, <2>2, <2>3, RowStep
<1>8. CASE there
  <2>1. PICK y : y = Flush(row[k], q.seen, q.want)
    OBVIOUS
  <2>2. row' = [row EXCEPT ![k] = y]
    BY <1>5, <1>8, <2>1
  <2>3. InTable(k, row[k])
    BY <1>4, <1>6, <1>8
  <2>4. InTable(k, y) /\ (row[k] = q.seen => \A f \in DOMAIN q.want : y[f] = q.want[f])
    BY <1>3, <2>1, <2>3, FlushIs
  <2>5. torn' \in BOOLEAN /\ (k # "maintenance" => torn' = torn)
    BY <1>5, <1>6, Zenon
  <2>6. ASSUME k = "maintenance", ~torn'
        PROVE  y.end = y.start + y.duration
    <3>1. row[k] = q.seen
      BY <1>5, <1>8, <2>6
    <3>2. PICK s \in Bit, d \in Bit : q.want = Window(s, d)
      BY <1>2, <1>3, <2>6 DEF Held
    <3>3. DOMAIN q.want = {"start", "duration", "end"} /\ q.want.end = q.want.start + q.want.duration
      BY <3>2 DEF Window
    <3> QED
      BY <2>4, <3>1, <3>3
  <2> QED
    BY <1>5, <1>6, <2>2, <2>4, <2>5, <2>6, RowStep
<1> QED
  BY <1>7, <1>8

LEMMA CommitRemoveKeepsInv ==
    ASSUME RulesInv, NEW c \in Clients, CommitRemove(c)
    PROVE  RulesInv'
<1>1. PICK k \in Kinds : k = req[c].kind
  BY DEF CommitRemove, RulesInv, Requested, Held
<1>2. PICK y : y = IF gen[k] = req[c].gen THEN None ELSE row[k]
  OBVIOUS
<1>3. /\ row' = [row EXCEPT ![k] = y] /\ req' = [req EXCEPT ![c] = Idle]
      /\ UNCHANGED <<dedupVars, installed, gen, torn, boot, events, alertVars, work, settled>>
  BY <1>1, <1>2 DEF CommitRemove, Done
<1>4. y = None \/ (y = row[k] /\ InTable(k, y))
  BY <1>2 DEF RulesInv, RowsTyped
<1>5. gen' \in [Kinds -> Nat] /\ work' \in 0 .. MaxWork /\ torn' \in BOOLEAN /\ torn' = torn
  BY <1>3 DEF RulesInv, RowsTyped, Typed
<1>6. k = "maintenance" /\ y # None /\ ~torn' => y.end = y.start + y.duration
  BY <1>4, <1>5 DEF RulesInv, WindowEnds
<1> QED
  BY <1>3, <1>4, <1>5, <1>6, RowStep

-----------------------------------------------------------------------------
(* What a mapping rule does to an alert. *)

LEMMA FirstOfTwo ==
    ASSUME NEW S \in SUBSET (1 .. 2), S # {}
    PROVE  Min(S) \in S /\ \A n \in S : Min(S) <= n
<1>1. \E x \in S : \A y \in S : x <= y
  <2>1. CASE 1 \in S
    BY <2>1
  <2>2. CASE 1 \notin S
    <3>1. \A y \in S : y = 2
      BY <2>2
    <3>2. PICK x \in S : x = 2
      BY <3>1
    <3>3. 2 <= 2
      OBVIOUS
    <3> QED
      BY <3>1, <3>2, <3>3, Zenon
  <2> QED
    BY <2>1, <2>2
<1> QED
  BY <1>1, Zenon DEF Min

LEMMA FirstNotIs ==
    ASSUME NEW s, NEW v, DOMAIN s \subseteq 1 .. 2
    PROVE  /\ (\A i \in DOMAIN s : s[i] = v) => FirstNot(s, v) = v
           /\ (\E i \in DOMAIN s : s[i] # v) => \E i \in DOMAIN s : s[i] # v /\ FirstNot(s, v) = s[i]
<1>1. PICK at : at = {i \in DOMAIN s : s[i] # v}
  OBVIOUS
<1>2. FirstNot(s, v) = IF at = {} THEN v ELSE s[Min(at)]
  BY <1>1 DEF FirstNot
<1>3. at # {} => Min(at) \in at
  BY <1>1, FirstOfTwo
<1> QED
  BY <1>1, <1>2, <1>3

\* What a row asks of one attribute.
Asks(pattern, value) == pattern = "*" \/ value = pattern \/ (value # None /\ Found(pattern, value))

LEMMA VerdictIs ==
    ASSUME NEW value \in Values, NEW pattern
    PROVE  /\ Verdict(value, pattern) = "yes" => Asks(pattern, value)
           /\ Asks(pattern, value) => Verdict(value, pattern) # "no"
<1>1. None # "db" /\ None # "*"
  BY RulesAssumption
<1>2. CASE value # None /\ pattern = "*"
  <2>1. Verdict(value, pattern) = "error"
    BY <1>2 DEF Verdict
  <2> QED
    BY <2>1
<1>3. CASE value # None /\ pattern \notin {None, "*"}
  <2>1. Verdict(value, pattern) = IF Found(pattern, value) THEN "yes" ELSE "no"
    BY <1>3 DEF Verdict
  <2>2. value = pattern => Found(pattern, value)
    BY DEF Found
  <2> QED
    BY <1>3, <2>1, <2>2 DEF Asks
<1>4. CASE value = None \/ pattern = None
  <2>1. Verdict(value, pattern) = IF value = pattern \/ pattern = "*" THEN "yes" ELSE "no"
    BY <1>1, <1>4 DEF Verdict
  <2>2. pattern = None /\ value # None => ~Found(pattern, value)
    BY <1>1 DEF Found
  <2> QED
    BY <1>4, <2>1, <2>2 DEF Asks
<1> QED
  BY <1>2, <1>3, <1>4

LEMMA MatcherIs ==
    ASSUME NEW alert \in Alerts, NEW r, NEW m, DOMAIN m \subseteq 1 .. 2, Range(m) \subseteq Attributes
    PROVE  /\ _check_matcher(alert, r, m) = "yes" => Agrees(alert, r, m)
           /\ Agrees(alert, r, m) => _check_matcher(alert, r, m) # "no"
<1>1. PICK s : s = [i \in DOMAIN m |-> Verdict(alert[m[i]], r[m[i]])]
  OBVIOUS
<1>2. _check_matcher(alert, r, m) = FirstNot(s, "yes") /\ DOMAIN s = DOMAIN m
  BY <1>1 DEF _check_matcher
<1>3. Agrees(alert, r, m) <=> \A i \in DOMAIN m : Asks(r[m[i]], alert[m[i]])
  BY DEF Agrees, Asks, Range
<1>4. ASSUME NEW i \in DOMAIN m
      PROVE  (s[i] = "yes" => Asks(r[m[i]], alert[m[i]])) /\ (Asks(r[m[i]], alert[m[i]]) => s[i] # "no")
  <2>1. alert[m[i]] \in Values
    BY DEF Range, Alerts
  <2> QED
    BY <1>1, <2>1, VerdictIs
<1>5. ASSUME FirstNot(s, "yes") = "yes"
      PROVE  \A i \in DOMAIN m : s[i] = "yes"
  BY <1>2, <1>5, FirstNotIs
<1>6. ASSUME \A i \in DOMAIN m : s[i] # "no"
      PROVE  FirstNot(s, "yes") # "no"
  BY <1>2, <1>6, FirstNotIs
<1> QED
  BY <1>2, <1>3, <1>4, <1>5, <1>6

MappingRule(rule) == rule.body \in Bit /\ rule.rows \in Bit /\ rule.multi \in Bit

LEMMA MatchersAre ==
    ASSUME NEW rule
    PROVE  /\ DOMAIN Matchers(rule) \subseteq 1 .. 2 /\ DOMAIN Matchers(rule) # {} /\ DOMAIN Rows(rule) \subseteq 1 .. 2
           /\ \A i \in DOMAIN Matchers(rule) :
                 DOMAIN Matchers(rule)[i] \subseteq 1 .. 2 /\ Range(Matchers(rule)[i]) \subseteq Attributes
<1>1. DOMAIN Rows(rule) \subseteq 1 .. 2
  <2>1. CASE rule.rows = 0
    <3>1. Rows(rule) = << >>
      BY <2>1 DEF Rows
    <3> QED
      BY <3>1
  <2>2. CASE rule.rows # 0
    <3>1. PICK a, b : Rows(rule) = <<a, b>>
      BY <2>2 DEF Rows
    <3> QED
      BY <3>1
  <2> QED
    BY <2>1, <2>2
<1>2. CASE rule.body = 0
  <2>1. Matchers(rule) = <<<<"app", "site">>>>
    BY <1>2 DEF Matchers
  <2> QED
    BY <1>1, <2>1 DEF Range, Attributes
<1>3. CASE rule.body # 0
  <2>1. Matchers(rule) = <<<<"app">>, <<"site">>>>
    BY <1>3 DEF Matchers
  <2> QED
    BY <1>1, <2>1 DEF Range, Attributes
<1> QED
  BY <1>2, <1>3

LEMMA CheckRange ==
    ASSUME NEW alert \in Alerts, NEW r, NEW m, DOMAIN m \subseteq 1 .. 2, Range(m) \subseteq Attributes
    PROVE  _check_matcher(alert, r, m) \in {"yes", "no", "error"}
<1>1. PICK s : s = [i \in DOMAIN m |-> Verdict(alert[m[i]], r[m[i]])]
  OBVIOUS
<1>2. _check_matcher(alert, r, m) = FirstNot(s, "yes") /\ DOMAIN s = DOMAIN m
  BY <1>1 DEF _check_matcher
<1>3. \A value, pattern : Verdict(value, pattern) \in {"yes", "no", "error"}
  BY DEF Verdict
<1>4. \A i \in DOMAIN s : s[i] \in {"yes", "no", "error"}
  BY <1>1, <1>3
<1> QED
  BY <1>2, <1>4, FirstNotIs

\* Some matcher of the rule accepts the row.
AgreesWith(rule, alert, r) == \E m \in Range(Matchers(rule)) : Agrees(alert, r, m)

LEMMA ScanIs ==
    ASSUME NEW rule, NEW alert \in Alerts
    PROVE  /\ Scan(rule, alert) \in {-1, 0} \cup DOMAIN Rows(rule)
           /\ Scan(rule, alert) = 0 => \A n \in DOMAIN Rows(rule) : ~AgreesWith(rule, alert, Rows(rule)[n])
           /\ Scan(rule, alert) \notin {-1, 0} =>
                 /\ AgreesWith(rule, alert, Rows(rule)[Scan(rule, alert)])
                 /\ \A n \in DOMAIN Rows(rule) : AgreesWith(rule, alert, Rows(rule)[n]) => Scan(rule, alert) <= n
<1>1. PICK ms : ms = Matchers(rule)
  OBVIOUS
<1>2. PICK rows : rows = Rows(rule)
  OBVIOUS
<1>3. PICK checks : checks = [n \in DOMAIN rows |-> [i \in DOMAIN ms |-> _check_matcher(alert, rows[n], ms[i])]]
  OBVIOUS
<1>4. PICK tests : tests = [n \in DOMAIN rows |-> FirstNot(checks[n], "no")]
  OBVIOUS
<1>5. tests = [n \in DOMAIN Rows(rule) |->
                 FirstNot([i \in DOMAIN ms |-> _check_matcher(alert, Rows(rule)[n], ms[i])], "no")]
  BY <1>2, <1>3, <1>4
<1>6. PICK hits : hits = {n \in DOMAIN tests : tests[n] # "no"}
  OBVIOUS
<1>7. Scan(rule, alert) = IF hits = {} THEN 0 ELSE IF tests[Min(hits)] = "error" THEN -1 ELSE Min(hits)
  BY <1>1, <1>5, <1>6, Zenon DEF Scan
<1>8. DOMAIN ms \subseteq 1 .. 2 /\ DOMAIN rows \subseteq 1 .. 2
      /\ \A i \in DOMAIN ms : DOMAIN ms[i] \subseteq 1 .. 2 /\ Range(ms[i]) \subseteq Attributes
  BY <1>1, <1>2, MatchersAre
<1>9. ASSUME NEW n \in DOMAIN rows
      PROVE  /\ tests[n] \notin {"no", "error"} => AgreesWith(rule, alert, rows[n])
             /\ AgreesWith(rule, alert, rows[n]) => tests[n] # "no"
  <2>1. PICK s : s = checks[n]
    OBVIOUS
  <2>2. DOMAIN s = DOMAIN ms /\ tests[n] = FirstNot(s, "no")
        /\ \A i \in DOMAIN ms : s[i] = _check_matcher(alert, rows[n], ms[i])
    BY <1>3, <1>4, <2>1
  <2>3. \A i \in DOMAIN ms : /\ s[i] = "yes" => Agrees(alert, rows[n], ms[i])
                             /\ Agrees(alert, rows[n], ms[i]) => s[i] # "no"
    BY <1>8, <2>2, MatcherIs
  <2>4. AgreesWith(rule, alert, rows[n]) <=> \E i \in DOMAIN ms : Agrees(alert, rows[n], ms[i])
    BY <1>1 DEF AgreesWith, Range
  <2>5. \A i \in DOMAIN ms : s[i] \in {"yes", "no", "error"}
    BY <1>8, <2>2, CheckRange
  <2>6. /\ (\A i \in DOMAIN s : s[i] = "no") => FirstNot(s, "no") = "no"
        /\ (\E i \in DOMAIN s : s[i] # "no") => \E i \in DOMAIN s : s[i] # "no" /\ FirstNot(s, "no") = s[i]
    BY <1>8, <2>2, FirstNotIs
  <2> QED
    BY <2>2, <2>3, <2>4, <2>5, <2>6
<1>10. DOMAIN tests = DOMAIN rows /\ hits \in SUBSET (1 .. 2)
  BY <1>4, <1>6, <1>8
<1>11. hits # {} => Min(hits) \in hits /\ \A n \in hits : Min(hits) <= n
  BY <1>10, FirstOfTwo
<1>12. CASE hits = {}
  <2>1. Scan(rule, alert) = 0
    BY <1>7, <1>12
  <2>2. \A n \in DOMAIN rows : ~AgreesWith(rule, alert, rows[n])
    BY <1>6, <1>9, <1>10, <1>12
  <2> QED
    BY <1>2, <2>1, <2>2
<1>13. CASE hits # {} /\ tests[Min(hits)] = "error"
  <2>1. Scan(rule, alert) = -1
    BY <1>7, <1>13
  <2> QED
    BY <2>1
<1>14. CASE hits # {} /\ tests[Min(hits)] # "error"
  <2>1. PICK n \in hits : n = Min(hits)
    BY <1>11, <1>14
  <2>2. Scan(rule, alert) = n
    BY <1>7, <1>14, <2>1
  <2>3. n \in DOMAIN rows /\ AgreesWith(rule, alert, rows[n])
    BY <1>6, <1>9, <1>10, <1>14, <2>1
  <2>4. \A m \in DOMAIN rows : AgreesWith(rule, alert, rows[m]) => n <= m
    BY <1>6, <1>9, <1>10, <1>11, <1>14, <2>1
  <2>5. n # -1 /\ n # 0
    BY <1>10
  <2> QED
    BY <1>2, <2>2, <2>3, <2>4, <2>5
<1> QED
  BY <1>12, <1>13, <1>14

\* The alert has all that some matcher needs.
Complete(rule, alert) == \E m \in Range(Matchers(rule)) : \A a \in Range(m) : alert[a] # None

LEMMA CheckIs ==
    ASSUME NEW rule, MappingRule(rule), NEW alert \in Alerts, check_if_match_and_enrich(rule, alert) # "raised"
    PROVE  /\ check_if_match_and_enrich(rule, alert) \in {"skipped", "failure"}
           /\ check_if_match_and_enrich(rule, alert) = "skipped" <=> ~Complete(rule, alert)
           /\ check_if_match_and_enrich(rule, alert) = "failure" /\ rule.multi = 0 =>
                 \/ Scan(rule, alert) = 0
                 \/ Scan(rule, alert) \in DOMAIN Rows(rule) /\ Added(rule, Rows(rule)[Scan(rule, alert)]) = {}
<1>1. PICK n : n = Scan(rule, alert)
  OBVIOUS
<1>2. n \in {-1, 0} \cup DOMAIN Rows(rule) /\ DOMAIN Rows(rule) \subseteq 1 .. 2
  BY <1>1, ScanIs, MatchersAre
<1>3. Complete(rule, alert) <=> \E i \in DOMAIN Matchers(rule) : \A a \in Range(Matchers(rule)[i]) : alert[a] # None
  BY DEF Complete, Range
<1>4. CASE ~Complete(rule, alert)
  <2>1. check_if_match_and_enrich(rule, alert) = "skipped"
    BY <1>3, <1>4 DEF check_if_match_and_enrich
  <2> QED
    BY <1>4, <2>1
<1>5. CASE Complete(rule, alert) /\ rule.multi = 1
  <2>1. check_if_match_and_enrich(rule, alert) = MultiLevel(rule, alert)
    BY <1>3, <1>5 DEF check_if_match_and_enrich
  <2>2. MultiLevel(rule, alert) \in {"failure", "raised"}
    BY DEF MultiLevel
  <2> QED
    BY <1>5, <2>1, <2>2
<1>6. CASE Complete(rule, alert) /\ rule.multi = 0
  <2>1. check_if_match_and_enrich(rule, alert) =
          CASE rule.multi = 1 -> MultiLevel(rule, alert)
            [] rule.multi = 0 /\ n = 0 -> "failure"
            [] rule.multi = 0 /\ n = -1 -> "raised"
            [] rule.multi = 0 /\ n > 0 -> IF Added(rule, Rows(rule)[n]) = {} THEN "failure" ELSE "raised"
    BY <1>1, <1>3, <1>6, Zenon DEF check_if_match_and_enrich
  <2>2. CASE n = 0
    <3>1. check_if_match_and_enrich(rule, alert) = "failure"
      BY <1>6, <2>1, <2>2
    <3> QED
      BY <1>1, <1>6, <2>2, <3>1
  <2>3. CASE n = -1
    <3>1. check_if_match_and_enrich(rule, alert) = "raised"
      BY <1>6, <2>1, <2>3
    <3> QED
      BY <3>1
  <2>4. CASE n \in DOMAIN Rows(rule)
    <3>1. n > 0 /\ n # 0 /\ n # -1
      BY <1>2, <2>4
    <3>2. check_if_match_and_enrich(rule, alert) = IF Added(rule, Rows(rule)[n]) = {} THEN "failure" ELSE "raised"
      BY <1>6, <2>1, <3>1
    <3> QED
      BY <1>1, <1>6, <2>4, <3>2
  <2> QED
    BY <1>2, <2>2, <2>3, <2>4
<1> QED
  BY <1>4, <1>5, <1>6 DEF MappingRule, Bit

LEMMA RunIsRight ==
    ASSUME NEW e, e.kind = "mapping", MappingRule(e.rule), e.alert \in Alerts,
           e.status = check_if_match_and_enrich(e.rule, e.alert), e.status # "raised"
    PROVE  ToldRight(e)
<1>1. PICK rule : rule = e.rule /\ MappingRule(rule)
  OBVIOUS
<1>2. PICK alert \in Alerts : alert = e.alert
  OBVIOUS
<1>3. PICK n : n = Scan(rule, alert)
  OBVIOUS
<1>4. /\ e.status \in {"skipped", "failure"}
      /\ e.status = "skipped" <=> ~Complete(rule, alert)
      /\ e.status = "failure" /\ rule.multi = 0 =>
            n = 0 \/ (n \in DOMAIN Rows(rule) /\ Added(rule, Rows(rule)[n]) = {})
  BY <1>1, <1>2, <1>3, CheckIs
<1>5. PICK hits : hits = {m \in DOMAIN Rows(rule) : AgreesWith(rule, alert, Rows(rule)[m])}
  OBVIOUS
<1>6. ASSUME e.status = "failure", rule.multi = 0
      PROVE  \A m \in hits : Added(rule, Rows(rule)[m]) # {} => \E i \in hits : i < m
  <2>1. CASE n = 0
    BY <1>3, <1>5, <2>1, ScanIs
  <2>2. CASE n \in DOMAIN Rows(rule) /\ Added(rule, Rows(rule)[n]) = {}
    <3>1. DOMAIN Rows(rule) \subseteq 1 .. 2
      BY MatchersAre
    <3>2. n \in hits /\ \A m \in hits : n <= m
      BY <1>3, <1>5, <2>2, <3>1, ScanIs
    <3>3. ASSUME NEW m \in hits, Added(rule, Rows(rule)[m]) # {}
          PROVE  n < m
      <4>1. m # n
        BY <2>2, <3>3
      <4>2. m \in 1 .. 2 /\ n \in 1 .. 2 /\ n <= m
        BY <1>5, <3>1, <3>2
      <4> QED
        BY <4>1, <4>2
    <3> QED
      BY <3>2, <3>3
  <2> QED
    BY <1>4, <1>6, <2>1, <2>2
<1>7. e.status = "skipped" <=> \A m \in Range(Matchers(e.rule)) : \E a \in Range(m) : e.alert[a] = None
  BY <1>1, <1>2, <1>4 DEF Complete
<1>8. hits = {m \in DOMAIN Rows(e.rule) : \E x \in Range(Matchers(e.rule)) : Agrees(e.alert, Rows(e.rule)[m], x)}
  BY <1>1, <1>2, <1>5 DEF AgreesWith
<1> QED
  BY <1>1, <1>2, <1>4, <1>6, <1>7, <1>8 DEF ToldRight

LEMMA RunRuleKeepsInv ==
    ASSUME RulesInv, NEW c \in Clients, RunRule(c)
    PROVE  RulesInv'
<1>1. PICK q : q = req[c]
  OBVIOUS
<1>2. q.pc = "run" /\ Held(q)
  BY <1>1 DEF RunRule, RulesInv, Requested
<1>3. req' = [req EXCEPT ![c] = Idle]
      /\ UNCHANGED <<dedupVars, installed, rowVars, boot, alertVars, work, settled>>
  BY DEF RunRule, Done
<1>4. PICK status : /\ status \in IF q.kind = "mapping" THEN {check_if_match_and_enrich(q.seen, q.want)}
                                                        ELSE run_extraction_rules
                    /\ IF status = "raised" THEN UNCHANGED events
                       ELSE _track_enrichment_event(q.kind, q.seen, q.want, status)
  BY <1>1 DEF RunRule
<1>5. \A e \in events' : ToldRight(e)
  <2>1. CASE events' = events
    BY <2>1 DEF RulesInv
  <2>2. CASE status # "raised" /\ events' = events \cup {[kind |-> q.kind, rule |-> q.seen, alert |-> q.want, status |-> status]}
    <3>1. PICK e : e = [kind |-> q.kind, rule |-> q.seen, alert |-> q.want, status |-> status]
      OBVIOUS
    <3>2. e.kind = q.kind /\ e.rule = q.seen /\ e.alert = q.want /\ e.status = status
      BY <3>1
    <3>3. CASE q.kind = "mapping"
      <4>1. InTable("mapping", q.seen) /\ q.want \in Alerts
        BY <1>2, <3>3 DEF Held
      <4>2. MappingRule(q.seen)
        BY <4>1, KindColumns DEF InTable, MappingRule, Bit
      <4>3. status = check_if_match_and_enrich(q.seen, q.want)
        BY <1>4, <3>3
      <4>4. ToldRight(e)
        BY <2>2, <3>2, <3>3, <4>1, <4>2, <4>3, RunIsRight
      <4> QED
        BY <2>2, <3>1, <4>4 DEF RulesInv
    <3>4. CASE q.kind # "mapping"
      <4>1. q.kind = "extraction"
        BY <1>2, <3>4 DEF Held
      <4>2. status = "skipped"
        BY <1>4, <2>2, <3>4 DEF run_extraction_rules
      <4>3. ToldRight(e)
        BY <3>2, <4>1, <4>2 DEF ToldRight
      <4> QED
        BY <2>2, <3>1, <4>3 DEF RulesInv
    <3> QED
      BY <3>3, <3>4
  <2> QED
    BY <1>4, <2>1, <2>2 DEF _track_enrichment_event
<1>6. Requested'
  BY <1>3, FreeKept, IdleHeld, RequestedStep DEF RulesInv
<1>7. installed' \subseteq Provs /\ work' \in 0 .. MaxWork
  BY <1>3 DEF RulesInv, Typed
<1> QED
  BY <1>3, <1>5, <1>6, <1>7, RulesAlone, RowsAlone, AlertsAlone DEF RulesInv

-----------------------------------------------------------------------------
(* Deduplication rules. *)

LEMMA ProviderChangesKeepsInv ==
    ASSUME RulesInv, ProviderChanges
    PROVE  RulesInv'
<1>1. Work /\ UNCHANGED <<dedupVars, rowVars, req, boot, events, alertVars, settled>>
  BY DEF ProviderChanges
<1>2. installed' \subseteq Provs
  BY DEF ProviderChanges, RulesInv, Typed
<1>3. Requested'
  BY <1>1, FreeKept DEF RulesInv, Requested, FreeToChange, OfEnv, dedupVars
<1> QED
  BY <1>1, <1>2, <1>3, WorkDone, RulesAlone, RowsAlone, AlertsAlone, EventsAlone DEF RulesInv

\* A rule that no request or start-up changes, and that is not the environment's.
Wanted(pc, i, want) == [Idle EXCEPT !.pc = pc, !.id = i, !.want = want]

LEMMA AskRuleKeepsInv ==
    ASSUME RulesInv, NEW c \in Clients,
           create_deduplication_rule(c) \/ update_deduplication_rule(c) \/ delete_deduplication_rule(c)
    PROVE  RulesInv'
<1>1. CASE create_deduplication_rule(c)
  <2>0. PICK readable \in SUBSET installed, sampled \in SUBSET {q \in Provs : last[q] # None} :
          \E p \in readable \cup get_linked_providers(sampled), n \in Names, m \in Modes :
             req' = [req EXCEPT ![c] = [Idle EXCEPT !.pc = "insert",
                       !.want = [name |-> n, prov |-> p, mode |-> m, provisioned |-> FALSE]]]
    BY <1>1 DEF create_deduplication_rule
  <2>1. PICK p \in readable \cup get_linked_providers(sampled), n \in Names, m \in Modes :
          req' = [req EXCEPT ![c] = [Idle EXCEPT !.pc = "insert",
                    !.want = [name |-> n, prov |-> p, mode |-> m, provisioned |-> FALSE]]]
    BY <2>0
  <2>2. PICK w : w = [name |-> n, prov |-> p, mode |-> m, provisioned |-> FALSE]
    OBVIOUS
  <2>3. p \in Provs
    BY <2>0, <2>1 DEF get_linked_providers, RulesInv, Typed
  <2>4. w \in DedupRows
    BY <2>2, <2>3 DEF DedupRows
  <2>5. ~w.provisioned
    BY <2>2
  <2>6. PICK x : x = [Idle EXCEPT !.pc = "insert", !.want = w]
    OBVIOUS
  <2>7. x.pc = "insert" /\ x.want = w
    BY <2>6 DEF Idle
  <2>8. Held(x) /\ FreeToChange(x)
    BY <2>4, <2>5, <2>7 DEF Held, FreeToChange
  <2>9. req' = [req EXCEPT ![c] = x]
    BY <2>1, <2>2, <2>6
  <2> QED
    BY <1>1, <2>8, <2>9, RequestStep DEF create_deduplication_rule, Begin
<1>2. CASE update_deduplication_rule(c)
  <2>1. PICK i \in Ids, n \in Names, p \in Provs, m \in Modes :
          /\ MayChange(dedup[i])
          /\ req' = [req EXCEPT ![c] = [Idle EXCEPT !.pc = "change", !.id = i,
                       !.want = [name |-> n, prov |-> p, mode |-> m]]]
    BY <1>2 DEF update_deduplication_rule
  <2>2. PICK w : w = [name |-> n, prov |-> p, mode |-> m]
    OBVIOUS
  <2>3. PICK x : x = [Idle EXCEPT !.pc = "change", !.id = i, !.want = w]
    OBVIOUS
  <2>4. x.pc = "change" /\ x.id = i /\ x.want = w
    BY <2>3 DEF Idle
  <2>5. w \in [name : Names, prov : Provs, mode : Modes]
    BY <2>2
  <2>6. i <= made /\ ~OfEnv(i)
    BY <2>1 DEF MayChange, OfEnv, RulesInv, Typed
  <2>7. Held(x) /\ FreeToChange(x)
    BY <2>4, <2>5, <2>6 DEF Held, FreeToChange
  <2>8. req' = [req EXCEPT ![c] = x]
    BY <2>1, <2>2, <2>3
  <2> QED
    BY <1>2, <2>7, <2>8, RequestStep DEF update_deduplication_rule, Begin
<1>3. CASE delete_deduplication_rule(c)
  <2>1. PICK i \in Ids : MayChange(dedup[i]) /\ req' = [req EXCEPT ![c] = [Idle EXCEPT !.pc = "erase", !.id = i]]
    BY <1>3 DEF delete_deduplication_rule
  <2>2. PICK x : x = [Idle EXCEPT !.pc = "erase", !.id = i]
    OBVIOUS
  <2>3. x.pc = "erase" /\ x.id = i
    BY <2>2 DEF Idle
  <2>4. i <= made /\ ~OfEnv(i)
    BY <2>1 DEF MayChange, OfEnv, RulesInv, Typed
  <2>5. Held(x) /\ FreeToChange(x)
    BY <2>3, <2>4 DEF Held, FreeToChange
  <2>6. req' = [req EXCEPT ![c] = x]
    BY <2>1, <2>2
  <2> QED
    BY <1>3, <2>5, <2>6, RequestStep DEF delete_deduplication_rule, Begin
<1> QED
  BY <1>1, <1>2, <1>3

\* The rules of the environment stay as they are.
LEMMA EnvRulesKept ==
    ASSUME Booted, ProvisionSettles, UNCHANGED <<boot, settled>>,
           \A i \in Ids : (OfEnv(i)' <=> OfEnv(i)) /\ (OfEnv(i) => dedup'[i] = dedup[i]),
           boot \in [Replicas -> Boots]
    PROVE  Booted' /\ ProvisionSettles'
<1>1. \A n, env : InEnv(n, env) => InEnv(n, env)'
  BY DEF InEnv
<1>2. ASSUME NEW b, Sees(b), b \in Boots
      PROVE  Sees(b)'
  <2>1. \A e \in b.known : e[2] \in Ids
    BY <1>2 DEF Boots
  <2>2. b.pc = "delete" => b.stale = {i \in Ids : OfEnv(i)' /\ dedup'[i].name \notin DOMAIN b.env}
    <3>1. \A i \in Ids : OfEnv(i) /\ dedup[i].name \notin DOMAIN b.env <=> OfEnv(i)' /\ dedup'[i].name \notin DOMAIN b.env
      OBVIOUS
    <3> QED
      BY <1>2, <3>1 DEF Sees
  <2>3. b.pc = "write" => \A i \in Ids : OfEnv(i)' => dedup'[i].name \in DOMAIN b.env
    BY <1>2 DEF Sees
  <2>4. b.pc \in {"delete", "write"} =>
          \A e \in b.known : e[1] \in DOMAIN b.env => OfEnv(e[2])' /\ dedup'[e[2]].name = e[1]
    BY <1>2, <2>1 DEF Sees
  <2>5. \A n \in b.done : InEnv(n, b.env)'
    BY <1>1, <1>2 DEF Sees
  <2>6. b.pc \in {"read", "delete"} => b.done = {}
    BY <1>2 DEF Sees
  <2> QED
    BY <2>2, <2>3, <2>4, <2>5, <2>6 DEF Sees
<1>3. Booted'
  <2>1. \A r \in Replicas : Booting(r)' <=> Booting(r)
    BY DEF Booting
  <2>2. settled' # None => \A r \in Replicas : ~Booting(r)'
    BY <2>1 DEF Booted
  <2>3. ASSUME NEW r \in Replicas, Booting(r)', boot'[r].alone
        PROVE  Sees(boot[r])' /\ \A t \in Replicas \ {r} : ~Booting(t)'
    <3>1. PICK b \in Boots : b = boot[r]
      OBVIOUS
    <3>2. Sees(b) /\ \A t \in Replicas \ {r} : ~Booting(t)
      BY <2>1, <2>3, <3>1 DEF Booted
    <3>3. Sees(b)'
      BY <1>2, <3>2
    <3>4. Sees(boot[r])'
      BY <3>1, <3>3 DEF Sees, InEnv
    <3> QED
      BY <2>1, <3>2, <3>4
  <2> QED
    BY <2>2, <2>3 DEF Booted
<1>4. ProvisionSettles'
  <2> SUFFICES ASSUME settled # None
               PROVE  /\ \A n \in DOMAIN settled : InEnv(n, settled)'
                      /\ \A i \in Ids : OfEnv(i)' => dedup'[i].name \in DOMAIN settled
    BY DEF ProvisionSettles, InEnv, OfEnv
  <2>1. \A n \in DOMAIN settled : InEnv(n, settled)
    BY DEF ProvisionSettles, InEnv, OfEnv
  <2>2. \A i \in Ids : OfEnv(i) => dedup[i].name \in DOMAIN settled
    BY DEF ProvisionSettles, OfEnv
  <2> QED
    BY <1>1, <2>1, <2>2
<1> QED
  BY <1>3, <1>4

\* A request writes one rule that is not the environment's.
LEMMA RuleStep ==
    ASSUME RulesInv, NEW c \in Clients, req' = [req EXCEPT ![c] = Idle],
           NEW i \in Ids, ~OfEnv(i), NEW v \in DedupRows \cup {None}, v = None \/ ~v.provisioned,
           dedup' = [dedup EXCEPT ![i] = v], made' \in 0 .. MaxRules, made <= made', v # None => i <= made',
           UNCHANGED <<installed, rowVars, boot, events, alertVars, work, settled>>
    PROVE  RulesInv'
<1>1. dedup \in [Ids -> DedupRows \cup {None}] /\ made \in 0 .. MaxRules
  BY DEF RulesInv, Typed
<1>2. dedup' \in [Ids -> DedupRows \cup {None}] /\ dedup'[i] = v /\ \A j \in Ids \ {i} : dedup'[j] = dedup[j]
  BY <1>1
<1>3. \A j \in Ids : j \in Nat
  BY DEF Ids
<1>4. \A j \in Ids : dedup'[j] # None => j <= made'
  <2>1. \A j \in Ids : dedup[j] # None => j <= made
    BY DEF RulesInv, Typed
  <2>2. \A j \in Ids : j <= made => j <= made'
    BY <1>1, <1>3
  <2> QED
    BY <1>2, <2>1, <2>2
<1>5. \A j \in Ids : (OfEnv(j)' <=> OfEnv(j)) /\ (OfEnv(j) => dedup'[j] = dedup[j])
  BY <1>2 DEF OfEnv
<1>6. Typed'
  BY <1>2, <1>4 DEF RulesInv, Typed, Booting
<1>7. Booted' /\ ProvisionSettles'
  BY <1>5, EnvRulesKept DEF RulesInv, Typed
<1>8. \A q : FreeToChange(q) /\ Held(q) => FreeToChange(q)'
  <2>1. ASSUME NEW q, FreeToChange(q), Held(q), q.pc \in {"change", "erase"}
        PROVE  q.id <= made' /\ ~OfEnv(q.id)'
    <3>1. q.id \in Ids
      BY <2>1 DEF Held
    <3>2. q.id <= made /\ ~OfEnv(q.id)
      BY <2>1 DEF FreeToChange
    <3>3. q.id <= made'
      BY <1>1, <1>3, <3>1, <3>2
    <3> QED
      BY <1>5, <3>1, <3>2, <3>3
  <2> QED
    BY <2>1 DEF FreeToChange
<1>9. Requested'
  BY <1>8, IdleHeld, RequestedStep DEF RulesInv
<1> QED
  BY <1>6, <1>7, <1>9, RowsAlone, AlertsAlone, EventsAlone DEF RulesInv

\* A new id: nothing is known by it.
LEMMA NewId ==
    ASSUME Typed, made < MaxRules
    PROVE  /\ made + 1 \in Ids /\ made + 1 \in 0 .. MaxRules /\ made <= made + 1 /\ made + 1 <= made + 1
           /\ dedup[made + 1] = None /\ ~OfEnv(made + 1)
<1>1. /\ made + 1 \in Ids /\ made + 1 \in 0 .. MaxRules /\ made <= made + 1 /\ made + 1 <= made + 1
      /\ ~(made + 1 <= made)
  BY RulesAssumption DEF Typed, Ids
<1>2. dedup[made + 1] = None
  BY <1>1 DEF Typed
<1> QED
  BY <1>1, <1>2 DEF OfEnv

\* A rule that is changed keeps its origin.
LEMMA ChangeIs ==
    ASSUME Typed, NEW i \in Ids, NEW n \in Names, NEW p \in Provs, NEW m \in Modes, Change(i, n, p, m)
    PROVE  \E v \in DedupRows \cup {None} :
              /\ dedup' = [dedup EXCEPT ![i] = v]
              /\ dedup[i] = None => v = None
              /\ dedup[i] # None => v # None /\ v.name = n /\ v.prov = p /\ v.provisioned = dedup[i].provisioned
<1>1. dedup[i] \in DedupRows \cup {None}
  BY DEF Typed
<1>2. CASE dedup[i] = None
  BY <1>2 DEF Change
<1>3. CASE dedup[i] # None
  <2>1. PICK d \in DedupRows : d = dedup[i]
    BY <1>1, <1>3
  <2>2. PICK v : v = [d EXCEPT !.name = n, !.prov = p, !.mode = m]
    OBVIOUS
  <2>3. v \in DedupRows /\ v.name = n /\ v.prov = p /\ v.provisioned = d.provisioned
    BY <2>2 DEF DedupRows
  <2>4. v # None
    BY <2>3, RulesAssumption DEF DedupRows, Modes
  <2>5. dedup' = [dedup EXCEPT ![i] = v]
    BY <1>3, <2>1, <2>2 DEF Change
  <2> QED
    BY <1>3, <2>1, <2>3, <2>4, <2>5
<1> QED
  BY <1>2, <1>3

LEMMA InsertRuleKeepsInv ==
    ASSUME RulesInv, NEW c \in Clients, InsertRule(c)
    PROVE  RulesInv'
<1>1. PICK v : v = req[c].want
  OBVIOUS
<1>2. v \in DedupRows /\ ~v.provisioned
  BY <1>1 DEF InsertRule, RulesInv, Requested, Held
<1>3. /\ made < MaxRules /\ made' = made + 1 /\ dedup' = [dedup EXCEPT ![made + 1] = v]
      /\ req' = [req EXCEPT ![c] = Idle]
      /\ UNCHANGED <<installed, rowVars, boot, events, alertVars, work, settled>>
  BY <1>1 DEF InsertRule, Insert, Done
<1>4. PICK i : i = made + 1
  OBVIOUS
<1>5. i \in Ids /\ ~OfEnv(i) /\ made' \in 0 .. MaxRules /\ made <= made' /\ i <= made'
  BY <1>3, <1>4, NewId DEF RulesInv
<1>6. dedup' = [dedup EXCEPT ![i] = v]
  BY <1>3, <1>4
<1> QED
  BY <1>2, <1>3, <1>5, <1>6, RuleStep

LEMMA ChangeRuleKeepsInv ==
    ASSUME RulesInv, NEW c \in Clients, ChangeRule(c) \/ EraseRule(c)
    PROVE  RulesInv'
<1>1. PICK q : q = req[c]
  OBVIOUS
<1>2. /\ q.pc \in {"change", "erase"} /\ Held(q) /\ FreeToChange(q)
      /\ req' = [req EXCEPT ![c] = Idle]
      /\ UNCHANGED <<made, installed, rowVars, boot, events, alertVars, work, settled>>
  BY <1>1 DEF ChangeRule, EraseRule, Done, RulesInv, Requested
<1>3. PICK i \in Ids : i = q.id /\ ~OfEnv(i) /\ i <= made
  BY <1>2 DEF Held, FreeToChange
<1>4. made' \in 0 .. MaxRules /\ made <= made' /\ i <= made'
  BY <1>2, <1>3 DEF RulesInv, Typed
<1>5. CASE ChangeRule(c)
  <2>1. Change(i, q.want.name, q.want.prov, q.want.mode)
    BY <1>1, <1>3, <1>5 DEF ChangeRule
  <2>2. q.want.name \in Names /\ q.want.prov \in Provs /\ q.want.mode \in Modes
    BY <1>1, <1>2, <1>5 DEF ChangeRule, Held
  <2>3. PICK v \in DedupRows \cup {None} :
              /\ dedup' = [dedup EXCEPT ![i] = v]
              /\ dedup[i] = None => v = None
              /\ dedup[i] # None => v.provisioned = dedup[i].provisioned
    BY <2>1, <2>2, ChangeIs DEF RulesInv
  <2>4. v = None \/ ~v.provisioned
    BY <1>3, <2>3 DEF OfEnv
  <2> QED
    BY <1>2, <1>3, <1>4, <2>3, <2>4, RuleStep
<1>6. CASE EraseRule(c)
  <2>1. dedup' = [dedup EXCEPT ![i] = None]
    BY <1>1, <1>3, <1>6 DEF EraseRule, Erase
  <2> QED
    BY <1>2, <1>3, <1>4, <2>1, RuleStep
<1> QED
  BY <1>5, <1>6

-----------------------------------------------------------------------------
(* Provisioning. *)

LEMMA EnvIs ==
    ASSUME NEW env \in Envs
    PROVE  DOMAIN env \subseteq Names /\ \A n \in DOMAIN env : env[n] \in Provs
BY DEF Envs

LEMMA OffIs == Off \in Boots /\ Off.pc = "off"
BY DEF Off, Boots

\* One start-up moves, while it may write a rule; the others are not alone.
LEMMA BootStep ==
    ASSUME RulesInv, NEW r \in Replicas, NEW o, o = boot[r], o.pc # "off",
           NEW b \in Boots, boot' = [boot EXCEPT ![r] = b], b.pc # "off" => b.env = o.env /\ b.alone = o.alone,
           b.pc # "off" /\ Sees(o) => Sees(b)',
           dedup' \in [Ids -> DedupRows \cup {None}], made' \in 0 .. MaxRules, made <= made',
           \A i \in Ids : dedup'[i] # None => i <= made',
           \A i \in Ids : i <= made /\ ~OfEnv(i) => ~OfEnv(i)',
           UNCHANGED <<BootIdle, work, settled>>
    PROVE  RulesInv'
<1>1. boot' \in [Replicas -> Boots] /\ boot'[r] = b /\ \A t \in Replicas \ {r} : boot'[t] = boot[t]
  BY DEF RulesInv, Typed
<1>2. UNCHANGED <<installed, rowVars, req, events, alertVars, work, settled>>
  BY DEF BootIdle
<1>3. Booting(r)
  BY DEF Booting
<1>4. settled = None /\ \A t \in Replicas \ {r} : ~(Booting(t) /\ boot[t].alone)
  BY <1>3 DEF RulesInv, Booted
<1>5. Typed'
  <2>1. ASSUME NEW t \in Replicas, boot'[t].pc # "off"
        PROVE  boot'[t].env \in Envs
    BY <1>1, <1>3, <2>1 DEF RulesInv, Typed, Booting
  <2> QED
    BY <1>1, <1>2, <2>1 DEF RulesInv, Typed, Booting
<1>6. Booted'
  <2>1. ASSUME NEW t \in Replicas, boot'[t].pc # "off", boot'[t].alone
        PROVE  Sees(boot[t])' /\ \A u \in Replicas \ {t} : ~(boot'[u].pc # "off")
    <3>1. t = r
      BY <1>1, <1>4, <2>1 DEF Booting
    <3>2. b.pc # "off" /\ b.alone
      BY <1>1, <2>1, <3>1
    <3>3. Sees(o) /\ \A u \in Replicas \ {r} : ~Booting(u)
      BY <1>3, <3>2 DEF RulesInv, Booted
    <3>4. Sees(b)'
      BY <3>2, <3>3
    <3>5. Sees(boot[t])'
      BY <1>1, <3>1, <3>4 DEF Sees, InEnv
    <3> QED
      BY <1>1, <3>1, <3>3, <3>5 DEF Booting
  <2> QED
    BY <1>2, <1>4, <2>1 DEF Booted, Booting
<1>7. ProvisionSettles'
  BY <1>2, <1>4 DEF ProvisionSettles
<1>8. Requested'
  <2>1. made \in 0 .. MaxRules /\ \A i \in Ids : i \in Nat
    BY DEF RulesInv, Typed, Ids
  <2>2. ASSUME NEW q, FreeToChange(q), Held(q), q.pc \in {"change", "erase"}
        PROVE  q.id <= made' /\ ~OfEnv(q.id)'
    <3>1. q.id \in Ids /\ q.id <= made /\ ~OfEnv(q.id)
      BY <2>2 DEF Held, FreeToChange
    <3>2. q.id <= made'
      BY <2>1, <3>1
    <3> QED
      BY <3>1, <3>2
  <2>3. \A q : FreeToChange(q) /\ Held(q) => FreeToChange(q)'
    BY <2>2 DEF FreeToChange
  <2>4. ASSUME NEW c \in Clients
        PROVE  Held(req[c])' /\ FreeToChange(req[c])'
    <3>1. PICK y : y = req[c]
      OBVIOUS
    <3>2. Held(y) /\ FreeToChange(y)'
      BY <2>3, <3>1 DEF RulesInv, Requested
    <3> QED
      BY <1>2, <3>1, <3>2 DEF FreeToChange, OfEnv, Held
  <2> QED
    BY <1>2, <2>4 DEF RulesInv, Requested
<1> QED
  BY <1>2, <1>5, <1>6, <1>7, <1>8, RowsAlone, AlertsAlone, EventsAlone DEF RulesInv

\* The same, for a step that writes no rule.
LEMMA BootReads ==
    ASSUME RulesInv, NEW r \in Replicas, NEW o, o = boot[r], o.pc # "off",
           NEW b \in Boots, boot' = [boot EXCEPT ![r] = b], b.pc # "off" => b.env = o.env /\ b.alone = o.alone,
           b.pc # "off" /\ Sees(o) => Sees(b),
           UNCHANGED <<dedupVars, BootIdle, work, settled>>
    PROVE  RulesInv'
<1>1. UNCHANGED <<dedup, made>>
  BY DEF dedupVars
<1>2. Sees(b) => Sees(b)'
  BY <1>1 DEF Sees, InEnv, OfEnv
<1>3. /\ dedup' \in [Ids -> DedupRows \cup {None}] /\ made' \in 0 .. MaxRules /\ made <= made'
      /\ \A i \in Ids : dedup'[i] # None => i <= made'
  BY <1>1 DEF RulesInv, Typed
<1>4. \A i \in Ids : ~OfEnv(i) => ~OfEnv(i)'
  BY <1>1 DEF OfEnv
<1> QED
  BY <1>2, <1>3, <1>4, BootStep

LEMMA ReadProvisionedKeepsInv ==
    ASSUME RulesInv, NEW r \in Replicas, ReadProvisioned(r)
    PROVE  RulesInv'
<1>1. PICK o : o = boot[r]
  OBVIOUS
<1>2. PICK mine : mine = {i \in Ids : OfEnv(i)}
  OBVIOUS
<1>3. mine = {i \in Ids : dedup[i] # None /\ dedup[i].provisioned}
  BY <1>2 DEF OfEnv
<1>4. o.pc = "read" /\ UNCHANGED <<dedupVars, BootIdle, work, settled>>
  BY <1>1 DEF ReadProvisioned
<1>5. PICK ids \in SUBSET mine :
        boot' = [boot EXCEPT ![r].pc = "delete", ![r].known = {<<dedup[i].name, i>> : i \in ids},
                   ![r].stale = {i \in mine : dedup[i].name \notin DOMAIN boot[r].env}]
  BY <1>3 DEF ReadProvisioned
<1>6. PICK known : known = {<<dedup[i].name, i>> : i \in ids}
  OBVIOUS
<1>7. PICK stale : stale = {i \in mine : dedup[i].name \notin DOMAIN o.env}
  OBVIOUS
<1>8. o \in Boots /\ boot \in [Replicas -> Boots]
  BY <1>1 DEF RulesInv, Typed
<1>9. PICK b : b = [o EXCEPT !.pc = "delete", !.known = known, !.stale = stale]
  OBVIOUS
<1>10. boot' = [boot EXCEPT ![r] = b]
  BY <1>1, <1>5, <1>6, <1>7, <1>8, <1>9
<1>11. known \subseteq Names \X Ids
  <2>1. \A i \in mine : dedup[i].name \in Names /\ i \in Ids
    BY <1>3 DEF RulesInv, Typed, DedupRows
  <2> QED
    BY <1>6, <2>1
<1>12. stale \subseteq Ids
  BY <1>2, <1>7
<1>13. b \in Boots /\ b.pc = "delete" /\ b.env = o.env /\ b.alone = o.alone /\ b.known = known /\ b.stale = stale
       /\ b.done = o.done
  BY <1>8, <1>9, <1>11, <1>12 DEF Boots
<1>14. Sees(o) => Sees(b)
  <2> SUFFICES ASSUME Sees(o) PROVE Sees(b)
    OBVIOUS
  <2>1. b.done = {}
    BY <1>4, <1>13 DEF Sees
  <2>2. b.stale = {i \in Ids : OfEnv(i) /\ dedup[i].name \notin DOMAIN b.env}
    BY <1>2, <1>7, <1>13
  <2>3. \A e \in b.known : OfEnv(e[2]) /\ dedup[e[2]].name = e[1]
    BY <1>2, <1>6, <1>13
  <2> QED
    BY <1>13, <2>1, <2>2, <2>3 DEF Sees
<1> QED
  BY <1>1, <1>4, <1>10, <1>13, <1>14, BootReads

LEMMA DeleteStaleKeepsInv ==
    ASSUME RulesInv, NEW r \in Replicas, DeleteStale(r) \/ StaleGone(r)
    PROVE  RulesInv'
<1>1. PICK o : o = boot[r]
  OBVIOUS
<1>2. o.pc = "delete" /\ o \in Boots /\ boot \in [Replicas -> Boots]
  BY <1>1 DEF DeleteStale, StaleGone, RulesInv, Typed
<1>3. CASE DeleteStale(r)
  <2>1. PICK i \in o.stale : Erase(i) /\ boot' = [boot EXCEPT ![r].stale = @ \ {i}]
    BY <1>1, <1>3 DEF DeleteStale
  <2>2. i \in Ids /\ UNCHANGED <<made, BootIdle, work, settled>>
    BY <1>2, <1>3 DEF DeleteStale, Boots
  <2>3. PICK b : b = [o EXCEPT !.stale = o.stale \ {i}]
    OBVIOUS
  <2>4. boot' = [boot EXCEPT ![r] = b]
    BY <1>1, <1>2, <2>1, <2>3
  <2>5. b \in Boots /\ b.pc = o.pc /\ b.env = o.env /\ b.alone = o.alone /\ b.known = o.known /\ b.done = o.done
        /\ b.stale = o.stale \ {i}
    BY <1>2, <2>3 DEF Boots
  <2>6. dedup \in [Ids -> DedupRows \cup {None}]
    BY DEF RulesInv, Typed
  <2>7. dedup' \in [Ids -> DedupRows \cup {None}] /\ dedup'[i] = None /\ \A j \in Ids \ {i} : dedup'[j] = dedup[j]
    BY <2>1, <2>2, <2>6 DEF Erase
  <2>8. ~OfEnv(i)' /\ \A j \in Ids \ {i} : OfEnv(j)' <=> OfEnv(j)
    BY <2>7 DEF OfEnv
  <2>9. /\ made' \in 0 .. MaxRules /\ made <= made'
        /\ \A j \in Ids : dedup'[j] # None => j <= made'
    BY <2>2, <2>7 DEF RulesInv, Typed
  <2>10. Sees(o) => Sees(b)'
    <3> SUFFICES ASSUME Sees(o) PROVE Sees(b)'
      OBVIOUS
    <3>1. b.done = {}
      BY <1>2, <2>5 DEF Sees
    <3>2. o.stale = {j \in Ids : OfEnv(j) /\ dedup[j].name \notin DOMAIN o.env}
      BY <1>2 DEF Sees
    <3>3. b.stale = {j \in Ids : OfEnv(j)' /\ dedup'[j].name \notin DOMAIN b.env}
      BY <2>5, <2>7, <2>8, <3>2
    <3>4. ASSUME NEW e \in b.known, e[1] \in DOMAIN b.env
          PROVE  OfEnv(e[2])' /\ dedup'[e[2]].name = e[1]
      <4>1. e[2] \in Ids /\ OfEnv(e[2]) /\ dedup[e[2]].name = e[1]
        BY <1>2, <2>5, <3>4 DEF Sees, Boots
      <4>2. e[2] # i
        BY <2>5, <3>2, <3>4, <4>1
      <4> QED
        BY <2>7, <2>8, <4>1, <4>2
    <3> QED
      BY <1>2, <2>5, <3>1, <3>3, <3>4 DEF Sees
  <2> QED
    BY <1>1, <1>2, <2>2, <2>4, <2>5, <2>7, <2>8, <2>9, <2>10, BootStep
<1>4. CASE StaleGone(r)
  <2>1. o.stale = {} /\ boot' = [boot EXCEPT ![r].pc = "write"] /\ UNCHANGED <<dedupVars, BootIdle, work, settled>>
    BY <1>1, <1>4 DEF StaleGone
  <2>2. PICK b : b = [o EXCEPT !.pc = "write"]
    OBVIOUS
  <2>3. boot' = [boot EXCEPT ![r] = b]
    BY <1>1, <1>2, <2>1, <2>2
  <2>4. b \in Boots /\ b.pc = "write" /\ b.env = o.env /\ b.alone = o.alone /\ b.known = o.known /\ b.done = o.done
    BY <1>2, <2>2 DEF Boots
  <2>5. Sees(o) => Sees(b)
    BY <1>2, <2>1, <2>4 DEF Sees
  <2> QED
    BY ZenonT(30), <1>1, <1>2, <2>1, <2>3, <2>4, <2>5, BootReads
<1> QED
  BY <1>3, <1>4

LEMMA ProvisionNameKeepsInv ==
    ASSUME RulesInv, NEW r \in Replicas, ProvisionName(r)
    PROVE  RulesInv'
<1>1. PICK o : o = boot[r]
  OBVIOUS
<1>2. o.pc = "write" /\ o \in Boots /\ boot \in [Replicas -> Boots] /\ o.env \in Envs
      /\ UNCHANGED <<BootIdle, work, settled>>
  BY <1>1 DEF ProvisionName, RulesInv, Typed, Booting
<1>3. PICK n \in DOMAIN o.env \ o.done : Provision(r, n) /\ boot' = [boot EXCEPT ![r].done = @ \cup {n}]
  BY <1>1 DEF ProvisionName
<1>4. n \in Names /\ o.env[n] \in Provs
  BY <1>2, EnvIs
<1>5. PICK b : b = [o EXCEPT !.done = o.done \cup {n}]
  OBVIOUS
<1>6. boot' = [boot EXCEPT ![r] = b]
  BY <1>1, <1>2, <1>3, <1>5
<1>7. b \in Boots /\ b.pc = "write" /\ b.env = o.env /\ b.alone = o.alone /\ b.known = o.known /\ b.done = o.done \cup {n}
  BY <1>2, <1>4, <1>5 DEF Boots
<1>8. dedup \in [Ids -> DedupRows \cup {None}] /\ made \in 0 .. MaxRules /\ \A i \in Ids : dedup[i] # None => i <= made
  BY DEF RulesInv, Typed
<1>9. \A i \in Ids : i \in Nat
  BY DEF Ids
<1>10. "partial" \in Modes
  BY DEF Modes
\* What the start-up sees, once rule i bears the name n for the provider of the environment.
<1>11. ASSUME NEW i \in Ids, \A j \in Ids \ {i} : dedup'[j] = dedup[j], OfEnv(i)' ,
              dedup'[i].name = n, dedup'[i].prov = o.env[n], Sees(o), OfEnv(i) => dedup[i].name = n
       PROVE  Sees(b)'
  <2>1. \A j \in Ids \ {i} : OfEnv(j)' <=> OfEnv(j)
    BY <1>11 DEF OfEnv
  <2>2. \A j \in Ids : OfEnv(j)' => dedup'[j].name \in DOMAIN b.env
    BY <1>2, <1>7, <1>11, <2>1 DEF Sees
  <2>3. ASSUME NEW e \in b.known, e[1] \in DOMAIN b.env
        PROVE  OfEnv(e[2])' /\ dedup'[e[2]].name = e[1]
    <3>1. e[2] \in Ids /\ OfEnv(e[2]) /\ dedup[e[2]].name = e[1]
      BY <1>2, <1>7, <1>11, <2>3 DEF Sees, Boots
    <3> QED
      BY <1>11, <2>1, <3>1
  <2>4. ASSUME NEW m \in b.done
        PROVE  InEnv(m, b.env)'
    <3>1. CASE m = n
      BY <1>7, <1>11, <3>1 DEF InEnv
    <3>2. CASE m # n
      <4>1. PICK j \in Ids : OfEnv(j) /\ dedup[j].name = m /\ dedup[j].prov = o.env[m]
        BY <1>7, <1>11, <2>4, <3>2 DEF Sees, InEnv
      <4>2. j # i
        BY <1>11, <3>2, <4>1
      <4> QED
        BY <1>7, <1>11, <2>1, <4>1, <4>2 DEF InEnv
    <3> QED
      BY <3>1, <3>2
  <2> QED
    BY <1>7, <2>2, <2>3, <2>4 DEF Sees
<1>12. CASE \E i \in Known(r, n) : dedup[i] # None /\ Change(i, n, o.env[n], "partial") /\ made' = made
  <2>1. PICK i \in Known(r, n) : dedup[i] # None /\ Change(i, n, o.env[n], "partial") /\ made' = made
    BY <1>12
  <2>2. PICK e \in o.known : e[1] = n /\ e[2] = i
    BY <1>1 DEF Known
  <2>3. i \in Ids
    BY <1>2, <2>2 DEF Boots
  <2>4. PICK v \in DedupRows \cup {None} :
           /\ dedup' = [dedup EXCEPT ![i] = v]
           /\ v # None /\ v.name = n /\ v.prov = o.env[n] /\ v.provisioned = dedup[i].provisioned
    BY <1>4, <1>10, <2>1, <2>3, ChangeIs DEF RulesInv
  <2>5. dedup' \in [Ids -> DedupRows \cup {None}] /\ dedup'[i] = v /\ \A j \in Ids \ {i} : dedup'[j] = dedup[j]
    BY <1>8, <2>3, <2>4
  <2>6. \A j \in Ids : OfEnv(j)' <=> OfEnv(j)
    BY <2>1, <2>4, <2>5 DEF OfEnv
  <2>7. made' \in 0 .. MaxRules /\ made <= made' /\ \A j \in Ids : dedup'[j] # None => j <= made'
    BY <1>8, <2>1, <2>5
  <2>8. Sees(o) => Sees(b)'
    <3> SUFFICES ASSUME Sees(o) PROVE Sees(b)'
      OBVIOUS
    <3>1. OfEnv(i) /\ dedup[i].name = n
      BY <1>2, <2>2 DEF Sees
    <3> QED
      BY <1>11, <2>3, <2>4, <2>5, <2>6, <3>1
  <2> QED
    BY <1>1, <1>2, <1>6, <1>7, <2>5, <2>6, <2>7, <2>8, BootStep
<1>13. CASE Insert([name |-> n, prov |-> o.env[n], mode |-> "partial", provisioned |-> TRUE])
  <2>1. PICK v : v = [name |-> n, prov |-> o.env[n], mode |-> "partial", provisioned |-> TRUE]
    OBVIOUS
  <2>2. v \in DedupRows /\ v.name = n /\ v.prov = o.env[n]
    BY <1>4, <1>10, <2>1 DEF DedupRows
  <2>3. v.provisioned
    BY <2>1
  <2>4. v # None
    BY <2>2, RulesAssumption DEF DedupRows, Modes
  <2>5. PICK i : i = made + 1
    OBVIOUS
  <2>6. made < MaxRules /\ made' = i /\ dedup' = [dedup EXCEPT ![i] = v]
    BY <1>13, <2>1, <2>5 DEF Insert
  <2>7. i \in Ids /\ ~OfEnv(i) /\ made' \in 0 .. MaxRules /\ made <= made' /\ i <= made' /\ ~(i <= made)
    BY <1>8, <2>5, <2>6, NewId DEF RulesInv
  <2>8. dedup' \in [Ids -> DedupRows \cup {None}] /\ dedup'[i] = v /\ \A j \in Ids \ {i} : dedup'[j] = dedup[j]
    BY <1>8, <2>2, <2>6, <2>7
  <2>9. \A j \in Ids : dedup'[j] # None => j <= made'
    <3>1. \A j \in Ids : j <= made => j <= made'
      BY <1>8, <1>9, <2>7
    <3> QED
      BY <1>8, <2>7, <2>8, <3>1
  <2>10. \A j \in Ids : j <= made /\ ~OfEnv(j) => ~OfEnv(j)'
    BY <2>7, <2>8 DEF OfEnv
  <2>11. OfEnv(i)'
    BY <2>3, <2>4, <2>8 DEF OfEnv
  <2>12. Sees(o) => Sees(b)'
    BY <1>11, <2>2, <2>7, <2>8, <2>11
  <2> QED
    BY <1>1, <1>2, <1>6, <1>7, <2>7, <2>8, <2>9, <2>10, <2>12, BootStep
<1> QED
  BY <1>1, <1>3, <1>12, <1>13 DEF Provision

LEMMA AbortKeepsInv ==
    ASSUME RulesInv, NEW r \in Replicas, Abort(r)
    PROVE  RulesInv'
<1>1. PICK o : o = boot[r]
  OBVIOUS
<1>2. PICK b : b = Off
  OBVIOUS
<1>3. o.pc # "off" /\ boot' = [boot EXCEPT ![r] = b] /\ UNCHANGED <<dedupVars, BootIdle, work, settled>>
  BY <1>1, <1>2 DEF Abort, Booting
<1> QED
  BY <1>1, <1>2, <1>3, OffIs, BootReads

LEMMA ProvisionedKeepsInv ==
    ASSUME RulesInv, NEW r \in Replicas, Provisioned(r)
    PROVE  RulesInv'
<1>1. PICK o : o = boot[r]
  OBVIOUS
<1>2. /\ o.pc = "write" /\ o.done = DOMAIN o.env /\ boot' = [boot EXCEPT ![r] = Off]
      /\ settled' = IF o.alone THEN o.env ELSE settled
      /\ UNCHANGED <<dedupVars, BootIdle, work>>
  BY <1>1 DEF Provisioned
<1>3. CASE ~o.alone
  <2>1. PICK b : b = Off
    OBVIOUS
  <2>2. settled' = settled
    BY <1>2, <1>3
  <2> QED
    BY <1>1, <1>2, <2>1, <2>2, OffIs, BootReads
<1>4. CASE o.alone
  <2>1. settled' = o.env /\ UNCHANGED <<dedup, made, installed, rowVars, req, events, alertVars, work>>
    BY <1>2, <1>4 DEF dedupVars, BootIdle
  <2>2. Sees(o) /\ \A t \in Replicas \ {r} : ~Booting(t)
    BY <1>1, <1>2, <1>4 DEF RulesInv, Booted, Booting
  <2>3. boot' \in [Replicas -> Boots] /\ boot'[r] = Off /\ \A t \in Replicas \ {r} : boot'[t] = boot[t]
    BY <1>2, OffIs DEF RulesInv, Typed
  <2>4. \A t \in Replicas : ~(boot'[t].pc # "off")
    BY <2>2, <2>3, OffIs DEF Booting
  <2>5. Booted'
    BY <2>4 DEF Booted, Booting
  <2>6. o.env \in Envs
    BY <1>1, <1>2 DEF RulesInv, Typed, Booting
  <2>7. Typed'
    BY <2>1, <2>3, <2>4, <2>6 DEF RulesInv, Typed, Booting
  <2>8. ProvisionSettles'
    <3>1. \A n \in DOMAIN o.env : \E i \in Ids : OfEnv(i) /\ dedup[i].name = n /\ dedup[i].prov = o.env[n]
      BY <1>2, <2>2 DEF Sees, InEnv
    <3>2. \A i \in Ids : OfEnv(i) => dedup[i].name \in DOMAIN o.env
      BY <1>2, <2>2 DEF Sees
    <3> QED
      BY <2>1, <3>1, <3>2 DEF ProvisionSettles, OfEnv
  <2>9. Requested'
    BY <2>1 DEF RulesInv, Requested, FreeToChange, OfEnv
  <2> QED
    BY <2>1, <2>5, <2>7, <2>8, <2>9, RowsAlone, AlertsAlone, EventsAlone DEF RulesInv
<1> QED
  BY <1>3, <1>4

LEMMA StartKeepsInv ==
    ASSUME RulesInv, NEW r \in Replicas, provision_deduplication_rules_from_env(r)
    PROVE  RulesInv'
<1>1. PICK env \in Envs :
          boot' = [s \in Replicas |->
                     IF s = r THEN [Off EXCEPT !.pc = "read", !.env = env, !.alone = \A t \in Replicas : ~Booting(t)]
                     ELSE [boot[s] EXCEPT !.alone = ~Booting(s)]]
  BY DEF provision_deduplication_rules_from_env
<1>2. settled' = None /\ Work /\ UNCHANGED <<dedup, made, installed, rowVars, req, events, alertVars>>
  BY DEF provision_deduplication_rules_from_env, dedupVars, BootIdle
<1>3. PICK alone \in BOOLEAN : alone <=> \A t \in Replicas : ~Booting(t)
  OBVIOUS
<1>4. PICK b : b = [Off EXCEPT !.pc = "read", !.env = env, !.alone = alone]
  OBVIOUS
<1>5. b \in Boots /\ b.pc = "read" /\ b.env = env /\ b.alone = alone /\ b.done = {}
  BY <1>4 DEF Boots, Off
<1>6. boot'[r] = b
  <2>1. (\A t \in Replicas : ~Booting(t)) = alone
    BY <1>3, Zenon
  <2> QED
    BY <1>1, <1>4, <2>1
<1>7. ASSUME NEW s \in Replicas \ {r}
      PROVE  boot'[s] \in Boots /\ boot'[s].pc = boot[s].pc /\ boot'[s].env = boot[s].env /\ (boot'[s].alone => ~Booting(s))
  <2>1. boot[s] \in Boots
    BY DEF RulesInv, Typed
  <2>2. PICK free \in BOOLEAN : free = ~Booting(s)
    OBVIOUS
  <2>3. boot'[s] = [boot[s] EXCEPT !.alone = free]
    BY <1>1, <2>2
  <2>4. boot'[s] \in Boots /\ boot'[s].pc = boot[s].pc /\ boot'[s].env = boot[s].env /\ boot'[s].alone = free
    BY <2>1, <2>3 DEF Boots
  <2> QED
    BY <2>2, <2>4
<1>8. boot' \in [Replicas -> Boots]
  BY <1>1, <1>5, <1>6, <1>7
<1>9. Typed'
  <2>1. \A s \in Replicas : boot'[s].pc # "off" => boot'[s].env \in Envs
    BY <1>5, <1>6, <1>7 DEF RulesInv, Typed, Booting
  <2>2. work' \in 0 .. MaxWork
    BY <1>2, WorkDone DEF RulesInv
  <2> QED
    BY <1>2, <1>8, <2>1, <2>2 DEF RulesInv, Typed, Booting
<1>10. Booted'
  <2>1. ASSUME NEW s \in Replicas, boot'[s].pc # "off", boot'[s].alone
        PROVE  Sees(boot[s])' /\ \A t \in Replicas \ {s} : ~(boot'[t].pc # "off")
    <3>1. s = r
      BY <1>7, <2>1 DEF Booting
    <3>2. \A t \in Replicas : ~Booting(t)
      BY <1>3, <1>5, <1>6, <2>1, <3>1
    <3>3. \A t \in Replicas \ {r} : ~(boot'[t].pc # "off")
      BY <1>7, <3>2 DEF Booting
    <3>4. Sees(boot[r])'
      BY <1>5, <1>6 DEF Sees
    <3> QED
      BY <3>1, <3>3, <3>4
  <2> QED
    BY <1>2, <2>1 DEF Booted, Booting
<1>11. ProvisionSettles'
  BY <1>2 DEF ProvisionSettles
<1>12. Requested'
  BY <1>2 DEF RulesInv, Requested, FreeToChange, OfEnv
<1> QED
  BY <1>2, <1>9, <1>10, <1>11, <1>12, RowsAlone, AlertsAlone, EventsAlone DEF RulesInv

-----------------------------------------------------------------------------
(* The evaluation of an alert. *)

\* Only a strict rule hashes the time.
LEMMA HashIs ==
    ASSUME NEW value, NEW received, NEW mode, mode # "strict"
    PROVE  Hash(value, received, mode) = Hash(value, 0, mode)
BY DEF Hash, IgnoredFields

LEMMA ApplyKeepsInv ==
    ASSUME RulesInv, NEW p \in Provs, apply_deduplication(p)
    PROVE  RulesInv'
<1>1. PICK rules : rules = get_custom_deduplication_rule(p)
  OBVIOUS
<1>2. PICK mode : mode = IF rules = {} THEN "loose" ELSE dedup[CHOOSE i \in rules : TRUE].mode
  OBVIOUS
<1>3. mode \in Modes
  <2>1. CASE rules = {}
    BY <1>2, <2>1 DEF Modes
  <2>2. CASE rules # {}
    <3>1. PICK i : i = CHOOSE j \in rules : TRUE
      OBVIOUS
    <3>2. i \in rules
      BY <2>2, <3>1
    <3>3. dedup[i] \in DedupRows
      BY <1>1, <3>2 DEF get_custom_deduplication_rule, RulesInv, Typed
    <3> QED
      BY <1>2, <2>2, <3>1, <3>3 DEF DedupRows
  <2> QED
    BY <2>1, <2>2
<1>4. PICK value \in Bit :
         /\ last' = [last EXCEPT ![p] = [value |-> value, hash |-> Hash(value, work, mode), mode |-> mode]]
         /\ missed' = (missed \/ (/\ last[p] # None /\ last[p].mode = mode /\ mode # "strict" /\ last[p].value = value
                                  /\ Judged(p, Hash(value, work, mode)) # "full"))
  BY <1>1, <1>2 DEF apply_deduplication
<1>5. Work /\ UNCHANGED <<dedupVars, installed, rowVars, req, boot, events, settled>>
  BY DEF apply_deduplication
<1>6. PICK hash : hash = Hash(value, work, mode)
  OBVIOUS
<1>7. PICK stored : stored = [value |-> value, hash |-> hash, mode |-> mode]
  OBVIOUS
<1>8. stored.value = value /\ stored.hash = hash /\ stored.mode = mode
  BY <1>7
<1>9. DOMAIN last' = Provs /\ last'[p] = stored /\ \A s \in Provs \ {p} : last'[s] = last[s]
  BY <1>4, <1>6, <1>7 DEF RulesInv, Hashed
<1>10. missed' = FALSE
  <2>1. ASSUME last[p] # None, last[p].mode = mode, mode # "strict", last[p].value = value
        PROVE  Judged(p, hash) = "full"
    <3>1. last[p].hash = Hash(value, 0, mode)
      BY <2>1 DEF RulesInv, Hashed
    <3>2. last[p].hash = hash
      BY <1>6, <2>1, <3>1, HashIs
    <3>3. PICK hashes : hashes = get_last_alert_hashes_by_fingerprints
      OBVIOUS
    <3>4. p \in DOMAIN hashes /\ hashes[p] = hash
      BY <2>1, <3>2, <3>3 DEF get_last_alert_hashes_by_fingerprints
    <3> QED
      BY <3>3, <3>4 DEF Judged
  <2>2. missed = FALSE
    BY DEF RulesInv, Hashed
  <2>3. ~missed'
    BY <1>4, <1>6, <2>1, <2>2
  <2> QED
    BY <1>4, <2>3, Zenon
<1>11. mode # "strict" => hash = Hash(value, 0, mode)
  BY <1>6, HashIs
<1>12. Hashed'
  <2>1. ASSUME NEW s \in Provs, last'[s] # None
        PROVE  last'[s].mode \in Modes /\ (last'[s].mode # "strict" => last'[s].hash = Hash(last'[s].value, 0, last'[s].mode))
    <3>1. CASE s = p
      BY <1>3, <1>8, <1>9, <1>11, <3>1
    <3>2. CASE s # p
      BY <1>9, <2>1, <3>2 DEF RulesInv, Hashed
    <3> QED
      BY <3>1, <3>2
  <2> QED
    BY <1>9, <1>10, <2>1 DEF Hashed
<1>13. installed' \subseteq Provs /\ work' \in 0 .. MaxWork
  BY <1>5, WorkDone DEF RulesInv, Typed
<1>14. Requested'
  BY <1>5 DEF RulesInv, Requested, FreeToChange, OfEnv, dedupVars
<1> QED
  BY <1>5, <1>12, <1>13, <1>14, RulesAlone, RowsAlone, EventsAlone DEF RulesInv

-----------------------------------------------------------------------------
(* The invariant. *)

LEMMA InitInv == Init => RulesInv
<1> SUFFICES ASSUME Init PROVE RulesInv
  OBVIOUS
<1>1. \A r \in Replicas : boot[r] = Off
  BY DEF Init
<1>2. Typed
  <2>1. dedup = [i \in Ids |-> None] /\ made = 0 /\ installed \subseteq Provs /\ settled = None /\ work = 0
    BY DEF Init
  <2>2. boot \in [Replicas -> Boots] /\ \A r \in Replicas : ~Booting(r)
    BY OffIs DEF Init, Booting
  <2>3. 0 \in 0 .. MaxRules /\ 0 \in 0 .. MaxWork
    BY RulesAssumption
  <2>4. dedup \in [Ids -> DedupRows \cup {None}] /\ \A i \in Ids : dedup[i] = None
    BY <2>1
  <2> QED
    BY <2>1, <2>2, <2>3, <2>4 DEF Typed
<1>3. RowsTyped /\ WindowEnds
  <2>1. row = [k \in Kinds |-> None] /\ gen = [k \in Kinds |-> 0] /\ torn = FALSE
    BY DEF Init
  <2>2. "maintenance" \in Kinds
    BY DEF Kinds
  <2>3. \A k \in Kinds : row[k] = None
    BY <2>1
  <2>4. DOMAIN row = Kinds /\ gen \in [Kinds -> Nat] /\ torn \in BOOLEAN
    BY <2>1
  <2> QED
    BY <2>2, <2>3, <2>4 DEF RowsTyped, WindowEnds
<1>4. Requested
  <2>1. req = [c \in Clients |-> Idle]
    BY DEF Init
  <2> QED
    BY <2>1, IdleHeld DEF Requested
<1>5. Booted
  BY <1>1, OffIs DEF Booted, Booting
<1>6. ProvisionSettles
  BY DEF Init, ProvisionSettles
<1>7. Hashed
  <2>1. last = [p \in Provs |-> None] /\ missed = FALSE
    BY DEF Init
  <2> QED
    BY <2>1 DEF Hashed
<1>8. events = {}
  BY DEF Init
<1> QED
  BY <1>2, <1>3, <1>4, <1>5, <1>6, <1>7, <1>8 DEF RulesInv

LEMMA StutterKeepsInv ==
    ASSUME RulesInv, UNCHANGED vars
    PROVE  RulesInv'
<1>1. UNCHANGED <<dedupVars, installed, rowVars, req, boot, events, alertVars, work, settled>>
  BY DEF vars
<1>2. Requested'
  BY <1>1 DEF RulesInv, Requested, FreeToChange, OfEnv, dedupVars
<1>3. installed' \subseteq Provs /\ work' \in 0 .. MaxWork
  BY <1>1 DEF RulesInv, Typed
<1> QED
  BY <1>1, <1>2, <1>3, RulesAlone, RowsAlone, AlertsAlone, EventsAlone DEF RulesInv

LEMMA NextKeepsInv ==
    ASSUME RulesInv, [Next]_vars
    PROVE  RulesInv'
<1>1. CASE UNCHANGED vars
  BY <1>1, StutterKeepsInv
<1>2. CASE ProviderChanges
  BY <1>2, ProviderChangesKeepsInv
<1>3. ASSUME NEW p \in Provs, apply_deduplication(p)
      PROVE  RulesInv'
  BY <1>3, ApplyKeepsInv
<1>4. ASSUME NEW r \in Replicas,
             \/ provision_deduplication_rules_from_env(r) \/ ReadProvisioned(r)
             \/ DeleteStale(r) \/ StaleGone(r) \/ ProvisionName(r)
             \/ Abort(r) \/ Provisioned(r)
      PROVE  RulesInv'
  BY <1>4, StartKeepsInv, ReadProvisionedKeepsInv, DeleteStaleKeepsInv, ProvisionNameKeepsInv, AbortKeepsInv,
     ProvisionedKeepsInv
<1>5. ASSUME NEW c \in Clients,
             \/ create_rule(c) \/ update_rule(c) \/ delete_rule(c)
             \/ create_mapping_rule(c) \/ update_mapping_rule(c) \/ delete_mapping_rule(c) \/ execute_rule(c)
             \/ create_extraction_rule(c) \/ update_extraction_rule(c) \/ delete_extraction_rule(c)
             \/ execute_extraction_rule(c)
             \/ create_maintenance_rule(c) \/ update_maintenance_rule(c) \/ delete_maintenance_rule(c)
      PROVE  RulesInv'
  BY <1>5, CreatesKeepInv, UpdatesKeepInv, OtherSelectsKeepInv
<1>6. ASSUME NEW c \in Clients,
             \/ CommitUpdate(c) \/ CommitRemove(c) \/ RunRule(c)
             \/ create_deduplication_rule(c) \/ InsertRule(c)
             \/ update_deduplication_rule(c) \/ ChangeRule(c)
             \/ delete_deduplication_rule(c) \/ EraseRule(c)
      PROVE  RulesInv'
  BY <1>6, CommitUpdateKeepsInv, CommitRemoveKeepsInv, RunRuleKeepsInv, AskRuleKeepsInv, InsertRuleKeepsInv,
     ChangeRuleKeepsInv
<1> QED
  BY <1>1, <1>2, <1>3, <1>4, <1>5, <1>6 DEF Next

LEMMA InvHolds == Spec => []RulesInv
<1>1. RulesInv /\ [Next]_vars => RulesInv'
  BY NextKeepsInv
<1> QED
  BY <1>1, InitInv, PTL DEF Spec

-----------------------------------------------------------------------------
(* What follows. *)

LEMMA TypeOKHolds ==
    ASSUME RulesInv
    PROVE  TypeOK
<1>1. \A k \in Kinds : row[k] = None \/ (DOMAIN row[k] = Columns[k] /\ \A f \in DOMAIN row[k] : row[k][f] \in 0 .. 2)
  <2>1. \A k \in Kinds : Cells(k) \subseteq 0 .. 2
    BY DEF Cells, Bit
  <2> QED
    BY <2>1 DEF RulesInv, RowsTyped, InTable
<1>2. \A r \in Replicas : boot[r].env \in Envs \cup {None} /\ boot[r].done \subseteq Names /\ boot[r].stale \subseteq Ids
  BY DEF RulesInv, Typed, Boots
<1>3. \A e \in events : e.kind \in {"mapping", "extraction"} /\ e.status \in {"skipped", "failure"}
  BY DEF RulesInv, ToldRight
<1>4. /\ dedup \in [Ids -> DedupRows \cup {None}] /\ made \in 0 .. MaxRules
      /\ \A i \in Ids : dedup[i] # None => i <= made
      /\ installed \subseteq Provs /\ DOMAIN boot = Replicas /\ settled \in Envs \cup {None} /\ work \in 0 .. MaxWork
  BY DEF RulesInv, Typed
<1>5. gen \in [Kinds -> Nat] /\ torn \in BOOLEAN /\ DOMAIN req = Clients /\ missed \in BOOLEAN
  <2>1. gen \in [Kinds -> Nat] /\ torn \in BOOLEAN /\ DOMAIN req = Clients
    BY DEF RulesInv, RowsTyped, Requested
  <2>2. missed = FALSE
    BY DEF RulesInv, Hashed
  <2> QED
    BY <2>1, <2>2, Zenon
<1> QED
  BY <1>1, <1>2, <1>3, <1>4, <1>5 DEF TypeOK

\* Deduplication rules: a start-up that no other overlapped leaves exactly the rules of its environment,
\* whatever requests do meanwhile (provision_deduplication_rules); and a repeated alert is a full
\* duplicate (_apply_deduplication_rule).
THEOREM Deduplicates == Spec => []DeduplicationHolds
<1>1. RulesInv => DeduplicationHolds
  BY TypeOKHolds DEF RulesInv, Hashed, RepeatIsDuplicate, DeduplicationHolds
<1> QED
  BY <1>1, InvHolds, PTL

\* A recorded execution of a mapping rule is right about every rule and alert (check_if_match_and_enrich),
\* and a maintenance window ends its duration after its start (MaintenanceRule).
THEOREM RowsTold == Spec => []RowsAreTold
<1>1. RulesInv => RowsAreTold
  BY DEF RulesInv, ToldRight, RecordedRunIsRight, RowsAreTold
<1> QED
  BY <1>1, InvHolds, PTL

\* A column of a row is changed only by a request that assigns it.
InTheirColumns ==
    \A k \in Kinds : row[k] # None /\ row'[k] # None /\ gen'[k] = gen[k] =>
         \A f \in Columns[k] : row'[k][f] # row[k][f] =>
            \E c \in Clients : /\ req[c].pc = "update" /\ req[c].kind = k /\ f \in DOMAIN req[c].want
                               /\ row'[k][f] = req[c].want[f] /\ req'[c].pc = "idle"

LEMMA StepsStayInTheirColumns ==
    ASSUME RulesInv, [Next]_vars
    PROVE  [InTheirColumns]_vars
<1>0. SUFFICES ASSUME NEW k \in Kinds, row[k] # None, row'[k] # None, gen'[k] = gen[k],
                      NEW f \in Columns[k], row'[k][f] # row[k][f]
               PROVE  \E c \in Clients :
                         /\ req[c].pc = "update" /\ req[c].kind = k /\ f \in DOMAIN req[c].want
                         /\ row'[k][f] = req[c].want[f] /\ req'[c].pc = "idle"
  BY DEF InTheirColumns
<1>1. DOMAIN row = Kinds /\ gen \in [Kinds -> Nat] /\ DOMAIN req = Clients /\ InTable(k, row[k])
  BY <1>0 DEF RulesInv, RowsTyped, Requested
<1>2. row' # row
  BY <1>0
<1>3. ASSUME NEW c \in Clients, NEW j \in Kinds, NEW new, Create(c, j, new)
      PROVE  FALSE
  <2>1. row[j] = None /\ row' = [row EXCEPT ![j] = new]
    BY <1>3 DEF Create
  <2> QED
    BY <1>0, <1>1, <2>1
<1>4. ASSUME NEW c \in Clients, CommitRemove(c)
      PROVE  FALSE
  <2>1. PICK j : j = req[c].kind
    OBVIOUS
  <2>2. row' = [row EXCEPT ![j] = IF gen[j] = req[c].gen THEN None ELSE @]
    BY <1>4, <2>1 DEF CommitRemove
  <2> QED
    BY <1>0, <1>1, <2>2
<1>5. ASSUME NEW c \in Clients, CommitUpdate(c)
      PROVE  /\ req[c].pc = "update" /\ req[c].kind = k /\ f \in DOMAIN req[c].want
             /\ row'[k][f] = req[c].want[f] /\ req'[c].pc = "idle"
  <2>1. PICK q : q = req[c]
    OBVIOUS
  <2>2. PICK there \in BOOLEAN : there <=> row[q.kind] # None /\ gen[q.kind] = q.gen
    OBVIOUS
  <2>3. /\ q.pc = "update" /\ req' = [req EXCEPT ![c] = Idle]
        /\ row' = [row EXCEPT ![q.kind] = IF there THEN Flush(@, q.seen, q.want) ELSE @]
    BY <1>5, <2>1, <2>2 DEF CommitUpdate, Done
  <2>4. q.kind = k /\ there
    BY <1>0, <1>1, <2>3
  <2>5. row'[k] = Flush(row[k], q.seen, q.want)
    BY <1>1, <2>3, <2>4
  <2>6. Assigns(k, q.want)
    BY <2>1, <2>3, <2>4 DEF RulesInv, Requested, Held
  <2>7. f \in DOMAIN q.want /\ row'[k][f] = q.want[f]
    BY <1>0, <1>1, <2>5, <2>6, FlushIs
  <2>8. req'[c] = Idle /\ Idle.pc = "idle"
    BY <1>1, <2>3 DEF Idle
  <2> QED
    BY <2>1, <2>3, <2>4, <2>7, <2>8
<1>6. CASE UNCHANGED row
  BY <1>2, <1>6
<1>7. CASE \E c \in Clients :
            \/ create_rule(c) \/ create_mapping_rule(c) \/ create_extraction_rule(c) \/ create_maintenance_rule(c)
  BY <1>3, <1>7, KindColumns DEF create_rule, create_mapping_rule, create_extraction_rule, create_maintenance_rule
<1>8. CASE \E c \in Clients : CommitUpdate(c) \/ CommitRemove(c)
  BY <1>4, <1>5, <1>8
<1>9. CASE UNCHANGED vars
  BY <1>6, <1>9 DEF vars, rowVars
<1>10. CASE Next
  <2>1. CASE \E c \in Clients :
               \/ update_rule(c) \/ delete_rule(c) \/ update_mapping_rule(c) \/ delete_mapping_rule(c) \/ execute_rule(c)
               \/ update_extraction_rule(c) \/ delete_extraction_rule(c) \/ execute_extraction_rule(c)
               \/ update_maintenance_rule(c) \/ delete_maintenance_rule(c)
    BY <1>6, <2>1 DEF update_rule, delete_rule, update_mapping_rule, delete_mapping_rule, execute_rule,
       update_extraction_rule, delete_extraction_rule, execute_extraction_rule, update_maintenance_rule,
       delete_maintenance_rule, Select, rowVars
  <2>2. CASE \E c \in Clients :
               \/ RunRule(c) \/ create_deduplication_rule(c) \/ InsertRule(c)
               \/ update_deduplication_rule(c) \/ ChangeRule(c) \/ delete_deduplication_rule(c) \/ EraseRule(c)
    BY <1>6, <2>2 DEF RunRule, create_deduplication_rule, InsertRule, update_deduplication_rule, ChangeRule,
       delete_deduplication_rule, EraseRule, rowVars
  <2>3. CASE ProviderChanges \/ \E p \in Provs : apply_deduplication(p)
    BY <1>6, <2>3 DEF ProviderChanges, apply_deduplication, rowVars
  <2>4. CASE \E r \in Replicas :
               \/ provision_deduplication_rules_from_env(r) \/ ReadProvisioned(r)
               \/ DeleteStale(r) \/ StaleGone(r) \/ ProvisionName(r) \/ Abort(r) \/ Provisioned(r)
    BY <1>6, <2>4 DEF provision_deduplication_rules_from_env, ReadProvisioned, DeleteStale, StaleGone, ProvisionName,
       Abort, Provisioned, BootIdle, rowVars
  <2> QED
    BY <1>7, <1>8, <1>10, <2>1, <2>2, <2>3, <2>4, Zenon DEF Next
<1> QED
  BY <1>9, <1>10

\* Concurrent updates and deletions of a row each change their own columns only: what another request
\* wrote since the row was loaded stays (update_rule, update_mapping_rule, update_extraction_rule,
\* update_maintenance_rule; the ORM writes the columns that differ from the loaded ones).
THEOREM ColumnsAreOwn == Spec => WritesStayInTheirColumns
<1>1. RulesInv /\ [Next]_vars => [InTheirColumns]_vars
  BY StepsStayInTheirColumns
<1> QED
  BY <1>1, InvHolds, PTL DEF Spec, WritesStayInTheirColumns, InTheirColumns
=============================================================================
