------------------------------ MODULE Presets ------------------------------
(***************************************************************************)
(* Presets with their tags, tabs and per-user columns                      *)
(* (src/routes/preset.py), and dashboards (src/routes/dashboard.py).       *)
(*                                                                         *)
(* A preset keeps its filter and its tabs in one JSON column, options.     *)
(* Requests load it, change the list in memory and write it back whole;    *)
(* tabs do so through update_preset_options, in another session.  Creating *)
(* and updating a preset commit once for every tag that is new, and with   *)
(* it whatever the session holds by then.                                  *)
(*                                                                         *)
(* Steps are commits and the reads that later statements depend on, under  *)
(* READ COMMITTED.  The database refuses a second preset or tag of a name, *)
(* a second link or configuration and rows of a preset that is gone; an    *)
(* UPDATE that is flushed keeps the others off its row until it commits.   *)
(*                                                                         *)
(* One tenant.  A filter and the two column settings are numbers, 0 for an *)
(* empty one.  Requests refused before they load anything are left out.    *)
(***************************************************************************)
EXTENDS Integers, Sequences, FiniteSets

CONSTANTS Presets,   \* preset ids, drawn at creation
          Names, Tags, Tabs, Users, Boards,
          Clients,
          None,
          TagLists,     \* the lists of tags a body may bring
          Provisioned,  \* the names in KEEP_DASHBOARDS
          MaxWork       \* bound: requests and start-ups

\* A tag of a body: a new one by its name, or an existing one by its id.
TagDtos == [new : BOOLEAN, name : Tags]

ASSUME PresetsAssumption ==
    /\ TagLists \subseteq Seq(TagDtos)
    /\ \A s \in TagLists : \A i, j \in DOMAIN s : s[i].name = s[j].name => i = j
    /\ Provisioned \subseteq Names /\ MaxWork \in Nat
    /\ None \notin Presets \cup Names \cup Tags \cup Tabs \cup Users \cup Boards
    /\ \A tabs \in SUBSET Tabs : tabs # None  \* NULL is neither a list of tabs nor a row
    /\ \A row \in [name : Names, cel : 0 .. 1, tabs : {None} \cup SUBSET Tabs] : row # None

VARIABLES
    preset,     \* the table preset: name, filter and tabs of options (tabs None without that label)
    drawn,      \* preset, tab and dashboard ids given out
    tag,        \* the names in the table tag
    link,       \* presettaglink
    config,     \* userpresetcolumnconfig: two settings per preset and user
    board,      \* the table dashboard
    req,        \* what each client's request has read
    work,
    shown,      \* history: tabs of each preset answered and not deleted since
    clobbered,  \* history: presets whose options were written over ones the writer had not loaded
    wanted,     \* history: the tags of the last request that linked any to a preset
    mixed,      \* history: presets whose last links were added to ones their request had not cleared
    halfDone    \* history: the tags of refused updates that had changed their preset

linkVars == <<link, wanted, mixed>>
optVars == <<shown, clobbered>>
vars == <<preset, drawn, tag, linkVars, config, board, req, work, optVars, halfDone>>

Bit == 0 .. 1
\* Tabs are None in a body whose options do not name them.
PresetBodies == [name : Names, cel : Bit, tabs : {None} \cup SUBSET Tabs, tags : TagLists]
\* missing: the tag at `at` was looked up in vain; cleared: the tags whose links the request has
\* deleted, not yet committed; raced: another request has committed links of the preset since.
Idle == [pc |-> "idle", p |-> None, seen |-> None, body |-> None, at |-> 1, missing |-> FALSE,
         wrote |-> FALSE, cleared |-> {}, raced |-> FALSE, user |-> None]
PCs == {"idle", "tags", "retag", "linking", "tabs", "upsert"}

Init ==
    /\ preset = [p \in Presets |-> None] /\ drawn = {} /\ tag = {} /\ link = {}
    /\ config = [p \in Presets |-> [u \in Users |-> None]] /\ board = [b \in Boards |-> None]
    /\ req = [c \in Clients |-> Idle] /\ work = 0
    /\ shown = [p \in Presets |-> {}] /\ clobbered = {}
    /\ wanted = [p \in Presets |-> {}] /\ mixed = {} /\ halfDone = {}

Work == work < MaxWork /\ work' = work + 1
Begin(c) == req[c].pc = "idle" /\ Work
Done(c) == req' = [req EXCEPT ![c] = Idle]
TagNames(x) == {x.tags[i].name : i \in DOMAIN x.tags}

Taken(n, p) == \E q \in Presets \ {p} : preset[q] # None /\ preset[q].name = n

-----------------------------------------------------------------------------
(* Creating and updating a preset. *)

\* The tabs a client can name are among those it was answered.
Sent == {b \in PresetBodies : b.tabs = None \/ b.tabs \subseteq drawn}

create_preset(c) ==
    /\ Begin(c)
    /\ \E b \in Sent : req' = [req EXCEPT ![c] = [Idle EXCEPT !.pc = "tags", !.body = b]]
    /\ UNCHANGED <<preset, drawn, tag, linkVars, config, board, optVars, halfDone>>

update_preset(c) ==
    /\ Begin(c)
    /\ \E p \in Presets, b \in Sent :
          /\ preset[p] # None
          /\ req' = [req EXCEPT ![c] = [Idle EXCEPT !.pc = "retag", !.p = p, !.seen = preset[p], !.body = b]]
    /\ UNCHANGED <<preset, drawn, tag, linkVars, config, board, optVars, halfDone>>

\* Mutant: the options of the body replace the others.
MutMergeReplaces(seen, body) == [name |-> body.name, cel |-> body.cel, tabs |-> body.tabs]

\* The loaded row gets the name and the options of the body; options that the body does not name
\* are kept as they were loaded.
MergeOptions(seen, body) ==
    [name |-> body.name, cel |-> body.cel, tabs |-> IF body.tabs = None THEN seen.tabs ELSE body.tabs]

\* Of the pending row, the ORM writes the columns that differ from the loaded ones.
Options(row) == <<row.cel, row.tabs>>
NewOptions(q) == Options(MergeOptions(q.seen, q.body)) # Options(q.seen)
Pending(q) ==
    LET new == MergeOptions(q.seen, q.body)
        now == preset[q.p]
    IN [name |-> IF new.name # q.seen.name THEN new.name ELSE now.name,
        cel |-> IF NewOptions(q) THEN new.cel ELSE now.cel,
        tabs |-> IF NewOptions(q) THEN new.tabs ELSE now.tabs]

\* An update whose row is still to be committed.
Writes(q) == q.pc \in {"retag", "linking"} /\ q.seen # None /\ ~q.wrote
Dirty(q) == Writes(q) /\ (NewOptions(q) \/ q.body.name # q.seen.name)
CanWrite(q) == preset[q.p] # None /\ ~Taken(Pending(q).name, q.p)

\* The session flushes a changed row before its first query and holds it from then on.
Flushed(q) == Dirty(q) /\ (q.at > 1 \/ q.missing \/ q.pc = "linking")
RowFree(c, p) == \A d \in Clients \ {c} : req[d].p = p => ~Flushed(req[d])
MayFlush(c) == Dirty(req[c]) => RowFree(c, req[c].p)

Flush(q) ==
    /\ preset' = [preset EXCEPT ![q.p] = Pending(q)]
    /\ clobbered' = IF NewOptions(q) /\ Options(preset[q.p]) # Options(q.seen)
                    THEN clobbered \cup {q.p} ELSE clobbered
    /\ shown' = IF NewOptions(q) /\ q.body.tabs # None THEN [shown EXCEPT ![q.p] = q.body.tabs] ELSE shown

Refuse(c) ==
    /\ Done(c)
    /\ halfDone' = IF req[c].wrote THEN halfDone \cup {req[c].body.tags} ELSE halfDone
    /\ UNCHANGED <<preset, tag, linkVars, optVars>>

\* The next tag of the body is looked up; an id that does not exist is refused with 400.
FindTag(c) ==
    LET q == req[c]
        t == q.body.tags[q.at]
    IN /\ q.pc \in {"tags", "retag"} /\ q.at <= Len(q.body.tags) /\ ~q.missing /\ MayFlush(c)
       /\ \/ /\ t.new \/ t.name \in tag
             /\ req' = IF t.name \in tag THEN [req EXCEPT ![c].at = @ + 1] ELSE [req EXCEPT ![c].missing = TRUE]
             /\ UNCHANGED <<preset, tag, linkVars, optVars, halfDone>>
          \/ ~t.new /\ t.name \notin tag /\ Refuse(c)
       /\ UNCHANGED <<drawn, config, board, work>>

\* A tag that was not found is committed, and with it the pending row of an update.  Another request
\* may have been faster with it.
InsertTag(c) ==
    LET q == req[c]
        n == q.body.tags[q.at].name
    IN /\ q.pc \in {"tags", "retag"} /\ q.missing
       /\ \/ /\ n \notin tag /\ (Writes(q) => CanWrite(q))
             /\ tag' = tag \cup {n}
             /\ req' = [req EXCEPT ![c].at = @ + 1, ![c].missing = FALSE, ![c].wrote = @ \/ Writes(q)]
             /\ IF Writes(q) THEN Flush(q) ELSE UNCHANGED <<preset, optVars>>
             /\ UNCHANGED <<linkVars, halfDone>>
          \/ (n \in tag \/ (Writes(q) /\ ~CanWrite(q))) /\ Refuse(c)
       /\ UNCHANGED <<drawn, config, board, work>>

InsertPreset(c) ==
    LET b == req[c].body
    IN /\ req[c].pc = "tags" /\ req[c].at > Len(b.tags)
       /\ \/ /\ ~Taken(b.name, None)
             /\ \E p \in Presets \ drawn :
                   /\ preset' = [preset EXCEPT ![p] = [name |-> b.name, cel |-> b.cel, tabs |-> b.tabs]]
                   /\ shown' = [shown EXCEPT ![p] = IF b.tabs = None THEN {} ELSE b.tabs]
                   /\ drawn' = drawn \cup {p}
                   /\ req' = [req EXCEPT ![c].pc = "linking", ![c].p = p]
             /\ UNCHANGED <<tag, linkVars, clobbered, halfDone>>
          \/ Taken(b.name, None) /\ Refuse(c) /\ UNCHANGED drawn
       /\ UNCHANGED <<config, board, work>>

\* The links an update deletes are those its statement sees.
TagsOf(p) == {t \in Tags : <<p, t>> \in link}
ClearLinks(c) ==
    LET q == req[c]
    IN /\ q.pc = "retag" /\ q.at > Len(q.body.tags) /\ MayFlush(c)
       /\ req' = [req EXCEPT ![c].pc = "linking", ![c].cleared = TagsOf(q.p)]
       /\ UNCHANGED <<preset, drawn, tag, linkVars, config, board, work, optVars, halfDone>>

\* Mutant: the tags of the preset are added to.
MutLinksKeptAll(p, cleared) == link

\* The links that stay when a request sets those of a preset.
LinksKept(p, cleared) == link \ ({p} \X cleared)

\* The links of a request's tags are inserted and committed, with the deletion of the others.  A
\* request that waits to do the same loses the rows that this one deletes from its own deletion.
Linked(c) ==
    LET q == req[c]
        waiting == {d \in Clients \ {c} : req[d].pc = "linking" /\ req[d].p = q.p}
    IN [d \in Clients |->
          IF d = c THEN Idle
          ELSE IF d \in waiting THEN [req[d] EXCEPT !.raced = TRUE, !.cleared = @ \ q.cleared]
          ELSE req[d]]

LinkTags(c) ==
    LET q == req[c]
        names == TagNames(q.body)
        kept == LinksKept(q.p, q.cleared)
        possible == /\ preset[q.p] # None /\ (Writes(q) => CanWrite(q))
                    /\ ({q.p} \X names) \cap kept = {}
    IN /\ q.pc = "linking"
       /\ \/ /\ possible
             /\ IF Writes(q) THEN Flush(q) ELSE UNCHANGED <<preset, optVars>>
             /\ link' = kept \cup ({q.p} \X names)
             /\ wanted' = [wanted EXCEPT ![q.p] = names]
             /\ mixed' = IF q.raced THEN mixed \cup {q.p} ELSE mixed \ {q.p}
             /\ req' = Linked(c)
             /\ UNCHANGED <<tag, halfDone>>
          \/ ~possible /\ Refuse(c)
       /\ UNCHANGED <<drawn, config, board, work>>

\* The configurations, the links and the row go in one commit.
delete_preset(c) ==
    /\ Begin(c)
    /\ \E p \in Presets :
          /\ preset[p] # None /\ RowFree(c, p)
          /\ preset' = [preset EXCEPT ![p] = None]
          /\ config' = [config EXCEPT ![p] = [u \in Users |-> None]]
          /\ link' = {l \in link : l[1] # p}
          /\ wanted' = [wanted EXCEPT ![p] = {}]
          /\ shown' = [shown EXCEPT ![p] = {}]
    /\ UNCHANGED <<drawn, tag, mixed, board, req, clobbered, halfDone>>

-----------------------------------------------------------------------------
(* Tabs. *)

Select(c, p, want) ==
    req' = [req EXCEPT ![c] = [Idle EXCEPT !.pc = "tabs", !.p = p, !.seen = preset[p], !.body = want]]

create_preset_tab(c) ==
    /\ Begin(c)
    /\ \E p \in Presets, t \in Tabs \ drawn :
          /\ preset[p] # None
          /\ drawn' = drawn \cup {t}
          /\ Select(c, p, [add |-> {t}, drop |-> {}])
    /\ UNCHANGED <<preset, tag, linkVars, config, board, optVars, halfDone>>

\* 404 when the preset has no tabs at all; an id that is not among them changes nothing.
delete_tab(c) ==
    /\ Begin(c)
    /\ \E p \in Presets, t \in Tabs :
          /\ preset[p] # None /\ preset[p].tabs # None
          /\ Select(c, p, [add |-> {}, drop |-> {t}])
    /\ UNCHANGED <<preset, drawn, tag, linkVars, config, board, optVars, halfDone>>

\* The whole column, as loaded but for the tab; nothing is written to a preset that is gone.
update_preset_options(c) ==
    LET q == req[c]
        old == IF q.seen.tabs = None THEN {} ELSE q.seen.tabs
    IN /\ q.pc = "tabs" /\ RowFree(c, q.p)
       /\ IF preset[q.p] = None
          THEN UNCHANGED <<preset, optVars>>
          ELSE /\ preset' = [preset EXCEPT ![q.p].cel = q.seen.cel,
                                           ![q.p].tabs = (old \cup q.body.add) \ q.body.drop]
               /\ shown' = [shown EXCEPT ![q.p] = (@ \cup q.body.add) \ q.body.drop]
               /\ clobbered' = IF Options(preset[q.p]) # Options(q.seen) THEN clobbered \cup {q.p} ELSE clobbered
       /\ Done(c)
       /\ UNCHANGED <<drawn, tag, linkVars, config, board, work, halfDone>>

-----------------------------------------------------------------------------
(* Per-user columns. *)

update_preset_column_config(c) ==
    /\ Begin(c)
    /\ \E p \in Presets, u \in Users, b \in [visibility : Bit, order : Bit] :
          /\ preset[p] # None
          /\ req' = [req EXCEPT ![c] = [Idle EXCEPT !.pc = "upsert", !.p = p, !.user = u,
                                                    !.seen = config[p][u], !.body = b]]
    /\ UNCHANGED <<preset, drawn, tag, linkVars, config, board, optVars, halfDone>>

\* Empty settings of the body do not clear those of the row.  A second row of the user, a row of a
\* preset that is gone and an update of a row that is gone fail.
Upsert(c) ==
    LET q == req[c]
        now == config[q.p][q.user]
    IN /\ q.pc = "upsert"
       /\ config' = [config EXCEPT ![q.p][q.user] =
             IF q.seen = None
             THEN IF now = None /\ preset[q.p] # None THEN q.body ELSE now
             ELSE IF now = None THEN None
             ELSE [f \in DOMAIN now |-> IF q.body[f] \notin {0, q.seen[f]} THEN q.body[f] ELSE now[f]]]
       /\ Done(c)
       /\ UNCHANGED <<preset, drawn, tag, linkVars, board, work, optVars, halfDone>>

-----------------------------------------------------------------------------
(* Dashboards.  Nothing makes their names unique. *)

NewBoard(n) ==
    \E b \in Boards \ drawn :
       /\ board' = [board EXCEPT ![b] = [name |-> n, config |-> 1]]
       /\ drawn' = drawn \cup {b}

create_dashboard == \E n \in Names : NewBoard(n)

\* Every start-up creates those of the environment again.
provision_dashboards == \E n \in Provisioned : NewBoard(n)

\* A field that is empty or absent is kept.
update_dashboard ==
    /\ \E b \in Boards : board[b] # None /\ \E n \in Names : board' = [board EXCEPT ![b].name = n]
    /\ UNCHANGED drawn

delete_dashboard ==
    /\ \E b \in Boards : board[b] # None /\ board' = [board EXCEPT ![b] = None]
    /\ UNCHANGED drawn

Dashboards ==
    /\ Work
    /\ create_dashboard \/ provision_dashboards \/ update_dashboard \/ delete_dashboard
    /\ UNCHANGED <<preset, tag, linkVars, config, req, optVars, halfDone>>

-----------------------------------------------------------------------------
Next ==
    \/ \E c \in Clients :
          \/ create_preset(c) \/ update_preset(c) \/ FindTag(c) \/ InsertTag(c)
          \/ InsertPreset(c) \/ ClearLinks(c) \/ LinkTags(c) \/ delete_preset(c)
          \/ create_preset_tab(c) \/ delete_tab(c) \/ update_preset_options(c)
          \/ update_preset_column_config(c) \/ Upsert(c)
    \/ Dashboards

Spec == Init /\ [][Next]_vars

-----------------------------------------------------------------------------
(* Properties. *)

\* Every variable holds values of its kind; no two presets have a name, and links, tags and
\* configurations are those of rows that exist.
TypeOK ==
    /\ \A p \in Presets : preset[p] # None =>
          /\ p \in drawn /\ preset[p].name \in Names /\ preset[p].cel \in Bit
          /\ \A q \in Presets \ {p} : preset[q] # None => preset[q].name # preset[p].name
          /\ preset[p].tabs = None \/ preset[p].tabs \subseteq Tabs
    /\ drawn \subseteq Presets \cup Tabs \cup Boards /\ tag \subseteq Tags
    /\ link \subseteq {p \in Presets : preset[p] # None} \X tag
    /\ \A p \in Presets, u \in Users :
          config[p][u] # None => preset[p] # None /\ config[p][u] \in [visibility : Bit, order : Bit]
    /\ \A b \in Boards : board[b] # None => b \in drawn
    /\ \A c \in Clients : req[c].pc \in PCs
    /\ work \in 0 .. MaxWork

\* A tab that was answered stays in the options of its preset until it is deleted or a body names the
\* tabs without it, through every update of the preset, unless a request wrote the options over ones it had not loaded
\* (update_preset_options, the merge of update_preset).
TabsStand ==
    \A p \in Presets \ clobbered :
       shown[p] # {} => preset[p].tabs # None /\ shown[p] \subseteq preset[p].tabs

\* A preset has the tags of the request that linked them last, all of them, and no others, unless
\* another request committed links of the preset between that request's deletion of the old ones (or,
\* of a creation, the commit of the row) and its own commit.
LinksAreOfTheLastRequest ==
    \A p \in Presets : wanted[p] \subseteq TagsOf(p) /\ (p \notin mixed => TagsOf(p) = wanted[p])

\* An update that is refused leaves its preset as it was, unless it brought a tag that was new: the
\* commit of that tag has then stored the rest (update_preset).
RefusedUpdateStoresNothing ==
    \A tags \in halfDone : \E i \in DOMAIN tags : tags[i].new

\* Presets, their options, links and configurations.
PresetsAreSound == TypeOK /\ TabsStand

\* A request on a preset counts as a whole.
RequestsAreWhole == LinksAreOfTheLastRequest /\ RefusedUpdateStoresNothing

=============================================================================
