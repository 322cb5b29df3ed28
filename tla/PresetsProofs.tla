--------------------------- MODULE PresetsProofs ---------------------------
(***************************************************************************)
(* The invariants of the module Presets, for every set of presets, names,  *)
(* tags, tabs, users and clients.                                          *)
(*                                                                         *)
(* What a request has read is part of the argument: the row an update      *)
(* loaded, how many of its tags exist by now, and whether the links it has *)
(* deleted, not yet committed, are still all the links of the preset.      *)
(***************************************************************************)
EXTENDS Presets, TLAPS

\* Rows, per-user settings, and the tab a request adds or drops.
PresetRows == [name : Names, cel : Bit, tabs : {None} \cup SUBSET Tabs]
Settings == [visibility : Bit, order : Bit]
TabEdits == [add : SUBSET Tabs, drop : SUBSET Tabs]
BoardRows == [name : Names, config : {1}]
Requests == [pc : PCs, p : Presets \cup {None}, seen : PresetRows \cup Settings \cup {None},
             body : PresetBodies \cup TabEdits \cup Settings \cup {None}, at : Nat, missing : BOOLEAN,
             wrote : BOOLEAN, cleared : SUBSET Tags, raced : BOOLEAN, user : Users \cup {None}]

\* What a request holds at each of its steps.
Held(q) ==
    /\ q \in Requests
    /\ q.pc \in {"tags", "retag", "linking"} => q.body \in PresetBodies
    /\ q.pc \in {"retag", "linking", "tabs", "upsert"} => q.p \in Presets
    /\ q.pc \in {"retag", "tabs"} => q.seen \in PresetRows
    /\ q.pc = "tags" => q.seen = None /\ q.cleared = {}
    /\ q.pc = "linking" => q.seen \in PresetRows \cup {None}
    /\ q.pc = "tabs" => q.body \in TabEdits
    /\ q.pc = "upsert" => q.user \in Users /\ q.body \in Settings
    /\ q.pc \in {"tags", "retag"} /\ q.missing => q.at <= Len(q.body.tags) /\ q.body.tags[q.at].new

\* A commit in the middle of an update was that of a new tag.
WroteForATag(q) ==
    q.wrote => q.pc \in {"retag", "linking"} /\ \E i \in DOMAIN q.body.tags : q.body.tags[i].new

\* The tags a request is done with exist.
TagsExist(q) ==
    /\ q.pc \in {"tags", "retag"} => q.at # 0 /\ \A i \in DOMAIN q.body.tags : i < q.at => q.body.tags[i].name \in tag
    /\ q.pc = "linking" => TagNames(q.body) \subseteq tag

\* Unless another request came between, a request has deleted all the links its preset has.
KnowsLinks(q) ==
    /\ q.pc \in {"retag", "linking"} => q.p \in drawn
    /\ q.pc = "linking" /\ ~q.raced /\ preset[q.p] # None =>
          \A t \in Tags : <<q.p, t>> \in link <=> t \in q.cleared

Typed ==
    /\ preset \in [Presets -> PresetRows \cup {None}]
    /\ drawn \subseteq Presets \cup Tabs \cup Boards /\ tag \subseteq Tags
    /\ config \in [Presets -> [Users -> Settings \cup {None}]]
    /\ board \in [Boards -> BoardRows \cup {None}]
    /\ shown \in [Presets -> SUBSET Tabs] /\ wanted \in [Presets -> SUBSET Tags]
    /\ clobbered \subseteq Presets /\ mixed \subseteq Presets
    /\ work \in 0 .. MaxWork

\* The constraints of the database.
NamesDiffer == \A p, q \in Presets : p # q /\ preset[p] # None /\ preset[q] # None => preset[p].name # preset[q].name
IdsDrawn ==
    /\ \A p \in Presets : preset[p] # None => p \in drawn
    /\ \A b \in Boards : board[b] # None => b \in drawn
OfRows ==
    /\ link \subseteq {p \in Presets : preset[p] # None} \X tag
    /\ \A p \in Presets, u \in Users : config[p][u] # None => preset[p] # None

Asked ==
    /\ req \in [Clients -> Requests]
    /\ \A c \in Clients : Held(req[c]) /\ WroteForATag(req[c]) /\ TagsExist(req[c]) /\ KnowsLinks(req[c])

TabsHeld ==
    \A p \in Presets : shown[p] # {} =>
       /\ preset[p] # None
       /\ p \notin clobbered => preset[p].tabs # None /\ shown[p] \subseteq preset[p].tabs

\* The links of a preset, one by one.
LinksWanted ==
    \A p \in Presets, t \in Tags :
       /\ t \in wanted[p] => <<p, t>> \in link
       /\ p \notin mixed /\ <<p, t>> \in link => t \in wanted[p]

PresetsInv ==
    /\ Typed /\ NamesDiffer /\ IdsDrawn /\ OfRows
    /\ Asked /\ TabsHeld /\ LinksWanted
    /\ RefusedUpdateStoresNothing

-----------------------------------------------------------------------------
(* Values. *)

\* A row is not NULL, and neither is a list of tabs.
LEMMA NotNull ==
    /\ \A row \in PresetRows : row # None
    /\ \A tabs \in SUBSET Tabs : tabs # None
BY PresetsAssumption DEF PresetRows, Bit

\* The tags of a body, by their places.
LEMMA BodyTags ==
    ASSUME NEW b \in PresetBodies
    PROVE  /\ b.name \in Names /\ b.cel \in Bit /\ b.tabs \in {None} \cup SUBSET Tabs
           /\ b.tags \in Seq(TagDtos)
           /\ \A i \in DOMAIN b.tags : b.tags[i] \in TagDtos
           /\ DOMAIN b.tags = 1 .. Len(b.tags) /\ Len(b.tags) \in Nat
           /\ TagNames(b) \subseteq Tags
<1>1. b.name \in Names /\ b.cel \in Bit /\ b.tabs \in {None} \cup SUBSET Tabs /\ b.tags \in TagLists
  BY DEF PresetBodies
<1>2. b.tags \in Seq(TagDtos)
  BY <1>1, PresetsAssumption
<1>3. DOMAIN b.tags = 1 .. Len(b.tags) /\ Len(b.tags) \in Nat /\ \A i \in DOMAIN b.tags : b.tags[i] \in TagDtos
  BY <1>2
<1>4. TagNames(b) \subseteq Tags
  BY <1>3 DEF TagNames, TagDtos
<1> QED
  BY <1>1, <1>2, <1>3, <1>4

\* A request at rest.
LEMMA IdleHeld ==
    /\ Idle \in Requests /\ Held(Idle) /\ WroteForATag(Idle) /\ TagsExist(Idle) /\ KnowsLinks(Idle)
    /\ Idle.pc = "idle" /\ ~Idle.wrote
<1>1. Idle \in Requests
  BY DEF Idle, Requests, PCs
<1> QED
  BY <1>1 DEF Idle, Held, WroteForATag, TagsExist, KnowsLinks

-----------------------------------------------------------------------------
(* One request moves. *)

\* A step leaves the links of presets as they are, or deletes the preset.
LinksStay ==
    \A r \in Presets \cap drawn :
       preset'[r] # None => preset[r] # None /\ \A t \in Tags : <<r, t>> \in link' <=> <<r, t>> \in link

\* The requests after a step of one of them; tags are never removed.
LEMMA AskedStep ==
    ASSUME Asked, NEW c \in Clients, NEW x, Held(x), WroteForATag(x), TagsExist(x)', KnowsLinks(x)',
           req' = [req EXCEPT ![c] = x], tag \subseteq tag', drawn \subseteq drawn', LinksStay
    PROVE  /\ Asked'
           /\ req'[c] = x /\ \A d \in Clients \ {c} : req'[d] = req[d]
<1>1. req'[c] = x /\ \A d \in Clients \ {c} : req'[d] = req[d]
  BY DEF Asked
<1>2. req' \in [Clients -> Requests]
  BY DEF Asked, Held
<1>3. ASSUME NEW d \in Clients
      PROVE  Held(req'[d]) /\ WroteForATag(req'[d]) /\ TagsExist(req[d])' /\ KnowsLinks(req[d])'
  <2>1. CASE d = c
    BY <2>1, <1>1 DEF TagsExist, KnowsLinks
  <2>2. CASE d # c
    <3>1. Held(req[d]) /\ WroteForATag(req[d]) /\ TagsExist(req[d]) /\ KnowsLinks(req[d])
      BY DEF Asked
    <3>2. req'[d] = req[d]
      BY <2>2, <1>1
    <3>3. TagsExist(req[d])'
      BY <3>1, <3>2 DEF TagsExist
    <3>4. KnowsLinks(req[d])'
      BY <3>1, <3>2 DEF KnowsLinks, LinksStay, Held
    <3> QED
      BY <3>1, <3>2, <3>3, <3>4
  <2> QED
    BY <2>1, <2>2
<1> QED
  BY <1>1, <1>2, <1>3 DEF Asked, Held, WroteForATag

\* A step that only reads: it changes a request, and may draw an id.
LEMMA QuietStep ==
    ASSUME PresetsInv, NEW c \in Clients, NEW x, Held(x), WroteForATag(x), TagsExist(x), KnowsLinks(x),
           req' = [req EXCEPT ![c] = x],
           drawn \subseteq drawn', drawn' \subseteq Presets \cup Tabs \cup Boards, work' \in 0 .. MaxWork,
           UNCHANGED <<preset, tag, linkVars, config, board, optVars, halfDone>>
    PROVE  PresetsInv'
<1> USE DEF linkVars, optVars
<1>1. TagsExist(x)' /\ KnowsLinks(x)'
  BY DEF TagsExist, KnowsLinks
<1>2. Asked'
  BY <1>1, AskedStep DEF PresetsInv, LinksStay
<1>4. Typed' /\ NamesDiffer' /\ IdsDrawn' /\ OfRows'
  BY DEF PresetsInv, Typed, NamesDiffer, IdsDrawn, OfRows
<1>5. TabsHeld' /\ LinksWanted' /\ RefusedUpdateStoresNothing'
  BY DEF PresetsInv, TabsHeld, LinksWanted, RefusedUpdateStoresNothing
<1> QED
  BY <1>2, <1>4, <1>5 DEF PresetsInv

-----------------------------------------------------------------------------
(* The requests that begin by reading. *)

\* The records a request begins with.
Creating(b) == [Idle EXCEPT !.pc = "tags", !.body = b]
Updating(p, row, b) == [Idle EXCEPT !.pc = "retag", !.p = p, !.seen = row, !.body = b]
Tabbing(p, row, want) == [Idle EXCEPT !.pc = "tabs", !.p = p, !.seen = row, !.body = want]
Upserting(p, u, old, b) == [Idle EXCEPT !.pc = "upsert", !.p = p, !.user = u, !.seen = old, !.body = b]

Begun(x) == Held(x) /\ WroteForATag(x) /\ TagsExist(x) /\ KnowsLinks(x)

\* Nothing of a body has been worked on at its first tag.
LEMMA FirstTag ==
    ASSUME NEW x, x.at = 1, x.body \in PresetBodies, x.pc \in {"tags", "retag"}
    PROVE  TagsExist(x)
<1>1. x.at # 0 /\ \A i \in DOMAIN x.body.tags : ~(i < x.at)
  BY BodyTags
<1>2. x.pc # "linking"
  OBVIOUS
<1> QED
  BY <1>1, <1>2, Zenon DEF TagsExist

LEMMA CreatingBegun ==
    ASSUME NEW b \in PresetBodies
    PROVE  Begun(Creating(b))
<1>1. PICK x : x = Creating(b)
  OBVIOUS
<1>2. x.pc = "tags" /\ x.body = b /\ ~x.wrote /\ ~x.missing /\ x.at = 1
      /\ x.seen = None /\ x.cleared = {}
  BY <1>1 DEF Idle, Creating
<1>3. x \in Requests
  BY <1>1 DEF Idle, Requests, PCs, Creating
<1>4. TagsExist(x)
  BY <1>2, FirstTag
<1> QED
  BY <1>1, <1>2, <1>3, <1>4, Zenon DEF Held, WroteForATag, KnowsLinks, Begun

LEMMA UpdatingBegun ==
    ASSUME NEW p \in Presets \cap drawn, NEW row \in PresetRows, NEW b \in PresetBodies
    PROVE  Begun(Updating(p, row, b))
<1>1. PICK x : x = Updating(p, row, b)
  OBVIOUS
<1>2. x.pc = "retag" /\ x.body = b /\ x.p = p /\ x.seen = row /\ ~x.wrote /\ ~x.missing /\ x.at = 1
  BY <1>1 DEF Idle, Updating
<1>3. x \in Requests
  BY <1>1 DEF Idle, Requests, PCs, Updating
<1>4. TagsExist(x)
  BY <1>2, FirstTag
<1> QED
  BY <1>1, <1>2, <1>3, <1>4, Zenon DEF Held, WroteForATag, KnowsLinks, Begun

LEMMA TabbingBegun ==
    ASSUME NEW p \in Presets, NEW row \in PresetRows, NEW want \in TabEdits
    PROVE  Begun(Tabbing(p, row, want))
<1>1. PICK x : x = Tabbing(p, row, want)
  OBVIOUS
<1>2. x.pc = "tabs" /\ x.body = want /\ x.p = p /\ x.seen = row /\ ~x.wrote
  BY <1>1 DEF Idle, Tabbing
<1>3. x \in Requests
  BY <1>1 DEF Idle, Requests, PCs, Tabbing
<1> QED
  BY <1>1, <1>2, <1>3, Zenon DEF Held, WroteForATag, TagsExist, KnowsLinks, Begun

LEMMA UpsertingBegun ==
    ASSUME NEW p \in Presets, NEW u \in Users, NEW old \in Settings \cup {None}, NEW b \in Settings
    PROVE  Begun(Upserting(p, u, old, b))
<1>1. PICK x : x = Upserting(p, u, old, b)
  OBVIOUS
<1>2. x.pc = "upsert" /\ x.body = b /\ x.p = p /\ x.user = u /\ ~x.wrote
  BY <1>1 DEF Idle, Upserting
<1>3. x \in Requests
  BY <1>1 DEF Idle, Requests, PCs, Upserting
<1> QED
  BY <1>1, <1>2, <1>3, Zenon DEF Held, WroteForATag, TagsExist, KnowsLinks, Begun

LEMMA WorkBounded ==
    ASSUME Typed, Work
    PROVE  work' \in 0 .. MaxWork
BY PresetsAssumption DEF Typed, Work

\* The reads of the routes.
LEMMA ReadsKeepInv ==
    ASSUME PresetsInv, NEW c \in Clients,
           \/ create_preset(c) \/ update_preset(c) \/ create_preset_tab(c) \/ delete_tab(c)
           \/ update_preset_column_config(c)
    PROVE  PresetsInv'
<1>0. Work => work' \in 0 .. MaxWork
  BY WorkBounded DEF PresetsInv
<1>t. drawn \subseteq Presets \cup Tabs \cup Boards
  BY DEF PresetsInv, Typed
<1>r. \A p \in Presets : preset[p] # None => preset[p] \in PresetRows /\ p \in drawn
  BY DEF PresetsInv, Typed, IdsDrawn
<1>q. ASSUME NEW x, Begun(x), req' = [req EXCEPT ![c] = x], Work,
             drawn \subseteq drawn', drawn' \subseteq Presets \cup Tabs \cup Boards,
             UNCHANGED <<preset, tag, linkVars, config, board, optVars, halfDone>>
      PROVE  PresetsInv'
  BY <1>0, <1>q, QuietStep DEF Begun
<1>1. CASE create_preset(c)
  <2>1. PICK b \in PresetBodies : req' = [req EXCEPT ![c] = Creating(b)]
    BY <1>1 DEF create_preset, Creating, Sent
  <2> QED
    BY <1>1, <1>t, <1>q, <2>1, CreatingBegun DEF create_preset, Begin
<1>2. CASE update_preset(c)
  <2>1. PICK p \in Presets, b \in PresetBodies :
          preset[p] # None /\ req' = [req EXCEPT ![c] = Updating(p, preset[p], b)]
    BY <1>2 DEF update_preset, Updating, Sent
  <2>2. PICK row \in PresetRows : row = preset[p]
    BY <1>r, <2>1
  <2> QED
    BY <1>2, <1>r, <1>t, <1>q, <2>1, <2>2, UpdatingBegun DEF update_preset, Begin
<1>3. CASE create_preset_tab(c)
  <2>1. PICK p \in Presets, t \in Tabs \ drawn :
          preset[p] # None /\ drawn' = drawn \cup {t}
          /\ req' = [req EXCEPT ![c] = Tabbing(p, preset[p], [add |-> {t}, drop |-> {}])]
    BY <1>3 DEF create_preset_tab, Select, Tabbing
  <2>2. PICK row \in PresetRows : row = preset[p]
    BY <1>r, <2>1
  <2>3. PICK want \in TabEdits : want = [add |-> {t}, drop |-> {}]
    BY DEF TabEdits
  <2> QED
    BY <1>3, <1>t, <1>q, <2>1, <2>2, <2>3, TabbingBegun DEF create_preset_tab, Begin
<1>4. CASE delete_tab(c)
  <2>1. PICK p \in Presets, t \in Tabs :
          preset[p] # None /\ req' = [req EXCEPT ![c] = Tabbing(p, preset[p], [add |-> {}, drop |-> {t}])]
    BY <1>4 DEF delete_tab, Select, Tabbing
  <2>2. PICK row \in PresetRows : row = preset[p]
    BY <1>r, <2>1
  <2>3. PICK want \in TabEdits : want = [add |-> {}, drop |-> {t}]
    BY DEF TabEdits
  <2> QED
    BY <1>4, <1>t, <1>q, <2>1, <2>2, <2>3, TabbingBegun DEF delete_tab, Begin
<1>5. CASE update_preset_column_config(c)
  <2>1. PICK p \in Presets, u \in Users, b \in Settings : req' = [req EXCEPT ![c] = Upserting(p, u, config[p][u], b)]
    BY <1>5 DEF update_preset_column_config, Settings, Upserting
  <2>2. PICK old \in Settings \cup {None} : old = config[p][u]
    BY DEF PresetsInv, Typed
  <2> QED
    BY <1>5, <1>t, <1>q, <2>1, <2>2, UpsertingBegun DEF update_preset_column_config, Begin
<1> QED
  BY <1>1, <1>2, <1>3, <1>4, <1>5

-----------------------------------------------------------------------------
(* The rows a request writes. *)

\* The tabs of the existing presets: as they were, unless written over unseen, or those of a body.
TabsFollow ==
    /\ shown' \in [Presets -> SUBSET Tabs]
    /\ \A p \in Presets : preset[p] = None => shown'[p] = shown[p]
    /\ \A p \in Presets : preset[p] # None =>
          \/ shown'[p] = shown[p] /\ (p \notin clobbered' => preset'[p].tabs = preset[p].tabs)
          \/ preset'[p].tabs # None /\ shown'[p] \subseteq preset'[p].tabs

\* A flush keeps the names apart and the existing rows; it changes the tabs of a preset to those of
\* its body, or over ones it had not loaded.
LEMMA FlushRows ==
    ASSUME Typed, NamesDiffer, NEW q, Held(q), Writes(q), CanWrite(q), Flush(q)
    PROVE  /\ preset' \in [Presets -> PresetRows \cup {None}]
           /\ NamesDiffer'
           /\ \A p \in Presets : preset'[p] = None <=> preset[p] = None
           /\ clobbered \subseteq clobbered' /\ clobbered' \subseteq Presets
           /\ TabsFollow
<1>1. q.p \in Presets /\ q.body \in PresetBodies /\ q.seen \in PresetRows
  BY DEF Held, Writes
<1>2. q.body.name \in Names /\ q.body.cel \in Bit /\ q.body.tabs \in {None} \cup SUBSET Tabs
  BY <1>1, BodyTags
<1>3. preset[q.p] \in PresetRows /\ preset[q.p] # None
  BY <1>1 DEF Typed, CanWrite
<1>4. PICK new : new = MergeOptions(q.seen, q.body)
  OBVIOUS
<1>5. /\ new \in PresetRows
      /\ new.tabs = IF q.body.tabs = None THEN q.seen.tabs ELSE q.body.tabs
  <2>1. PICK tabs \in {None} \cup SUBSET Tabs : tabs = (IF q.body.tabs = None THEN q.seen.tabs ELSE q.body.tabs)
    BY <1>1, <1>2 DEF PresetRows
  <2>2. new = [name |-> q.body.name, cel |-> q.body.cel, tabs |-> tabs]
    BY <1>4, <2>1 DEF MergeOptions
  <2> QED
    BY <1>2, <2>1, <2>2 DEF PresetRows
<1>6. PICK now : now = preset[q.p]
  OBVIOUS
<1>7. now \in PresetRows
  BY <1>3, <1>6
<1>8. PICK row : row = Pending(q)
  OBVIOUS
<1>9. row = [name |-> IF new.name # q.seen.name THEN new.name ELSE now.name,
             cel |-> IF NewOptions(q) THEN new.cel ELSE now.cel,
             tabs |-> IF NewOptions(q) THEN new.tabs ELSE now.tabs]
  BY <1>4, <1>6, <1>8 DEF Pending
<1>10. row \in PresetRows /\ row.tabs = IF NewOptions(q) THEN new.tabs ELSE now.tabs
  <2>1. PICK n \in Names, l \in Bit, tabs \in {None} \cup SUBSET Tabs :
           /\ n = (IF new.name # q.seen.name THEN new.name ELSE now.name)
           /\ l = (IF NewOptions(q) THEN new.cel ELSE now.cel)
           /\ tabs = (IF NewOptions(q) THEN new.tabs ELSE now.tabs)
    BY <1>5, <1>7 DEF PresetRows
  <2>2. row = [name |-> n, cel |-> l, tabs |-> tabs]
    BY <1>9, <2>1
  <2> QED
    BY <2>1, <2>2 DEF PresetRows
<1>11. row # None
  BY <1>10, NotNull
<1>12. preset' = [preset EXCEPT ![q.p] = row]
  BY <1>8 DEF Flush
<1>13. preset'[q.p] = row /\ \A p \in Presets \ {q.p} : preset'[p] = preset[p]
  BY <1>12, <1>1 DEF Typed
<1>14. preset' \in [Presets -> PresetRows \cup {None}]
  BY <1>10, <1>12 DEF Typed
<1>15. \A p \in Presets : preset'[p] = None <=> preset[p] = None
  BY <1>3, <1>11, <1>13
<1>16. \A p \in Presets \ {q.p} : preset[p] # None => preset[p].name # row.name
  BY <1>8 DEF CanWrite, Taken
<1>17. NamesDiffer'
  <2>1. ASSUME NEW p \in Presets, NEW r \in Presets, p # r, preset'[p] # None, preset'[r] # None
        PROVE  preset'[p].name # preset'[r].name
    <3>1. CASE p = q.p
      BY <2>1, <3>1, <1>13, <1>16
    <3>2. CASE r = q.p
      BY <2>1, <3>2, <1>13, <1>16
    <3>3. CASE p # q.p /\ r # q.p
      BY <2>1, <3>3, <1>13 DEF NamesDiffer
    <3> QED
      BY <3>1, <3>2, <3>3
  <2> QED
    BY <2>1 DEF NamesDiffer
<1>18. clobbered \subseteq clobbered' /\ clobbered' \subseteq Presets
  BY <1>1 DEF Flush, Typed
<1>19. TabsFollow
  <2>1. CASE NewOptions(q) /\ q.body.tabs # None
    <3>1. shown' = [shown EXCEPT ![q.p] = q.body.tabs] /\ row.tabs = q.body.tabs
      BY <1>5, <1>10, <2>1 DEF Flush
    <3>2. q.body.tabs \in SUBSET Tabs
      BY <1>2, <2>1
    <3>3. shown'[q.p] = q.body.tabs /\ \A p \in Presets \ {q.p} : shown'[p] = shown[p]
      BY <1>1, <3>1 DEF Typed
    <3> QED
      BY <1>3, <1>13, <2>1, <3>1, <3>2, <3>3 DEF TabsFollow, Typed
  <2>2. CASE ~(NewOptions(q) /\ q.body.tabs # None)
    <3>1. shown' = shown
      BY <2>2 DEF Flush
    <3>2. q.p \notin clobbered' => row.tabs = now.tabs
      <4>1. CASE NewOptions(q)
        <5>1. row.tabs = q.seen.tabs
          BY <1>5, <1>10, <2>2, <4>1
        <5>2. q.p \notin clobbered' => Options(now) = Options(q.seen)
          BY <1>6, <4>1 DEF Flush
        <5>3. Options(now) = Options(q.seen) => now.tabs = q.seen.tabs
          BY DEF Options
        <5> QED
          BY <5>1, <5>2, <5>3
      <4>2. CASE ~NewOptions(q)
        BY <1>10, <4>2
      <4> QED
        BY <4>1, <4>2
    <3> QED
      BY <1>6, <1>13, <3>1, <3>2 DEF TabsFollow, Typed
  <2> QED
    BY <2>1, <2>2
<1> QED
  BY <1>14, <1>15, <1>17, <1>18, <1>19

\* A commit that may flush a row, as the ones of InsertTag and LinkTags.
LEMMA MayFlushRows ==
    ASSUME Typed, NamesDiffer, NEW q, Held(q), Writes(q) => CanWrite(q),
           IF Writes(q) THEN Flush(q) ELSE UNCHANGED <<preset, optVars>>
    PROVE  /\ preset' \in [Presets -> PresetRows \cup {None}]
           /\ NamesDiffer'
           /\ \A p \in Presets : preset'[p] = None <=> preset[p] = None
           /\ clobbered \subseteq clobbered' /\ clobbered' \subseteq Presets
           /\ TabsFollow
<1>1. CASE Writes(q)
  BY <1>1, FlushRows
<1>2. CASE ~Writes(q)
  <2>1. UNCHANGED <<preset, clobbered, shown>>
    BY <1>2 DEF optVars
  <2> QED
    BY <2>1 DEF Typed, NamesDiffer, TabsFollow
<1> QED
  BY <1>1, <1>2

\* Rows of the same presets, with the tabs nobody wrote over.
LEMMA SameRows ==
    ASSUME PresetsInv,
           preset' \in [Presets -> PresetRows \cup {None}],
           \A p \in Presets : preset'[p] = None <=> preset[p] = None,
           clobbered \subseteq clobbered', clobbered' \subseteq Presets, TabsFollow,
           tag \subseteq tag', tag' \subseteq Tags,
           mixed' \subseteq Presets, wanted' \in [Presets -> SUBSET Tags],
           link' \subseteq {p \in Presets : preset[p] # None} \X tag',
           UNCHANGED <<drawn, config, board, work>>
    PROVE  Typed' /\ IdsDrawn' /\ OfRows' /\ TabsHeld'
<1>1. Typed'
  BY DEF PresetsInv, Typed, TabsFollow
<1>2. IdsDrawn'
  BY DEF PresetsInv, IdsDrawn
<1>3. OfRows'
  BY DEF PresetsInv, OfRows
<1>4. TabsHeld'
  <2>1. ASSUME NEW p \in Presets, shown'[p] # {}
        PROVE  /\ preset'[p] # None
               /\ p \notin clobbered' => preset'[p].tabs # None /\ shown'[p] \subseteq preset'[p].tabs
    <3>1. preset[p] # None
      BY <2>1 DEF TabsFollow, PresetsInv, TabsHeld
    <3>2. CASE shown'[p] = shown[p] /\ (p \notin clobbered' => preset'[p].tabs = preset[p].tabs)
      BY <2>1, <3>1, <3>2 DEF PresetsInv, TabsHeld
    <3>3. CASE preset'[p].tabs # None /\ shown'[p] \subseteq preset'[p].tabs
      BY <3>1, <3>3
    <3> QED
      BY <3>1, <3>2, <3>3 DEF TabsFollow
  <2> QED
    BY <2>1 DEF TabsHeld
<1> QED
  BY <1>1, <1>2, <1>3, <1>4

\* A request that comes to its end.
LEMMA RestStep ==
    ASSUME PresetsInv, NEW c \in Clients, Done(c), tag \subseteq tag', drawn \subseteq drawn', LinksStay
    PROVE  Asked'
<1>1. PICK x : x = Idle
  OBVIOUS
<1>2. Held(x) /\ WroteForATag(x) /\ x.pc = "idle"
  BY <1>1, IdleHeld
<1>3. TagsExist(x)' /\ KnowsLinks(x)'
  BY <1>2 DEF TagsExist, KnowsLinks
<1>4. req' = [req EXCEPT ![c] = x]
  BY <1>1 DEF Done
<1> QED
  BY <1>2, <1>3, <1>4, AskedStep DEF PresetsInv

\* A refused update had stored something only with a new tag.
LEMMA RefuseStep ==
    ASSUME PresetsInv, NEW c \in Clients, Refuse(c), UNCHANGED <<drawn, config, board, work>>
    PROVE  PresetsInv'
<1> USE DEF linkVars, optVars
<1>0. UNCHANGED <<preset, tag, linkVars, optVars>>
  BY DEF Refuse
<1>1. Asked'
  BY <1>0, RestStep DEF Refuse, LinksStay
<1>2. Typed' /\ NamesDiffer' /\ IdsDrawn' /\ OfRows' /\ TabsHeld' /\ LinksWanted'
  BY <1>0 DEF PresetsInv, Typed, NamesDiffer, IdsDrawn, OfRows, TabsHeld, LinksWanted
<1>3. req[c].wrote => \E i \in DOMAIN req[c].body.tags : req[c].body.tags[i].new
  BY DEF PresetsInv, Asked, WroteForATag
<1>4. RefusedUpdateStoresNothing'
  BY <1>3 DEF Refuse, RefusedUpdateStoresNothing, PresetsInv
<1> QED
  BY <1>1, <1>2, <1>4 DEF PresetsInv

-----------------------------------------------------------------------------
(* The steps of creating and updating a preset. *)

\* The request after one more tag.
LEMMA NextTag ==
    ASSUME NEW q, Held(q), WroteForATag(q), TagsExist(q), KnowsLinks(q),
           q.pc \in {"tags", "retag"}, q.at <= Len(q.body.tags),
           NEW w \in BOOLEAN, w => q.wrote \/ (q.pc = "retag" /\ q.body.tags[q.at].new),
           tag' = tag \cup {q.body.tags[q.at].name}, drawn' = drawn
    PROVE  \E x : /\ x = [q EXCEPT !.at = q.at + 1, !.missing = FALSE, !.wrote = w]
                  /\ Held(x) /\ WroteForATag(x) /\ TagsExist(x)' /\ KnowsLinks(x)'
                  /\ q.body.tags[q.at] \in TagDtos
<1>1. q.body \in PresetBodies /\ q.at \in Nat /\ q.at # 0
  BY DEF Held, TagsExist, Requests
<1>2. DOMAIN q.body.tags = 1 .. Len(q.body.tags) /\ Len(q.body.tags) \in Nat
      /\ \A i \in DOMAIN q.body.tags : q.body.tags[i] \in TagDtos
  BY <1>1, BodyTags
<1>3. q.at \in DOMAIN q.body.tags /\ q.at + 1 \in Nat /\ q.at + 1 # 0
  BY <1>1, <1>2
<1>4. PICK n \in Nat : n = q.at + 1
  BY <1>3
<1>5. PICK x : x = [q EXCEPT !.at = n, !.missing = FALSE, !.wrote = w]
  OBVIOUS
<1>6. x \in Requests
  BY <1>5 DEF Held, Requests
<1>7. /\ x.pc = q.pc /\ x.body = q.body /\ x.p = q.p /\ x.seen = q.seen /\ x.at = n /\ x.wrote = w /\ x.user = q.user
      /\ ~x.missing /\ x.cleared = q.cleared
  BY <1>5 DEF Held, Requests
<1>8. Held(x)
  BY <1>6, <1>7, Zenon DEF Held
<1>9. WroteForATag(x)
  BY <1>3, <1>7 DEF WroteForATag
<1>10. \A i \in DOMAIN q.body.tags : i < n => i < q.at \/ i = q.at
  BY <1>1, <1>2, <1>4
<1>11. \A i \in DOMAIN q.body.tags : i < q.at => q.body.tags[i].name \in tag
  BY DEF TagsExist
<1>12. \A i \in DOMAIN x.body.tags : i < x.at => x.body.tags[i].name \in tag'
  BY <1>7, <1>10, <1>11
<1>13. TagsExist(x)'
  <2>1. x.at # 0 /\ x.pc # "linking"
    BY <1>3, <1>4, <1>7
  <2> QED
    BY <2>1, <1>12, Zenon DEF TagsExist
<1>14. KnowsLinks(x)'
  BY <1>7 DEF KnowsLinks
<1> QED
  BY <1>2, <1>3, <1>4, <1>5, <1>7, <1>8, <1>9, <1>13, <1>14

LEMMA FindTagKeepsInv ==
    ASSUME PresetsInv, NEW c \in Clients, FindTag(c)
    PROVE  PresetsInv'
<1>1. PICK q : q = req[c]
  OBVIOUS
<1>2. Held(q) /\ WroteForATag(q) /\ TagsExist(q) /\ KnowsLinks(q)
  BY <1>1 DEF PresetsInv, Asked
<1>3. PICK t : t = q.body.tags[q.at]
  OBVIOUS
<1>4. q.pc \in {"tags", "retag"} /\ q.at <= Len(q.body.tags) /\ ~q.missing /\ UNCHANGED <<drawn, config, board, work>>
  BY <1>1 DEF FindTag
<1>5. CASE Refuse(c)
  BY <1>4, <1>5, RefuseStep
<1>6. CASE /\ t.new \/ t.name \in tag
           /\ req' = IF t.name \in tag THEN [req EXCEPT ![c].at = @ + 1] ELSE [req EXCEPT ![c].missing = TRUE]
           /\ UNCHANGED <<preset, tag, linkVars, optVars, halfDone>>
  <2>1. \E x : /\ Held(x) /\ WroteForATag(x) /\ TagsExist(x) /\ KnowsLinks(x)
               /\ req' = [req EXCEPT ![c] = x]
    <3>1. CASE t.name \in tag
      <4>1. PICK w \in BOOLEAN : w = q.wrote
        BY <1>2 DEF Held, Requests
      <4>2. tag' = tag \cup {q.body.tags[q.at].name}
        BY <1>3, <1>6, <3>1
      <4>3. w => q.wrote \/ (q.pc = "retag" /\ q.body.tags[q.at].new)
        BY <4>1
      <4>4. PICK x : /\ x = [q EXCEPT !.at = q.at + 1, !.missing = FALSE, !.wrote = w]
                     /\ Held(x) /\ WroteForATag(x) /\ TagsExist(x)' /\ KnowsLinks(x)'
        BY <1>2, <1>4, <4>2, <4>3, NextTag
      <4>5. x = [q EXCEPT !.at = q.at + 1]
        BY <1>2, <1>4, <4>1, <4>4 DEF Held, Requests
      <4>6. req' = [req EXCEPT ![c] = x]
        BY <1>1, <1>6, <3>1, <4>5 DEF PresetsInv, Asked
      <4>7. TagsExist(x) /\ KnowsLinks(x)
        BY <1>4, <1>6, <4>4 DEF TagsExist, KnowsLinks, linkVars
      <4> QED
        BY <4>4, <4>6, <4>7
    <3>2. CASE t.name \notin tag
      <4>1. PICK x : x = [q EXCEPT !.missing = TRUE]
        OBVIOUS
      <4>2. x \in Requests
        BY <1>2, <4>1 DEF Held, Requests
      <4>3. /\ x.pc = q.pc /\ x.body = q.body /\ x.p = q.p /\ x.seen = q.seen /\ x.at = q.at /\ x.wrote = q.wrote
            /\ x.user = q.user /\ x.cleared = q.cleared
        BY <1>2, <4>1 DEF Held, Requests
      <4>4. x.at <= Len(x.body.tags) /\ x.body.tags[x.at].new
        BY <1>3, <1>4, <1>6, <3>2, <4>3
      <4>5. Held(x)
        BY <1>2, <4>2, <4>3, <4>4, Zenon DEF Held
      <4>6. WroteForATag(x) /\ TagsExist(x)
        BY <1>2, <4>3, Zenon DEF WroteForATag, TagsExist
      <4>7. KnowsLinks(x)
        BY <1>2, <1>4, <4>3 DEF KnowsLinks
      <4>8. req' = [req EXCEPT ![c] = x]
        BY <1>1, <1>6, <3>2, <4>1 DEF PresetsInv, Asked
      <4> QED
        BY <4>5, <4>6, <4>7, <4>8
    <3> QED
      BY <3>1, <3>2
  <2>2. drawn' = drawn /\ drawn' \subseteq Presets \cup Tabs \cup Boards /\ work' \in 0 .. MaxWork
    BY <1>4 DEF PresetsInv, Typed
  <2> QED
    BY <1>4, <1>6, <2>1, <2>2, QuietStep
<1> QED
  BY <1>1, <1>3, <1>5, <1>6 DEF FindTag

LEMMA InsertTagKeepsInv ==
    ASSUME PresetsInv, NEW c \in Clients, InsertTag(c)
    PROVE  PresetsInv'
<1>1. PICK q : q = req[c]
  OBVIOUS
<1>2. Held(q) /\ WroteForATag(q) /\ TagsExist(q) /\ KnowsLinks(q)
  BY <1>1 DEF PresetsInv, Asked
<1>3. PICK n : n = q.body.tags[q.at].name
  OBVIOUS
<1>4. q.pc \in {"tags", "retag"} /\ q.missing /\ UNCHANGED <<drawn, config, board, work>>
  BY <1>1 DEF InsertTag
<1>5. CASE Refuse(c)
  BY <1>4, <1>5, RefuseStep
<1>6. CASE /\ n \notin tag /\ (Writes(q) => CanWrite(q))
           /\ tag' = tag \cup {n}
           /\ req' = [req EXCEPT ![c].at = @ + 1, ![c].missing = FALSE, ![c].wrote = @ \/ Writes(q)]
           /\ IF Writes(q) THEN Flush(q) ELSE UNCHANGED <<preset, optVars>>
           /\ UNCHANGED <<linkVars, halfDone>>
  <2>0. q.at <= Len(q.body.tags) /\ q.body.tags[q.at].new
    BY <1>2, <1>4 DEF Held
  <2>1. PICK w \in BOOLEAN : w <=> q.wrote \/ Writes(q)
    OBVIOUS
  <2>2. w => q.wrote \/ (q.pc = "retag" /\ q.body.tags[q.at].new)
    BY <1>4, <2>0, <2>1 DEF Writes
  <2>3. tag' = tag \cup {q.body.tags[q.at].name}
    BY <1>3, <1>6
  <2>4. PICK x : /\ x = [q EXCEPT !.at = q.at + 1, !.missing = FALSE, !.wrote = w]
                 /\ Held(x) /\ WroteForATag(x) /\ TagsExist(x)' /\ KnowsLinks(x)'
                 /\ q.body.tags[q.at] \in TagDtos
    BY <1>2, <1>4, <2>0, <2>2, <2>3, NextTag
  <2>5. req' = [req EXCEPT ![c] = x]
    <3>1. q.wrote \in BOOLEAN /\ Writes(q) \in BOOLEAN
      BY <1>2 DEF Held, Requests, Writes
    <3>2. w = (q.wrote \/ Writes(q))
      BY <2>1, <3>1
    <3>3. req \in [Clients -> Requests]
      BY DEF PresetsInv, Asked
    <3> QED
      BY <1>1, <1>6, <2>4, <3>2, <3>3
  <2>6. tag \subseteq tag' /\ tag' \subseteq Tags
    BY <2>3, <2>4 DEF PresetsInv, Typed, TagDtos
  <2>7. /\ preset' \in [Presets -> PresetRows \cup {None}]
        /\ NamesDiffer'
        /\ \A p \in Presets : preset'[p] = None <=> preset[p] = None
        /\ clobbered \subseteq clobbered' /\ clobbered' \subseteq Presets
        /\ TabsFollow
    BY <1>2, <1>6, MayFlushRows DEF PresetsInv
  <2>8. Asked'
    <3>1. LinksStay
      BY <1>6, <2>7 DEF LinksStay, linkVars
    <3> QED
      BY <1>4, <2>4, <2>5, <2>6, <3>1, AskedStep DEF PresetsInv
  <2>9. mixed' \subseteq Presets /\ wanted' \in [Presets -> SUBSET Tags]
        /\ link' \subseteq {p \in Presets : preset[p] # None} \X tag'
    BY <1>6, <2>6 DEF PresetsInv, Typed, OfRows, linkVars
  <2>10. Typed' /\ IdsDrawn' /\ OfRows' /\ TabsHeld'
    BY <1>4, <2>6, <2>7, <2>9, SameRows
  <2>11. LinksWanted' /\ RefusedUpdateStoresNothing'
    BY <1>6 DEF PresetsInv, LinksWanted, RefusedUpdateStoresNothing, linkVars
  <2> QED
    BY <2>7, <2>8, <2>10, <2>11 DEF PresetsInv
<1> QED
  BY <1>1, <1>3, <1>5, <1>6 DEF InsertTag

\* A request has looked at all of its tags when it is past the last of them.
LEMMA AllTagsExist ==
    ASSUME NEW q, Held(q), TagsExist(q), q.pc \in {"tags", "retag"}, q.at > Len(q.body.tags)
    PROVE  TagNames(q.body) \subseteq tag
<1>1. q.body \in PresetBodies /\ q.at \in Nat
  BY DEF Held, Requests
<1>2. \A i \in DOMAIN q.body.tags : i < q.at
  BY <1>1, BodyTags
<1>3. \A i \in DOMAIN q.body.tags : q.body.tags[i].name \in tag
  BY <1>2 DEF TagsExist
<1> QED
  BY <1>3 DEF TagNames

LEMMA InsertPresetKeepsInv ==
    ASSUME PresetsInv, NEW c \in Clients, InsertPreset(c)
    PROVE  PresetsInv'
<1> USE DEF linkVars
<1>1. PICK q : q = req[c]
  OBVIOUS
<1>2. Held(q) /\ WroteForATag(q) /\ TagsExist(q) /\ q.pc = "tags"
  BY <1>1 DEF PresetsInv, Asked, InsertPreset
<1>3. q.body \in PresetBodies /\ q.at \in Nat /\ q.at > Len(q.body.tags) /\ ~q.wrote
  BY <1>1, <1>2 DEF InsertPreset, Held, Requests, WroteForATag
<1>4. UNCHANGED <<config, board, work>>
  BY DEF InsertPreset
<1>5. CASE Refuse(c) /\ UNCHANGED drawn
  BY <1>4, <1>5, RefuseStep
<1>6. ASSUME ~Taken(q.body.name, None), UNCHANGED <<tag, linkVars, clobbered, halfDone>>,
             NEW p \in Presets \ drawn,
             preset' = [preset EXCEPT ![p] = [name |-> q.body.name, cel |-> q.body.cel, tabs |-> q.body.tabs]],
             shown' = [shown EXCEPT ![p] = IF q.body.tabs = None THEN {} ELSE q.body.tabs],
             drawn' = drawn \cup {p},
             req' = [req EXCEPT ![c].pc = "linking", ![c].p = p]
      PROVE  PresetsInv'
  <2>1. PICK row : row = [name |-> q.body.name, cel |-> q.body.cel, tabs |-> q.body.tabs]
    OBVIOUS
  <2>2. row \in PresetRows /\ row # None /\ row.name = q.body.name /\ row.tabs = q.body.tabs
    BY <1>3, <2>1, BodyTags, NotNull DEF PresetRows
  <2>3. preset[p] = None /\ \A t : <<p, t>> \notin link
    BY <1>6 DEF PresetsInv, IdsDrawn, OfRows
  <2>4. preset'[p] = row /\ \A r \in Presets \ {p} : preset'[r] = preset[r]
    BY <1>6, <2>1 DEF PresetsInv, Typed
  <2>5. \A r \in Presets : preset[r] # None => preset[r].name # q.body.name
    BY <1>6, PresetsAssumption DEF Taken
  <2>s. PICK tabs \in SUBSET Tabs : tabs = (IF q.body.tabs = None THEN {} ELSE q.body.tabs)
    BY <1>3, BodyTags
  <2>h. shown' = [shown EXCEPT ![p] = tabs]
    BY <1>6, <2>s
  <2>i. shown'[p] = tabs /\ \A r \in Presets \ {p} : shown'[r] = shown[r]
    BY <2>h DEF PresetsInv, Typed
  <2>6. Typed'
    BY <1>4, <1>6, <2>1, <2>2, <2>h DEF PresetsInv, Typed
  <2>7. NamesDiffer'
    BY <2>2, <2>4, <2>5 DEF PresetsInv, NamesDiffer
  <2>8. IdsDrawn'
    BY <1>4, <1>6, <2>4 DEF PresetsInv, IdsDrawn
  <2>9. OfRows'
    <3>1. \A r \in Presets : preset[r] # None => preset'[r] # None
      BY <2>2, <2>3, <2>4
    <3> QED
      BY <3>1, <1>4, <1>6 DEF PresetsInv, OfRows
  <2>10. TabsHeld'
    <3>1. shown'[p] # {} => row # None /\ row.tabs # None /\ shown'[p] \subseteq row.tabs
      BY <2>2, <2>i, <2>s
    <3> QED
      BY <1>6, <2>4, <2>i, <3>1 DEF PresetsInv, TabsHeld
  <2>11. LinksWanted' /\ RefusedUpdateStoresNothing'
    BY <1>6 DEF PresetsInv, LinksWanted, RefusedUpdateStoresNothing
  <2>12. PICK x : x = [q EXCEPT !.pc = "linking", !.p = p]
    OBVIOUS
  <2>13. /\ x.pc = "linking" /\ x.p = p /\ x.body = q.body /\ x.wrote = q.wrote
         /\ x.seen = q.seen /\ x.cleared = q.cleared /\ x.raced = q.raced
    BY <1>2, <2>12 DEF Held, Requests
  <2>14. x \in Requests
    BY <1>2, <2>12 DEF Held, Requests, PCs
  <2>15. TagNames(q.body) \subseteq tag
    BY <1>2, <1>3, AllTagsExist
  <2>c. q.seen = None /\ q.cleared = {}
    BY <1>2 DEF Held
  <2>16. Held(x) /\ WroteForATag(x) /\ TagsExist(x)'
    <3>1. x.p \in Presets /\ x.body \in PresetBodies /\ ~x.wrote /\ x.seen \in PresetRows \cup {None}
      BY <1>3, <2>13, <2>c
    <3>2. TagNames(x.body) \subseteq tag'
      BY <1>6, <2>13, <2>15
    <3>3. Held(x) /\ WroteForATag(x)
      BY <2>13, <2>14, <3>1, Zenon DEF Held, WroteForATag
    <3>4. x.pc \notin {"tags", "retag"}
      BY <2>13
    <3> QED
      BY <3>2, <3>3, <3>4, Zenon DEF TagsExist
  <2>k. KnowsLinks(x)'
    BY <1>6, <2>3, <2>13, <2>c DEF KnowsLinks
  <2>17. req' = [req EXCEPT ![c] = x]
    BY <1>1, <1>6, <2>12 DEF PresetsInv, Asked
  <2>18. Asked'
    <3>1. LinksStay
      BY <1>6, <2>4 DEF LinksStay
    <3> QED
      BY <1>6, <2>16, <2>17, <2>k, <3>1, AskedStep DEF PresetsInv
  <2> QED
    BY <2>6, <2>7, <2>8, <2>9, <2>10, <2>11, <2>18 DEF PresetsInv
<1> QED
  BY <1>1, <1>5, <1>6 DEF InsertPreset

LEMMA ClearLinksKeepsInv ==
    ASSUME PresetsInv, NEW c \in Clients, ClearLinks(c)
    PROVE  PresetsInv'
<1>1. PICK q : q = req[c]
  OBVIOUS
<1>2. Held(q) /\ WroteForATag(q) /\ TagsExist(q) /\ KnowsLinks(q) /\ q.pc = "retag" /\ q.at > Len(q.body.tags)
  BY <1>1 DEF PresetsInv, Asked, ClearLinks
<1>3. PICK x : x = [q EXCEPT !.pc = "linking", !.cleared = TagsOf(q.p)]
  OBVIOUS
<1>4. x \in Requests
  BY <1>2, <1>3 DEF Held, Requests, PCs, TagsOf
<1>5. /\ x.pc = "linking" /\ x.p = q.p /\ x.body = q.body /\ x.seen = q.seen /\ x.wrote = q.wrote
      /\ x.cleared = TagsOf(q.p)
  BY <1>2, <1>3 DEF Held, Requests
<1>6. Held(x) /\ WroteForATag(x)
  <2>1. x.p \in Presets /\ x.body \in PresetBodies /\ x.seen \in PresetRows \cup {None}
    BY <1>2, <1>5 DEF Held
  <2> QED
    BY <1>2, <1>4, <1>5, <2>1, Zenon DEF Held, WroteForATag
<1>7. TagsExist(x)
  <2>1. TagNames(x.body) \subseteq tag /\ x.pc \notin {"tags", "retag"}
    BY <1>2, <1>5, AllTagsExist
  <2> QED
    BY <2>1, Zenon DEF TagsExist
<1>8. KnowsLinks(x)
  BY <1>2, <1>5 DEF KnowsLinks, TagsOf
<1>9. req' = [req EXCEPT ![c] = x]
  BY <1>1, <1>3 DEF PresetsInv, Asked, ClearLinks
<1>10. UNCHANGED <<preset, drawn, tag, linkVars, config, board, work, optVars, halfDone>>
  BY DEF ClearLinks
<1>11. drawn \subseteq drawn' /\ drawn' \subseteq Presets \cup Tabs \cup Boards /\ work' \in 0 .. MaxWork
  BY <1>10 DEF PresetsInv, Typed
<1> QED
  BY <1>6, <1>7, <1>8, <1>9, <1>10, <1>11, QuietStep

\* The requests after one of them has linked its tags: the others of the preset know that they are
\* no longer alone with it.
LEMMA LinkedAsked ==
    ASSUME PresetsInv, NEW c \in Clients, req[c].pc = "linking", req' = Linked(c),
           tag \subseteq tag', drawn \subseteq drawn',
           \A r \in Presets : preset'[r] = None <=> preset[r] = None,
           \A r \in Presets \ {req[c].p}, t \in Tags : <<r, t>> \in link' <=> <<r, t>> \in link
    PROVE  Asked'
<1>1. PICK q : q = req[c]
  OBVIOUS
<1>2. req \in [Clients -> Requests]
  BY DEF PresetsInv, Asked
<1>3. PICK W : W = {d \in Clients \ {c} : req[d].pc = "linking" /\ req[d].p = q.p}
  OBVIOUS
<1>4. req' = [d \in Clients |-> IF d = c THEN Idle
                                ELSE IF d \in W THEN [req[d] EXCEPT !.raced = TRUE, !.cleared = @ \ q.cleared]
                                ELSE req[d]]
  BY <1>1, <1>3 DEF Linked
<1>5. ASSUME NEW d \in Clients
      PROVE  Held(req'[d]) /\ WroteForATag(req'[d]) /\ TagsExist(req[d])' /\ KnowsLinks(req[d])'
  <2>0. Held(req[d]) /\ WroteForATag(req[d]) /\ TagsExist(req[d]) /\ KnowsLinks(req[d])
    BY DEF PresetsInv, Asked
  <2>1. CASE d = c
    <3>1. PICK x : x = Idle
      OBVIOUS
    <3>2. Held(x) /\ WroteForATag(x) /\ x.pc = "idle"
      BY <3>1, IdleHeld
    <3>3. req'[d] = x
      BY <1>4, <2>1, <3>1
    <3> QED
      BY <3>2, <3>3 DEF TagsExist, KnowsLinks
  <2>2. CASE d # c /\ d \in W
    <3>1. PICK y : y = req[d]
      OBVIOUS
    <3>2. PICK x : x = [y EXCEPT !.raced = TRUE, !.cleared = @ \ q.cleared]
      OBVIOUS
    <3>3. y \in Requests /\ y.pc = "linking" /\ Held(y) /\ WroteForATag(y)
      BY <1>3, <2>0, <2>2, <3>1 DEF Held
    <3>4. x \in Requests
      BY <3>2, <3>3 DEF Requests
    <3>5. /\ x.pc = y.pc /\ x.p = y.p /\ x.body = y.body /\ x.seen = y.seen /\ x.at = y.at /\ x.wrote = y.wrote
          /\ x.user = y.user /\ x.missing = y.missing /\ x.raced
      BY <3>2, <3>3 DEF Requests
    <3>6. req'[d] = x
      BY <1>4, <2>2, <3>1, <3>2
    <3>7. Held(x) /\ WroteForATag(x)
      BY <3>3, <3>4, <3>5, Zenon DEF Held, WroteForATag
    <3>8. TagNames(y.body) \subseteq tag'
      BY <2>0, <3>1, <3>3 DEF TagsExist
    <3>9. TagsExist(req[d])'
      BY <3>3, <3>5, <3>6, <3>8 DEF TagsExist
    <3>10. y.p \in drawn'
      BY <2>0, <3>1, <3>3 DEF KnowsLinks
    <3>11. KnowsLinks(req[d])'
      BY <3>5, <3>6, <3>10 DEF KnowsLinks
    <3> QED
      BY <3>6, <3>7, <3>9, <3>11
  <2>3. CASE d # c /\ d \notin W
    <3>1. req'[d] = req[d]
      BY <1>4, <2>3
    <3>2. TagsExist(req[d])'
      BY <2>0, <3>1 DEF TagsExist
    <3>3. req[d].pc = "linking" => req[d].p \in Presets \ {q.p}
      BY <1>3, <2>0, <2>3 DEF Held
    <3>4. KnowsLinks(req[d])'
      BY <1>1, <2>0, <3>1, <3>3 DEF KnowsLinks
    <3> QED
      BY <2>0, <3>1, <3>2, <3>4
  <2> QED
    BY <2>1, <2>2, <2>3
<1>6. req' \in [Clients -> Requests]
  BY <1>4, <1>5 DEF Held
<1> QED
  BY <1>5, <1>6 DEF Asked, Held, WroteForATag

LEMMA LinkTagsKeepsInv ==
    ASSUME PresetsInv, NEW c \in Clients, LinkTags(c)
    PROVE  PresetsInv'
<1>1. PICK q : q = req[c]
  OBVIOUS
<1>2. Held(q) /\ TagsExist(q) /\ KnowsLinks(q) /\ q.pc = "linking"
  BY <1>1 DEF PresetsInv, Asked, LinkTags
<1>3. PICK p \in Presets : p = q.p
  BY <1>2 DEF Held
<1>4. PICK names : names = TagNames(q.body)
  OBVIOUS
<1>5. names \subseteq tag /\ tag \subseteq Tags
  BY <1>2, <1>4 DEF TagsExist, PresetsInv, Typed
<1>6. UNCHANGED <<drawn, config, board, work>>
  BY DEF LinkTags
<1>7. CASE Refuse(c)
  BY <1>6, <1>7, RefuseStep
<1>8. CASE /\ preset[p] # None /\ (Writes(q) => CanWrite(q))
           /\ IF Writes(q) THEN Flush(q) ELSE UNCHANGED <<preset, optVars>>
           /\ link' = LinksKept(p, q.cleared) \cup ({p} \X names)
           /\ wanted' = [wanted EXCEPT ![p] = names]
           /\ mixed' = IF q.raced THEN mixed \cup {p} ELSE mixed \ {p}
           /\ req' = Linked(c)
           /\ UNCHANGED <<tag, halfDone>>
  <2>1. /\ preset' \in [Presets -> PresetRows \cup {None}]
        /\ NamesDiffer'
        /\ \A r \in Presets : preset'[r] = None <=> preset[r] = None
        /\ clobbered \subseteq clobbered' /\ clobbered' \subseteq Presets
        /\ TabsFollow
    BY <1>2, <1>8, MayFlushRows DEF PresetsInv
  <2>2. /\ LinksWanted /\ link \subseteq {r \in Presets : preset[r] # None} \X tag
        /\ wanted \in [Presets -> SUBSET Tags] /\ mixed \subseteq Presets
    BY DEF PresetsInv, Typed, OfRows
  <2>3. link \subseteq Presets \X Tags
    BY <1>5, <2>2
  <2>4. mixed' \subseteq Presets
    BY <1>8, <2>2
  <2>5. wanted' \in [Presets -> SUBSET Tags] /\ wanted'[p] = names /\ \A r \in Presets \ {p} : wanted'[r] = wanted[r]
    BY <1>5, <1>8, <2>2
  <2>6. link' \subseteq {r \in Presets : preset[r] # None} \X tag'
    BY <1>5, <1>8, <2>2 DEF LinksKept
  <2>k. /\ \A r \in Presets \ {p}, t \in Tags : <<r, t>> \in link' <=> <<r, t>> \in link
        /\ \A t \in Tags : <<p, t>> \in link' <=> (<<p, t>> \in link /\ t \notin q.cleared) \/ t \in names
    BY <1>8 DEF LinksKept
  <2>7. LinksWanted'
    <3>1. ASSUME NEW r \in Presets, NEW t \in Tags
          PROVE  /\ t \in wanted'[r] => <<r, t>> \in link'
                 /\ r \notin mixed' /\ <<r, t>> \in link' => t \in wanted'[r]
      <4>1. CASE r = p
        <5>1. p \notin mixed' => \A u \in Tags : <<p, u>> \in link <=> u \in q.cleared
          BY <1>2, <1>3, <1>8 DEF KnowsLinks
        <5> QED
          BY <2>5, <2>k, <4>1, <5>1
      <4>2. CASE r # p
        <5>1. r \in mixed' <=> r \in mixed
          BY <1>8, <4>2
        <5> QED
          BY <2>2, <2>5, <2>k, <4>2, <5>1 DEF LinksWanted
      <4> QED
        BY <4>1, <4>2
    <3> QED
      BY <3>1 DEF LinksWanted
  <2>8. Typed' /\ IdsDrawn' /\ OfRows' /\ TabsHeld'
    BY <1>5, <1>6, <1>8, <2>1, <2>4, <2>5, <2>6, SameRows
  <2>9. Asked'
    BY <1>1, <1>2, <1>3, <1>6, <1>8, <2>1, <2>k, LinkedAsked
  <2>10. RefusedUpdateStoresNothing'
    BY <1>8 DEF PresetsInv, RefusedUpdateStoresNothing
  <2> QED
    BY <2>1, <2>7, <2>8, <2>9, <2>10 DEF PresetsInv
<1> QED
  BY <1>1, <1>3, <1>4, <1>7, <1>8 DEF LinkTags

-----------------------------------------------------------------------------
(* Deletion, tabs, columns and dashboards. *)

LEMMA DeletePresetKeepsInv ==
    ASSUME PresetsInv, NEW c \in Clients, delete_preset(c)
    PROVE  PresetsInv'
<1>1. PICK p \in Presets :
        /\ preset' = [preset EXCEPT ![p] = None]
        /\ config' = [config EXCEPT ![p] = [u \in Users |-> None]]
        /\ link' = {l \in link : l[1] # p}
        /\ wanted' = [wanted EXCEPT ![p] = {}]
        /\ shown' = [shown EXCEPT ![p] = {}]
  BY DEF delete_preset
<1>2. UNCHANGED <<drawn, tag, mixed, board, req, clobbered, halfDone>> /\ Work
  BY DEF delete_preset, Begin
<1>3. work' \in 0 .. MaxWork
  BY <1>2, WorkBounded DEF PresetsInv
<1>4. /\ preset'[p] = None /\ \A r \in Presets \ {p} : preset'[r] = preset[r]
      /\ shown'[p] = {} /\ \A r \in Presets \ {p} : shown'[r] = shown[r]
      /\ wanted'[p] = {} /\ \A r \in Presets \ {p} : wanted'[r] = wanted[r]
      /\ (\A u \in Users : config'[p][u] = None) /\ \A r \in Presets \ {p} : config'[r] = config[r]
  BY <1>1 DEF PresetsInv, Typed
<1>5. Typed'
  BY <1>1, <1>2, <1>3 DEF PresetsInv, Typed
<1>6. NamesDiffer' /\ IdsDrawn'
  BY <1>2, <1>4 DEF PresetsInv, NamesDiffer, IdsDrawn
<1>7. OfRows'
  <2>1. link' \subseteq {r \in Presets : preset'[r] # None} \X tag'
    BY <1>1, <1>2, <1>4 DEF PresetsInv, OfRows
  <2> QED
    BY <1>4, <2>1 DEF PresetsInv, OfRows
<1>8. TabsHeld'
  BY <1>2, <1>4 DEF PresetsInv, TabsHeld
<1>9. LinksWanted'
  <2>1. ASSUME NEW r \in Presets, NEW t \in Tags
        PROVE  /\ t \in wanted'[r] => <<r, t>> \in link'
               /\ r \notin mixed /\ <<r, t>> \in link' => t \in wanted'[r]
    BY <1>1, <1>4, <2>1 DEF PresetsInv, LinksWanted
  <2> QED
    BY <1>2, <2>1 DEF LinksWanted
<1>10. ASSUME NEW d \in Clients
       PROVE  KnowsLinks(req[d])'
  <2>1. KnowsLinks(req[d]) /\ Held(req[d])
    BY DEF PresetsInv, Asked
  <2>2. \A r \in Presets : preset'[r] # None =>
           preset[r] # None /\ \A t \in Tags : <<r, t>> \in link' <=> <<r, t>> \in link
    BY <1>1, <1>4
  <2> QED
    BY <1>2, <2>1, <2>2 DEF KnowsLinks, Held
<1>11. Asked' /\ RefusedUpdateStoresNothing'
  BY <1>2, <1>10 DEF PresetsInv, Asked, Held, WroteForATag, TagsExist, RefusedUpdateStoresNothing
<1> QED
  BY <1>5, <1>6, <1>7, <1>8, <1>9, <1>11 DEF PresetsInv

LEMMA UpdatePresetOptionsKeepsInv ==
    ASSUME PresetsInv, NEW c \in Clients, update_preset_options(c)
    PROVE  PresetsInv'
<1>1. PICK q : q = req[c]
  OBVIOUS
<1>2. Held(q) /\ q.pc = "tabs"
  BY <1>1 DEF PresetsInv, Asked, update_preset_options
<1>3. PICK p \in Presets : p = q.p
  BY <1>2 DEF Held
<1>4. q.seen \in PresetRows /\ q.body \in TabEdits
  BY <1>2 DEF Held
<1>5. PICK old \in SUBSET Tabs : old = (IF q.seen.tabs = None THEN {} ELSE q.seen.tabs)
  BY <1>4 DEF PresetRows
<1>6. PICK add \in SUBSET Tabs, drop \in SUBSET Tabs : add = q.body.add /\ drop = q.body.drop
  BY <1>4 DEF TabEdits
<1>7. UNCHANGED <<drawn, tag, linkVars, config, board, work, halfDone>> /\ Done(c)
  BY DEF update_preset_options
<1>8. (\A r \in Presets : preset'[r] = None <=> preset[r] = None) => Asked'
  <2> SUFFICES ASSUME \A r \in Presets : preset'[r] = None <=> preset[r] = None PROVE Asked'
    OBVIOUS
  <2>1. LinksStay
    BY <1>7 DEF LinksStay, linkVars
  <2> QED
    BY <1>7, <2>1, RestStep
<1>9. LinksWanted' /\ RefusedUpdateStoresNothing'
  BY <1>7 DEF PresetsInv, LinksWanted, RefusedUpdateStoresNothing, linkVars
<1>10. CASE preset[p] = None
  <2>1. UNCHANGED <<preset, optVars>>
    BY <1>1, <1>3, <1>10 DEF update_preset_options
  <2>2. Typed' /\ NamesDiffer' /\ IdsDrawn' /\ OfRows' /\ TabsHeld'
    BY <1>7, <2>1 DEF PresetsInv, Typed, NamesDiffer, IdsDrawn, OfRows, TabsHeld, optVars, linkVars
  <2>3. \A r \in Presets : preset'[r] = None <=> preset[r] = None
    BY <2>1
  <2> QED
    BY <1>8, <1>9, <2>2, <2>3 DEF PresetsInv
<1>11. CASE preset[p] # None
  <2>1. /\ preset' = [preset EXCEPT ![p].cel = q.seen.cel, ![p].tabs = (old \cup add) \ drop]
        /\ shown' = [shown EXCEPT ![p] = (@ \cup add) \ drop]
        /\ clobbered' = IF Options(preset[p]) # Options(q.seen) THEN clobbered \cup {p} ELSE clobbered
    BY <1>1, <1>3, <1>5, <1>6, <1>11 DEF update_preset_options
  <2>2. PICK now \in PresetRows : now = preset[p]
    BY <1>11 DEF PresetsInv, Typed
  <2>3. PICK row : row = [now EXCEPT !.cel = q.seen.cel, !.tabs = (old \cup add) \ drop]
    OBVIOUS
  <2>4. row \in PresetRows /\ row.name = now.name /\ row.tabs = (old \cup add) \ drop
    BY <1>4, <2>3 DEF PresetRows
  <2>5. row # None /\ row.tabs # None
    <3>1. (old \cup add) \ drop \in SUBSET Tabs
      OBVIOUS
    <3> QED
      BY <2>4, <3>1, NotNull
  <2>6. preset' = [preset EXCEPT ![p] = row]
    BY <2>1, <2>2, <2>3 DEF PresetsInv, Typed
  <2>7. preset'[p] = row /\ \A r \in Presets \ {p} : preset'[r] = preset[r]
    BY <2>6 DEF PresetsInv, Typed
  <2>8. shown'[p] = (shown[p] \cup add) \ drop /\ \A r \in Presets \ {p} : shown'[r] = shown[r]
    BY <2>1 DEF PresetsInv, Typed
  <2>9. clobbered \subseteq clobbered' /\ clobbered' \subseteq Presets
    BY <2>1 DEF PresetsInv, Typed
  <2>10. Typed'
    BY ZenonT(30), <1>7, <2>1, <2>4, <2>6, <2>9 DEF PresetsInv, Typed, linkVars
  <2>11. NamesDiffer' /\ IdsDrawn'
    BY <1>7, <1>11, <2>2, <2>4, <2>7 DEF PresetsInv, NamesDiffer, IdsDrawn
  <2>12. OfRows'
    <3>1. \A r \in Presets : preset[r] # None => preset'[r] # None
      BY <2>5, <2>7
    <3> QED
      BY <1>7, <3>1 DEF PresetsInv, OfRows, linkVars
  <2>13. TabsHeld'
    <3>1. p \notin clobbered' => p \notin clobbered /\ now.tabs = q.seen.tabs
      BY <2>1, <2>2 DEF Options
    <3>2. p \notin clobbered => shown[p] \subseteq (IF now.tabs = None THEN {} ELSE now.tabs)
      BY <2>2 DEF PresetsInv, TabsHeld
    <3>3. p \notin clobbered' => shown[p] \subseteq old
      BY <1>5, <3>1, <3>2
    <3>4. p \notin clobbered' => shown'[p] \subseteq row.tabs
      BY <2>4, <2>8, <3>3
    <3>5. ASSUME NEW r \in Presets, shown'[r] # {}
          PROVE  /\ preset'[r] # None
                 /\ r \notin clobbered' => preset'[r].tabs # None /\ shown'[r] \subseteq preset'[r].tabs
      <4>1. CASE r = p
        BY <2>5, <2>7, <3>4, <4>1
      <4>2. CASE r # p
        <5>1. preset'[r] = preset[r] /\ shown'[r] = shown[r] /\ (r \notin clobbered' => r \notin clobbered)
          BY <2>7, <2>8, <2>9, <4>2
        <5> QED
          BY <3>5, <5>1 DEF PresetsInv, TabsHeld
      <4> QED
        BY <4>1, <4>2
    <3> QED
      BY <3>5 DEF TabsHeld
  <2>14. \A r \in Presets : preset'[r] = None <=> preset[r] = None
    BY <1>11, <2>5, <2>7
  <2> QED
    BY <1>8, <1>9, <2>10, <2>11, <2>12, <2>13, <2>14 DEF PresetsInv
<1> QED
  BY <1>10, <1>11

LEMMA UpsertKeepsInv ==
    ASSUME PresetsInv, NEW c \in Clients, Upsert(c)
    PROVE  PresetsInv'
<1>1. PICK q : q = req[c]
  OBVIOUS
<1>2. Held(q) /\ q.pc = "upsert"
  BY <1>1 DEF PresetsInv, Asked, Upsert
<1>3. PICK p \in Presets, u \in Users, b \in Settings : p = q.p /\ u = q.user /\ b = q.body
  BY <1>2 DEF Held
<1>4. PICK now \in Settings \cup {None} : now = config[p][u]
  BY DEF PresetsInv, Typed
<1>5. UNCHANGED <<preset, drawn, tag, linkVars, board, work, optVars, halfDone>> /\ Done(c)
  BY DEF Upsert
<1>6. PICK new : new = (IF q.seen = None
                        THEN IF now = None /\ preset[p] # None THEN b ELSE now
                        ELSE IF now = None THEN None
                        ELSE [f \in DOMAIN now |-> IF b[f] \notin {0, q.seen[f]} THEN b[f] ELSE now[f]])
  OBVIOUS
<1>7. config' = [config EXCEPT ![p][u] = new]
  BY <1>1, <1>3, <1>4, <1>6 DEF Upsert
<1>8. new \in Settings \cup {None}
  <2>1. CASE q.seen = None
    BY <1>6, <2>1
  <2>2. CASE q.seen # None /\ now = None
    BY <1>6, <2>2
  <2>3. CASE q.seen # None /\ now # None
    <3>1. now \in Settings
      BY <2>3
    <3>2. DOMAIN now = {"visibility", "order"} /\ \A f \in {"visibility", "order"} : now[f] \in Bit /\ b[f] \in Bit
      BY <3>1 DEF Settings
    <3>3. new = [f \in {"visibility", "order"} |-> IF b[f] \notin {0, q.seen[f]} THEN b[f] ELSE now[f]]
      BY <1>6, <2>3, <3>2
    <3>4. DOMAIN new = {"visibility", "order"} /\ \A f \in {"visibility", "order"} : new[f] \in Bit
      BY <3>2, <3>3
    <3>5. new = [visibility |-> new.visibility, order |-> new.order]
      BY <3>3
    <3> QED
      BY <3>4, <3>5 DEF Settings
  <2> QED
    BY <2>1, <2>2, <2>3
<1>9. new # None => preset[p] # None
  <2>1. now # None => preset[p] # None
    BY <1>4 DEF PresetsInv, OfRows
  <2> QED
    BY <1>6, <2>1
<1>10. config'[p][u] = new /\ \A r \in Presets, v \in Users : r # p \/ v # u => config'[r][v] = config[r][v]
  BY <1>7 DEF PresetsInv, Typed
<1>11. config' \in [Presets -> [Users -> Settings \cup {None}]]
  BY <1>7, <1>8 DEF PresetsInv, Typed
<1>12. Typed' /\ NamesDiffer' /\ IdsDrawn' /\ TabsHeld' /\ LinksWanted' /\ RefusedUpdateStoresNothing'
  BY <1>5, <1>11 DEF PresetsInv, Typed, NamesDiffer, IdsDrawn, TabsHeld, LinksWanted, RefusedUpdateStoresNothing,
     optVars, linkVars
<1>13. OfRows'
  BY <1>5, <1>9, <1>10 DEF PresetsInv, OfRows, linkVars
<1>14. Asked'
  BY <1>5, RestStep DEF linkVars, LinksStay
<1> QED
  BY <1>12, <1>13, <1>14 DEF PresetsInv

LEMMA DashboardsKeepInv ==
    ASSUME PresetsInv, Dashboards
    PROVE  PresetsInv'
<1>1. Work /\ UNCHANGED <<preset, tag, linkVars, config, req, optVars, halfDone>>
  BY DEF Dashboards
<1>2. work' \in 0 .. MaxWork
  BY <1>1, WorkBounded DEF PresetsInv
<1>3. /\ board' \in [Boards -> BoardRows \cup {None}]
      /\ drawn \subseteq drawn' /\ drawn' \subseteq Presets \cup Tabs \cup Boards
      /\ \A b \in Boards : board'[b] # None => b \in drawn'
  <2>1. ASSUME NEW n \in Names, NewBoard(n)
        PROVE  /\ board' \in [Boards -> BoardRows \cup {None}]
               /\ drawn \subseteq drawn' /\ drawn' \subseteq Presets \cup Tabs \cup Boards
               /\ \A b \in Boards : board'[b] # None => b \in drawn'
    BY <2>1 DEF NewBoard, PresetsInv, Typed, IdsDrawn, BoardRows
  <2>2. CASE create_dashboard \/ provision_dashboards
    BY <2>1, <2>2, PresetsAssumption DEF create_dashboard, provision_dashboards
  <2>3. CASE update_dashboard
    BY <2>3 DEF update_dashboard, PresetsInv, Typed, IdsDrawn, BoardRows
  <2>4. CASE delete_dashboard
    BY <2>4 DEF delete_dashboard, PresetsInv, Typed, IdsDrawn
  <2> QED
    BY <2>2, <2>3, <2>4 DEF Dashboards
<1>4. Typed' /\ NamesDiffer' /\ IdsDrawn' /\ OfRows' /\ TabsHeld' /\ LinksWanted' /\ RefusedUpdateStoresNothing'
  BY <1>1, <1>2, <1>3 DEF PresetsInv, Typed, NamesDiffer, IdsDrawn, OfRows, TabsHeld, LinksWanted,
     RefusedUpdateStoresNothing, optVars, linkVars
<1>5. Asked'
  <2>1. ASSUME NEW d \in Clients
        PROVE  KnowsLinks(req[d])'
    <3>1. KnowsLinks(req[d])
      BY DEF PresetsInv, Asked
    <3> QED
      BY <1>1, <1>3, <3>1 DEF KnowsLinks, linkVars
  <2> QED
    BY <1>1, <2>1 DEF PresetsInv, Asked, Held, WroteForATag, TagsExist
<1> QED
  BY <1>4, <1>5 DEF PresetsInv

-----------------------------------------------------------------------------
(* The invariants. *)

LEMMA InitInv ==
    ASSUME Init
    PROVE  PresetsInv
<1>1. Typed
  BY PresetsAssumption DEF Init, Typed
<1>2. NamesDiffer /\ IdsDrawn /\ OfRows /\ TabsHeld /\ LinksWanted /\ RefusedUpdateStoresNothing
  BY DEF Init, NamesDiffer, IdsDrawn, OfRows, TabsHeld, LinksWanted, RefusedUpdateStoresNothing
<1>3. \A c \in Clients : req[c] = Idle
  BY DEF Init
<1>4. Asked
  BY <1>3, IdleHeld DEF Init, Asked
<1> QED
  BY <1>1, <1>2, <1>4 DEF PresetsInv

LEMMA StutterKeepsInv ==
    ASSUME PresetsInv, UNCHANGED vars
    PROVE  PresetsInv'
BY DEF PresetsInv, vars, linkVars, optVars, Typed, NamesDiffer, IdsDrawn, OfRows, Asked, Held, WroteForATag, TagsExist,
   KnowsLinks, TabsHeld, LinksWanted, RefusedUpdateStoresNothing

LEMMA NextKeepsInv ==
    ASSUME PresetsInv, Next
    PROVE  PresetsInv'
<1>1. ASSUME NEW c \in Clients,
             \/ create_preset(c) \/ update_preset(c) \/ create_preset_tab(c) \/ delete_tab(c)
             \/ update_preset_column_config(c)
      PROVE  PresetsInv'
  BY <1>1, ReadsKeepInv
<1>2. ASSUME NEW c \in Clients,
             FindTag(c) \/ InsertTag(c) \/ InsertPreset(c) \/ ClearLinks(c) \/ LinkTags(c)
      PROVE  PresetsInv'
  BY <1>2, FindTagKeepsInv, InsertTagKeepsInv, InsertPresetKeepsInv, ClearLinksKeepsInv, LinkTagsKeepsInv
<1>3. ASSUME NEW c \in Clients, delete_preset(c) \/ update_preset_options(c) \/ Upsert(c)
      PROVE  PresetsInv'
  BY <1>3, DeletePresetKeepsInv, UpdatePresetOptionsKeepsInv, UpsertKeepsInv
<1>4. CASE Dashboards
  BY <1>4, DashboardsKeepInv
<1> QED
  BY <1>1, <1>2, <1>3, <1>4 DEF Next

\* The inductive invariant holds of every reachable state (every route of src/routes/preset.py and
\* src/routes/dashboard.py, in every interleaving of their commits).
LEMMA InvHolds == Spec => []PresetsInv
<1>1. PresetsInv /\ [Next]_vars => PresetsInv'
  BY NextKeepsInv, StutterKeepsInv
<1> QED
  BY <1>1, InitInv, PTL DEF Spec

\* Names of presets are unique; links, tags and configurations are those of rows that exist; and a
\* tab that was answered stays until it is deleted or a body names the tabs without it, unless a
\* request wrote the options over ones it had not loaded (update_preset_options, the merge of
\* update_preset).
THEOREM PresetsSound == Spec => []PresetsAreSound
<1>1. PresetsInv => PresetsAreSound
  <2> SUFFICES ASSUME PresetsInv PROVE PresetsAreSound
    OBVIOUS
  <2>1. TabsStand
    BY DEF PresetsInv, TabsHeld, TabsStand, Typed
  <2>2. ASSUME NEW p \in Presets, preset[p] # None
        PROVE  /\ p \in drawn /\ preset[p].name \in Names /\ preset[p].cel \in Bit
               /\ \A q \in Presets \ {p} : preset[q] # None => preset[q].name # preset[p].name
               /\ preset[p].tabs = None \/ preset[p].tabs \subseteq Tabs
    <3>1. preset[p] \in PresetRows
      BY <2>2 DEF PresetsInv, Typed
    <3>2. preset[p].name \in Names /\ preset[p].cel \in Bit /\ (preset[p].tabs = None \/ preset[p].tabs \subseteq Tabs)
      BY <3>1 DEF PresetRows
    <3> QED
      BY <2>2, <3>2 DEF PresetsInv, IdsDrawn, NamesDiffer
  <2>3. \A p \in Presets, u \in Users :
          config[p][u] # None => preset[p] # None /\ config[p][u] \in [visibility : Bit, order : Bit]
    BY DEF PresetsInv, Typed, OfRows, Settings
  <2>4. \A c \in Clients : req[c].pc \in PCs
    BY DEF PresetsInv, Asked, Requests
  <2>5. TypeOK
    BY <2>2, <2>3, <2>4 DEF PresetsInv, Typed, IdsDrawn, OfRows, TypeOK
  <2> QED
    BY <2>1, <2>5 DEF PresetsAreSound
<1> QED
  BY <1>1, InvHolds, PTL

\* A request on a preset counts as a whole: the preset has all the tags of the request that linked
\* them last, and no others unless another request's links were committed between the deletion of the
\* old ones and the commit of that request; and an update that is refused has stored nothing, unless
\* the commit of a new tag stored the row with it (create_preset and update_preset of
\* src/routes/preset.py, whose statements other requests may come between).
THEOREM RequestsWhole == Spec => []RequestsAreWhole
<1>1. PresetsInv => RequestsAreWhole
  <2> SUFFICES ASSUME PresetsInv PROVE RequestsAreWhole
    OBVIOUS
  <2>1. ASSUME NEW p \in Presets
        PROVE  wanted[p] \subseteq TagsOf(p) /\ (p \notin mixed => TagsOf(p) = wanted[p])
    <3>1. wanted[p] \subseteq Tags
      BY DEF PresetsInv, Typed
    <3>2. \A t \in Tags : t \in wanted[p] => <<p, t>> \in link
      BY DEF PresetsInv, LinksWanted
    <3>3. p \notin mixed => \A t \in Tags : <<p, t>> \in link => t \in wanted[p]
      BY DEF PresetsInv, LinksWanted
    <3>4. wanted[p] \subseteq TagsOf(p)
      BY <3>1, <3>2 DEF TagsOf
    <3>5. p \notin mixed => TagsOf(p) \subseteq wanted[p]
      BY <3>3 DEF TagsOf
    <3> QED
      BY <3>4, <3>5
  <2> QED
    BY <2>1 DEF RequestsAreWhole, LinksAreOfTheLastRequest, PresetsInv
<1> QED
  BY <1>1, InvHolds, PTL
=============================================================================
