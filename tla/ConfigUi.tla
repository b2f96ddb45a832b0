------------------------------ MODULE ConfigUi ------------------------------
(***************************************************************************)
(* The custom UI (homebridge-ui/public/app.js) and the importer behind it. *)
(* The page loads the plugin's configuration from the UI host, edits its   *)
(* blocks (one per bridge, the main bridge first) and stages every change  *)
(* with the host, whose Save button writes what is staged to disk.         *)
(* Discovery, the connection test and the import are requests to the       *)
(* plugin's UI server: the user goes on clicking while they are under way, *)
(* for the spinner's wrapper swallows the host's failures.                 *)
(*                                                                         *)
(* A block is its bridge identity, name, CCU address (which stands for all *)
(* settings that the Settings view gives to every block) and its items:    *)
(* channels, variables and programs.  An item's entry is "rich" if it has  *)
(* settings that its form does not show, else "plain".  Searching, sorting *)
(* and paging hide no row for good and are left out, as is the typing of   *)
(* HomeKit names.  The host, the disk and the user are external.           *)
(***************************************************************************)
EXTENDS Naturals, Sequences, FiniteSets

CONSTANTS
  Items,       \* channel addresses, variable names and program names
  KindOf,      \* Items -> {"channel", "variable", "program"}
  Hosts,       \* CCU addresses; "" stands for none
  Identities,  \* what addChildBridge draws at random
  Others,      \* the blocks of other platforms, as one value; "none" is no block
  Saved,       \* the configurations the disk may hold at first
  Backups,     \* the hap-homematic configurations the user may import
  MaxBlocks,   \* bound: blocks for which "Add child bridge" is still clicked
  MaxCalls,    \* bound: requests under way
  MaxEdits     \* bound: changes of the configuration

Entries == {"plain", "rich"}
IsList(s) == s \in Seq({s[n] : n \in DOMAIN s})

\* Blocks on the disk may lack fields, which init() fills in.
Storable(ours) ==
  /\ IsList(ours)
  /\ \A n \in DOMAIN ours :
       /\ "ccu" \in DOMAIN ours[n] => ours[n].ccu \in Hosts
       /\ "items" \in DOMAIN ours[n] =>
            /\ DOMAIN ours[n].items \subseteq Items
            /\ \A i \in DOMAIN ours[n].items : ours[n].items[i] \in Entries

ASSUME DefaultsAssumption == "" \in Hosts /\ "none" \in Others
ASSUME SavedAssumption == \A c \in Saved : c.others \in Others /\ Storable(c.ours)
ASSUME BackupsAssumption ==
  \A k \in Backups :
    /\ k.ccu \in Hosts /\ IsList(k.instances)
    /\ DOMAIN k.mappings \subseteq Items
    /\ \A i \in DOMAIN k.mappings : k.mappings[i].entry \in Entries
ASSUME BoundsAssumption == MaxBlocks \in Nat /\ MaxCalls \in Nat \ {0} /\ MaxEdits \in Nat
ASSUME KindsAssumption == KindOf \in [Items -> {"channel", "variable", "program"}]

VARIABLES
  disk,         \* external: what is saved
  staged,       \* external: what the host's Save would write
  page,         \* where init() is suspended
  blocks,       \* state.blocks
  otherBlocks,  \* state.otherBlocks
  view,         \* state.view
  form,         \* the top of state.nav, with what its sub-view has captured
  screen,       \* what the rows and the form were drawn from
  discovered,   \* state.discovered
  calls,        \* requests under way
  spinner,      \* external: the host shows the spinner
  loaded,       \* history: init() has got the configuration
  change,       \* history: "none", or the last one was "staged", "refused" or "lost"
  edits         \* bound: changes so far

page_vars == <<page, loaded>>
config_vars == <<blocks, otherBlocks, staged, change, edits>>
screen_vars == <<view, form, screen>>
call_vars == <<discovered, calls, spinner>>
vars == <<disk, page_vars, config_vars, screen_vars, call_vars>>

NoItems == [i \in {} |-> "plain"]
DefaultBlock == [bridge |-> "none", name |-> "HomematicHap", ccu |-> "", items |-> NoItems]

Holders(b, i) == {n \in DOMAIN b : i \in DOMAIN b[n].items}
ConfiguredIn(b) == {i \in Items : Holders(b, i) # {}}
Configured == ConfiguredIn(blocks)
OfKind(S, kind) == {i \in S : KindOf[i] = kind}

-----------------------------------------------------------------------------
(* The importer (src/import/HapHomematicImporter.ts)                       *)

\* A backup is the entries named config.json in its archive (a pasted text is
\* one), what the first good one maps each of its items to, its instances and
\* the CCU's address.  The first entry that ends decides; none is an error.
Readable(k) == k.entries # <<>> /\ Head(k.entries) = "json"

\* A channel whose service has no alias is skipped; a variable or a program is kept.
Mapped(k) ==
  {i \in DOMAIN k.mappings : KindOf[i] = "channel" => k.mappings[i].service = "known"}

\* A program's entry has no settings.
ReportedItems(k) ==
  [i \in Mapped(k) |-> IF KindOf[i] = "program" THEN "plain" ELSE k.mappings[i].entry]

Warnings(k) ==
  {i \in DOMAIN k.mappings :
     \/ KindOf[i] = "channel" /\ k.mappings[i].service # "known"
     \/ KindOf[i] = "variable" /\ k.mappings[i].service = "unknown"}

\* Fault: an item without an instance lands nowhere.
LandsNowhere(k, i) ==
  LET direct == {n \in DOMAIN k.instances : k.instances[n] = k.mappings[i].instance}
  IN  IF direct = {} THEN 0 ELSE CHOOSE n \in direct : TRUE

\* targetFor: the position of an item's instance, or of the first one.
TargetFor(k, i) ==
  LET direct == {n \in DOMAIN k.instances : k.instances[n] = k.mappings[i].instance}
  IN  IF direct = {} THEN 1 ELSE CHOOSE n \in direct : TRUE

\* splitReportIntoBridges: one block per instance, whose identity is a hash of it.
Split(k) ==
  LET part(n) == {i \in Mapped(k) : TargetFor(k, i) = n}
      owner == IF k.instances = <<>> THEN <<"default">> ELSE k.instances
  IN  [n \in DOMAIN owner |->
         [bridge |-> owner[n], name |-> owner[n],
          items |-> [i \in part(n) |-> ReportedItems(k)[i]]]]

-----------------------------------------------------------------------------
(* Drawing and staging                                                     *)

\* Fault: the blocks of other platforms are forgotten.
PushOwnOnly ==
  \/ change' = "staged" /\ staged' = [others |-> "none", ours |-> blocks']
  \/ change' = "refused" /\ UNCHANGED staged

\* Fault: the change comes after its pushConfig().
PushTooEarly ==
  \/ change' = "staged" /\ staged' = [others |-> otherBlocks', ours |-> blocks]
  \/ change' = "refused" /\ UNCHANGED staged

\* The host takes the blocks, or refuses them: then the handler goes on all the same.
pushConfig ==
  \/ change' = "staged" /\ staged' = [others |-> otherBlocks', ours |-> blocks']
  \/ change' = "refused" /\ UNCHANGED staged

\* A change that reaches its pushConfig().
Stage ==
  /\ edits < MaxEdits /\ edits' = edits + 1
  /\ UNCHANGED otherBlocks
  /\ pushConfig

\* A change whose handler throws before its pushConfig().
Lose ==
  /\ edits < MaxEdits /\ edits' = edits + 1
  /\ change' = "lost"
  /\ UNCHANGED <<otherBlocks, staged>>

NoForm == [kind |-> "none"]

\* The editor of an item finds the first block that holds it.
Editor(b, i, mode) ==
  LET held == Holders(b, i)
      first == CHOOSE n \in held : \A m \in held : n <= m
  IN  [kind |-> KindOf[i], item |-> i, mode |-> mode, bridges |-> Len(b),
       target |-> IF held = {} THEN 1 ELSE first,
       entry |-> IF held = {} THEN "plain" ELSE b[first].items[i]]

\* The sub-views of a bridge throw if its index is past the end, and leave the
\* page blank.  The removal's counts the accessories that the bridge then has.
BridgeForm(b, kind, n) ==
  [kind |-> kind, index |-> n, shown |-> n \in DOMAIN b,
   items |-> IF n \in DOMAIN b THEN DOMAIN b[n].items ELSE {}]

IsEditor(f) == f.kind \in {"channel", "variable", "program"}
IsBridgeForm(f) == f.kind \in {"rename", "remove"}

\* Every sub-view is built anew, whatever its form held.
Redrawn(b, f) ==
  IF IsEditor(f) THEN Editor(b, f.item, f.mode)
  ELSE IF IsBridgeForm(f) THEN BridgeForm(b, f.kind, f.index) ELSE f

\* The rows' items and bridges; "replaced" once the blocks they show are not
\* those of the state any more.
Drawn(b) == [items |-> ConfiguredIn(b), bridges |-> Len(b), replaced |-> FALSE]

rerender == form' = Redrawn(blocks', form) /\ screen' = Drawn(blocks') /\ UNCHANGED view

\* Bound: no form is opened after the last change.
pushNav(f) ==
  /\ edits < MaxEdits
  /\ form' = f /\ screen' = Drawn(blocks) /\ UNCHANGED view

\* There is never more than one sub-view.
popNav == form' = NoForm /\ screen' = Drawn(blocks') /\ UNCHANGED view

Idle == UNCHANGED <<disk, page_vars, call_vars>>

\* Fault: the sub-view outlives its view.
NavigateUnder(v) ==
  /\ page = "ready"
  /\ view' = v /\ UNCHANGED form /\ screen' = Drawn(blocks)
  /\ UNCHANGED config_vars /\ Idle

navigate(v) ==
  /\ page = "ready"
  /\ view' = v /\ form' = NoForm /\ screen' = Drawn(blocks)
  /\ UNCHANGED config_vars /\ Idle

\* Cancel, Back or Escape.
Cancel ==
  /\ form # NoForm
  /\ UNCHANGED config_vars /\ Idle
  /\ popNav

-----------------------------------------------------------------------------
(* Loading, saving and closing the page                                    *)

Init ==
  /\ disk \in Saved /\ staged = disk
  /\ page = "closed" /\ loaded = FALSE
  /\ blocks = <<DefaultBlock>> /\ otherBlocks = "none"
  /\ change = "none" /\ edits = 0
  /\ view = "lists" /\ form = NoForm /\ screen = Drawn(<<DefaultBlock>>)
  /\ discovered = {} /\ calls = {} /\ spinner = FALSE

Open ==
  /\ page = "closed" /\ page' = "loading"
  /\ UNCHANGED <<disk, loaded, config_vars, screen_vars, call_vars>>

Normalised(b) == [f \in DOMAIN DefaultBlock |-> IF f \in DOMAIN b THEN b[f] ELSE DefaultBlock[f]]

\* getPluginConfig() answers: the blocks of other platforms are put aside.
ConfigArrives ==
  /\ page = "loading" /\ page' = "services" /\ loaded' = TRUE
  /\ blocks' = IF disk.ours = <<>> THEN <<DefaultBlock>>
               ELSE [n \in DOMAIN disk.ours |-> Normalised(disk.ours[n])]
  /\ otherBlocks' = disk.others
  /\ UNCHANGED <<disk, staged, change, edits, screen_vars, call_vars>>

\* ... or fails, and the default block stays.
ConfigFails ==
  /\ page = "loading" /\ page' = "services"
  /\ UNCHANGED <<disk, loaded, config_vars, screen_vars, call_vars>>

\* The services are answered or not; with a CCU the page opens on the
\* dashboard and discovers, else on the settings.
ServicesSettle ==
  /\ page = "services" /\ page' = "ready"
  /\ LET ccu == blocks[1].ccu IN
       IF ccu = "" THEN view' = "settings" /\ UNCHANGED call_vars
       ELSE /\ view' = "lists" /\ spinner' = TRUE
            /\ calls' = {[kind |-> "discover", ccu |-> ccu]}
            /\ UNCHANGED discovered
  /\ form' = NoForm /\ screen' = Drawn(blocks)
  /\ UNCHANGED <<disk, loaded, config_vars>>

\* The page is gone with all it had, what was not saved included.
ClosePage ==
  /\ page # "closed" /\ page' = "closed" /\ loaded' = FALSE
  /\ blocks' = <<DefaultBlock>> /\ otherBlocks' = "none" /\ staged' = disk
  /\ change' = "none"
  /\ view' = "lists" /\ form' = NoForm /\ screen' = Drawn(<<DefaultBlock>>)
  /\ discovered' = {} /\ calls' = {} /\ spinner' = FALSE
  /\ UNCHANGED <<disk, edits>>

\* The host's Save button.
HostSaves ==
  /\ page # "closed" /\ disk # staged /\ disk' = staged
  /\ UNCHANGED <<page_vars, config_vars, screen_vars, call_vars>>

-----------------------------------------------------------------------------
(* Channels, variables and programs                                        *)

OpenRow(kind, i) ==
  /\ view = "lists" /\ form = NoForm /\ KindOf[i] = kind
  /\ \/ i \in screen.items /\ pushNav(Editor(blocks, i, "edit"))
     \/ i \in discovered \ screen.items /\ pushNav(Editor(blocks, i, "add"))
  /\ UNCHANGED config_vars /\ Idle

OpenChannel(i) == page = "ready" /\ OpenRow("channel", i)
OpenVariable(i) == page = "ready" /\ OpenRow("variable", i)
OpenProgram(i) == page = "ready" /\ OpenRow("program", i)

OpenPicker(kind) ==
  /\ page = "ready" /\ view = "lists" /\ form = NoForm
  /\ OfKind(discovered, kind) # {}
  /\ pushNav([kind |-> "pick", of |-> kind])
  /\ UNCHANGED config_vars /\ Idle

\* The editor takes the picker's place.
Pick(kind, i) ==
  /\ form = [kind |-> "pick", of |-> kind]
  /\ i \in OfKind(discovered, kind) \ screen.items
  /\ pushNav(Editor(blocks, i, "add"))
  /\ UNCHANGED config_vars /\ Idle

PickChannel(i) == Pick("channel", i)
PickVariable(i) == Pick("variable", i)
PickProgram(i) == Pick("program", i)

ChangeTarget(n) ==
  /\ IsEditor(form) /\ n \in 1..form.bridges
  /\ form' = [form EXCEPT !.target = n]
  /\ UNCHANGED <<view, screen, config_vars>> /\ Idle

\* The items of f, and those of g that f does not have.
Over(f, g) == [i \in DOMAIN f \cup DOMAIN g |-> IF i \in DOMAIN f THEN f[i] ELSE g[i]]

Drop(f, i) == [j \in DOMAIN f \ {i} |-> f[j]]

\* Fault: only the first bridge is searched for the item.
DroppedFromMain(b, i) == [b EXCEPT ![1].items = Drop(@, i)]

Dropped(b, i) == [n \in DOMAIN b |-> [b[n] EXCEPT !.items = Drop(@, i)]]

\* Fault: the saved item takes the place of all that its bridge had.
PutAlone(b, n, i, entry) == [b EXCEPT ![n].items = [j \in {i} |-> entry]]

Put(b, n, i, entry) == [b EXCEPT ![n].items = Over([j \in {i} |-> entry], @)]

\* The item leaves every bridge and joins its target.  A target that is no more
\* is a TypeError: the item is gone and the form stays.
Save(kind, entry) ==
  /\ form.kind = kind
  /\ \/ /\ form.target \in DOMAIN blocks
        /\ blocks' = Put(Dropped(blocks, form.item), form.target, form.item, entry)
        /\ Stage /\ popNav
     \/ /\ form.target \notin DOMAIN blocks
        /\ blocks' = Dropped(blocks, form.item)
        /\ Lose /\ UNCHANGED screen_vars
  /\ Idle

SaveChannel == Save("channel", form.entry)

\* The forms of variables and programs write a name and nothing else.
SaveVariable == Save("variable", "plain")
SaveProgram == Save("program", "plain")

Remove(kind) ==
  /\ form.kind = kind /\ form.mode = "edit"
  /\ blocks' = Dropped(blocks, form.item)
  /\ Stage /\ popNav
  /\ Idle

RemoveChannel == Remove("channel")
RemoveVariable == Remove("variable")
RemoveProgram == Remove("program")

-----------------------------------------------------------------------------
(* Bridges and settings                                                    *)

\* Fault: the new bridge keeps the default settings.
AddBareBridge(id) ==
  /\ page = "ready" /\ view = "lists" /\ form = NoForm /\ Len(blocks) < MaxBlocks
  /\ blocks' = Append(blocks, [DefaultBlock EXCEPT !.bridge = id])
  /\ Stage /\ rerender
  /\ Idle

\* The seed of an identity is the time and a random number.
addChildBridge(id) ==
  /\ page = "ready" /\ view = "lists" /\ form = NoForm /\ Len(blocks) < MaxBlocks
  /\ blocks' = Append(blocks, [DefaultBlock EXCEPT !.bridge = id, !.ccu = blocks[1].ccu])
  /\ Stage /\ rerender
  /\ Idle

regenerateBridgeIdentity(n, id) ==
  /\ page = "ready" /\ view = "lists" /\ form = NoForm
  /\ n \in (2..screen.bridges) \cap DOMAIN blocks
  /\ blocks' = [blocks EXCEPT ![n].bridge = id]
  /\ Stage /\ rerender
  /\ Idle

OpenBridge(kind, n) ==
  /\ page = "ready" /\ view = "lists" /\ form = NoForm
  /\ n \in (IF kind = "remove" THEN 2 ELSE 1)..screen.bridges
  /\ pushNav(BridgeForm(blocks, kind, n))
  /\ UNCHANGED config_vars /\ Idle

\* The form holds the block, which an import may have replaced meanwhile.
SaveRename ==
  /\ form.kind = "rename" /\ form.shown
  /\ blocks' = IF screen.replaced THEN blocks ELSE [blocks EXCEPT ![form.index].name = "given"]
  /\ Stage /\ popNav
  /\ Idle

Spliced(b, n) == [m \in 1..(Len(b) - 1) |-> b[IF m < n THEN m ELSE m + 1]]

\* The form holds the block's position.
ConfirmRemove ==
  /\ form.kind = "remove" /\ form.shown
  /\ LET rest == IF form.index \in DOMAIN blocks THEN Spliced(blocks, form.index) ELSE blocks
     IN  blocks' = IF rest = <<>> THEN <<DefaultBlock>> ELSE rest
  /\ Stage /\ popNav
  /\ Idle

\* Every field of the Settings view is given to every bridge.
propagate(h) ==
  /\ page = "ready" /\ view = "settings"
  /\ blocks' = [n \in DOMAIN blocks |-> [blocks[n] EXCEPT !.ccu = h]]
  /\ Stage
  /\ UNCHANGED screen_vars /\ Idle

-----------------------------------------------------------------------------
(* Requests to the plugin's UI server                                      *)

\* Bound: one request of a kind at a time, a split being part of an import, and
\* none after the last change.
Start(c) ==
  /\ page = "ready" /\ Cardinality(calls) < MaxCalls /\ edits < MaxEdits
  /\ \A d \in calls : d.kind # c.kind /\ ~(c.kind = "import" /\ d.kind = "split")
  /\ calls' = calls \cup {c} /\ spinner' = TRUE
  /\ UNCHANGED <<disk, page_vars, config_vars, screen_vars, discovered>>

\* The buttons of the header are there in every view and send the main bridge's
\* block as it is now.
StartDiscover == Start([kind |-> "discover", ccu |-> blocks[1].ccu])
StartTest == Start([kind |-> "test"])

StartImport(k, multi) ==
  view = "import" /\ Start([kind |-> "import", backup |-> k, multi |-> multi])

\* Fault: a failure leaves the spinner on.
EndedSpinning(c) == calls' = calls \ {c} /\ UNCHANGED spinner

\* spinner(false) in the handler's finally, whatever else is under way.
Ended(c) == calls' = calls \ {c} /\ spinner' = FALSE

\* coerceConfig: the server refuses a configuration without a CCU.
Coerced(c) == c.ccu # ""

DiscoverReplies(c) ==
  /\ c.kind = "discover" /\ Coerced(c)
  /\ discovered' = Items
  /\ UNCHANGED <<disk, page_vars, config_vars>>
  /\ Ended(c) /\ rerender

TestReplies(c) ==
  /\ c.kind = "test"
  /\ Ended(c)
  /\ UNCHANGED <<disk, page_vars, config_vars, screen_vars, discovered>>

FilledIn(b, k) == IF b[1].ccu = "" THEN [b EXCEPT ![1].ccu = k.ccu] ELSE b

\* mergeReportIntoMain(): the imported items are put over those of the main
\* bridge.  With warnings to show and the Import view left, the handler throws
\* before it stages or draws anything.
MergeLands(c) ==
  /\ c.kind = "import" /\ ~c.multi /\ Readable(c.backup)
  /\ blocks' = [FilledIn(blocks, c.backup) EXCEPT ![1].items = Over(ReportedItems(c.backup), @)]
  /\ \/ (Warnings(c.backup) = {} \/ view = "import") /\ Stage /\ rerender
     \/ Warnings(c.backup) # {} /\ view # "import" /\ Lose /\ UNCHANGED screen_vars
  /\ Ended(c)
  /\ UNCHANGED <<disk, page_vars, discovered>>

\* The report is sent back to be split.
SplitStarts(c) ==
  /\ c.kind = "import" /\ c.multi /\ Readable(c.backup)
  /\ calls' = (calls \ {c}) \cup {[kind |-> "split", backup |-> c.backup]}
  /\ UNCHANGED <<disk, page_vars, config_vars, screen_vars, discovered, spinner>>

\* The blocks of the split replace those there are.  The main bridge keeps its
\* identity, the others get its settings.
Replaced(b, k) ==
  LET main == FilledIn(b, k)[1]
      part == Split(k)
  IN  [n \in DOMAIN part |->
         IF n = 1 THEN [main EXCEPT !.items = part[1].items, !.name = part[1].name]
         ELSE [bridge |-> part[n].bridge, name |-> part[n].name,
               ccu |-> main.ccu, items |-> part[n].items]]

\* With the Import view left, the handler throws right after the replacement.
SplitLands(c) ==
  /\ c.kind = "split"
  /\ blocks' = Replaced(blocks, c.backup)
  /\ \/ view = "import" /\ Stage /\ rerender
     \/ /\ view # "import" /\ Lose
        /\ screen' = [screen EXCEPT !.replaced = TRUE] /\ UNCHANGED <<view, form>>
  /\ Ended(c)
  /\ UNCHANGED <<disk, page_vars, discovered>>

\* The server rejects the request, the CCU does not answer it, or the channel
\* to the server fails.
CallFails(c) ==
  /\ Ended(c)
  /\ UNCHANGED <<disk, page_vars, config_vars, screen_vars, discovered>>

-----------------------------------------------------------------------------

Views == {"lists", "import", "settings"}

UserNext ==
  \/ Open \/ ClosePage \/ HostSaves
  \/ \E v \in Views : navigate(v)
  \/ Cancel
  \/ \E i \in Items : OpenChannel(i) \/ OpenVariable(i) \/ OpenProgram(i)
  \/ \E kind \in {"channel", "variable", "program"} : OpenPicker(kind)
  \/ \E i \in Items : PickChannel(i) \/ PickVariable(i) \/ PickProgram(i)
  \/ \E n \in 1..Len(blocks) : ChangeTarget(n)
  \/ SaveChannel \/ SaveVariable \/ SaveProgram
  \/ RemoveChannel \/ RemoveVariable \/ RemoveProgram
  \/ \E id \in Identities : addChildBridge(id)
  \/ \E id \in Identities, n \in DOMAIN blocks : regenerateBridgeIdentity(n, id)
  \/ \E kind \in {"rename", "remove"}, n \in 1..screen.bridges : OpenBridge(kind, n)
  \/ SaveRename \/ ConfirmRemove
  \/ \E h \in Hosts : propagate(h)
  \/ StartDiscover \/ StartTest
  \/ \E k \in Backups, multi \in BOOLEAN : StartImport(k, multi)

Answers(c) ==
  DiscoverReplies(c) \/ TestReplies(c) \/ MergeLands(c) \/ SplitStarts(c) \/ SplitLands(c)

HostNext ==
  \/ ConfigArrives \/ ConfigFails \/ ServicesSettle
  \/ \E c \in calls : Answers(c) \/ CallFails(c)

Next == UserNext \/ HostNext

\* A request ends: the server answers each one, and its calls to the CCU time out.
Fairness == WF_vars(\E c \in calls : Answers(c) \/ CallFails(c))

Spec == Init /\ [][Next]_vars /\ Fairness

-----------------------------------------------------------------------------

\* The page always has a main bridge, a form is of a kind its view has, and a
\* request under way is one the page has sent.
TypeOK ==
  /\ page \in {"closed", "loading", "services", "ready"}
  /\ blocks # <<>>
  /\ \A n \in DOMAIN blocks :
       /\ DOMAIN blocks[n] = DOMAIN DefaultBlock
       /\ blocks[n].ccu \in Hosts
       /\ DOMAIN blocks[n].items \subseteq Items
       /\ \A i \in DOMAIN blocks[n].items : blocks[n].items[i] \in Entries
  /\ otherBlocks \in Others /\ change \in {"none", "staged", "refused", "lost"}
  /\ view \in Views /\ (form # NoForm => view = "lists")
  /\ screen.items \subseteq Items /\ discovered \subseteq Items
  /\ Cardinality(calls) <= MaxCalls
  /\ \A c \in calls : c.kind \in {"discover", "test", "import", "split"}
  /\ {spinner, loaded, screen.replaced} \subseteq BOOLEAN
  /\ edits \in 0..MaxEdits

\* Once the page has got the configuration, what it stages and what the host then
\* saves keep the blocks of other platforms, through every edit, import and
\* reopening (the round trip of otherBlocks in init() and pushConfig()).
OthersRoundTrip == [][loaded => disk'.others = disk.others]_vars

\* Unless the last change was refused by the host, or its handler threw half-way,
\* what Save would write is what the page shows: that change is not left out or
\* staged too early, and with it goes all that was refused or lost before.
StagedIsShown == change = "staged" => staged = [others |-> otherBlocks, ours |-> blocks]

\* Ends of requests that change the blocks.
Landed(c) == c \in calls \ calls' /\ edits' # edits
MergeOf(k) == \E c \in calls : Landed(c) /\ c.kind = "import" /\ c.backup = k
SplitOf(k) == \E c \in calls : Landed(c) /\ c.kind = "split" /\ c.backup = k

\* An accessory leaves the configuration only from its own form, as one of those that
\* the removal form of a bridge was drawn with, by a split import, or with the page:
\* not when a bridge is added, moved or renamed, nor when a merge lands meanwhile.  But
\* under a removal form that a split has left standing, its handler having thrown, the
\* bridge at the form's position goes, which the form never showed.
NothingVanishes ==
  [][\A i \in Configured \ ConfiguredIn(blocks') :
       \/ IsEditor(form) /\ form.item = i
       \/ /\ form.kind = "remove"
          /\ IF screen.replaced THEN form.index \in Holders(blocks, i) ELSE i \in form.items
       \/ \E k \in Backups : SplitOf(k)
       \/ page' # page]_vars

\* What an import that lands has read is all in the configuration, whatever the
\* user did meanwhile, and a split gives every item to exactly one bridge, those
\* of an unknown instance included.
ImportLandsWhole ==
  [][\A k \in Backups :
       /\ MergeOf(k) => Mapped(k) \subseteq DOMAIN blocks'[1].items
       /\ SplitOf(k) => \A i \in Mapped(k) : Cardinality(Holders(blocks', i)) = 1]_vars

\* No accessory comes to be on two bridges but by a merge over one that a child
\* bridge has, and an item that is saved is on one bridge even then.
OneBridgeEach ==
  [][\A i \in Items :
       LET before == Cardinality(Holders(blocks, i))
           after == Cardinality(Holders(blocks', i))
       IN  after > 1 /\ page' = page =>
             \/ after = before /\ ~(form # NoForm /\ form' = NoForm /\ edits' # edits
                                     /\ IsEditor(form) /\ form.item = i)
             \/ after < before /\ form.kind = "remove"
             \/ after = before + 1 /\ \E k \in Backups : MergeOf(k)]_vars

Common(b) == \A m, n \in DOMAIN b : b[m].ccu = b[n].ccu

\* The bridges keep the settings they share: each is its own process with its
\* own connection, and the page shows those of the main bridge only.  (A merge
\* into a main bridge without a CCU is the exception.)
SettingsStayCommon ==
  [][Common(blocks) /\ page' = page /\ ~(blocks[1].ccu = "" /\ \E k \in Backups : MergeOf(k))
       => Common(blocks')]_vars

\* The spinner is taken away again, whatever becomes of the request.
SpinnerEnds == spinner ~> ~spinner

\* The Import view: "Existing accessories are kept; imported entries are merged
\* on top."
ImportKeeps ==
  [][\A k \in Backups : MergeOf(k) \/ SplitOf(k) => Configured \subseteq ConfiguredIn(blocks')]_vars

=============================================================================
