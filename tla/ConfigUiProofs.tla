--------------------------- MODULE ConfigUiProofs ---------------------------
(***************************************************************************)
(* What the custom UI promises about other platforms' blocks, about what   *)
(* is staged and about what becomes of the accessories and the shared      *)
(* settings while the user edits and imports, for every configuration,     *)
(* backup and bound.  All of it rests on the page having nothing staged    *)
(* before it has loaded the configuration.                                 *)
(***************************************************************************)
EXTENDS ConfigUi, SequenceTheorems, FiniteSetTheorems, FunctionTheorems, TLAPS

-----------------------------------------------------------------------------
(* The page and what is staged                                             *)

\* Nothing is staged before the page asks for the configuration, and all three
\* copies of the other platforms' blocks agree once it has got it.
Trip ==
  /\ page \in {"closed", "loading"} => staged = disk /\ ~loaded
  /\ loaded => otherBlocks = disk.others /\ staged.others = disk.others

\* Before the configuration has arrived nothing has been changed.
Shown ==
  /\ page \in {"closed", "loading"} => change = "none"
  /\ StagedIsShown

\* A change whose handler comes to its end is staged as it is shown, or refused.
LEMMA StageEffect ==
  ASSUME Stage
  PROVE  /\ otherBlocks' = otherBlocks
         /\ \/ change' = "staged" /\ staged' = [others |-> otherBlocks', ours |-> blocks']
            \/ change' = "refused" /\ staged' = staged
BY DEF Stage, pushConfig

\* A handler that threw has staged nothing.
LEMMA LoseEffect ==
  ASSUME Lose
  PROVE  staged' = staged /\ otherBlocks' = otherBlocks /\ change' = "lost"
BY DEF Lose

\* Until the page is ready it shows no form and has no request under way.
Quiet == page # "ready" => form = NoForm /\ calls = {}

\* A handler of the ready page changes the blocks, and stages or loses the
\* change, or leaves the configuration alone.
Works ==
  /\ page = "ready" /\ UNCHANGED <<disk, page, loaded>>
  /\ Stage \/ Lose \/ UNCHANGED <<blocks, otherBlocks, staged, change>>

\* Every step is one of these or a step of the page itself.
LEMMA Kinds ==
  ASSUME Quiet, [Next]_vars
  PROVE  \/ Works \/ UNCHANGED vars
         \/ Open \/ ClosePage \/ HostSaves
         \/ ConfigArrives \/ ConfigFails \/ ServicesSettle
<1> USE DEF Quiet, NoForm, Works, Idle, page_vars, config_vars, call_vars, screen_vars
<1>1. CASE UNCHANGED vars
  BY <1>1
<1>2. CASE UserNext
  <2>1. CASE Open \/ ClosePage \/ HostSaves
    BY <2>1
  <2>2. CASE \E v \in Views : navigate(v)
    BY <2>2 DEF navigate
  <2>3. CASE Cancel
    BY <2>3 DEF Cancel
  <2>4. CASE \E i \in Items : OpenChannel(i) \/ OpenVariable(i) \/ OpenProgram(i)
    BY <2>4 DEF OpenChannel, OpenVariable, OpenProgram, OpenRow
  <2>5. CASE \E kind \in {"channel", "variable", "program"} : OpenPicker(kind)
    BY <2>5 DEF OpenPicker
  <2>6. CASE \E i \in Items : PickChannel(i) \/ PickVariable(i) \/ PickProgram(i)
    BY <2>6 DEF PickChannel, PickVariable, PickProgram, Pick
  <2>7. CASE \E n \in 1..Len(blocks) : ChangeTarget(n)
    BY <2>7 DEF ChangeTarget, IsEditor
  <2>8. CASE SaveChannel \/ SaveVariable \/ SaveProgram
    BY <2>8 DEF SaveChannel, SaveVariable, SaveProgram, Save
  <2>9. CASE RemoveChannel \/ RemoveVariable \/ RemoveProgram
    BY <2>9 DEF RemoveChannel, RemoveVariable, RemoveProgram, Remove
  <2>10. CASE \E id \in Identities : addChildBridge(id)
    BY <2>10 DEF addChildBridge
  <2>11. CASE \E id \in Identities, n \in DOMAIN blocks : regenerateBridgeIdentity(n, id)
    BY <2>11 DEF regenerateBridgeIdentity
  <2>12. CASE \E kind \in {"rename", "remove"}, n \in 1..screen.bridges : OpenBridge(kind, n)
    BY <2>12 DEF OpenBridge
  <2>13. CASE SaveRename \/ ConfirmRemove
    BY <2>13 DEF SaveRename, ConfirmRemove
  <2>14. CASE \E h \in Hosts : propagate(h)
    BY <2>14 DEF propagate
  <2>15. CASE StartDiscover \/ StartTest \/ \E k \in Backups, multi \in BOOLEAN : StartImport(k, multi)
    BY <2>15 DEF StartDiscover, StartTest, StartImport, Start
  <2> QED
    BY <1>2, <2>1, <2>2, <2>3, <2>4, <2>5, <2>6, <2>7, <2>8, <2>9, <2>10, <2>11, <2>12,
       <2>13, <2>14, <2>15 DEF UserNext
<1>3. CASE HostNext
  <2>1. CASE ConfigArrives \/ ConfigFails \/ ServicesSettle
    BY <2>1
  <2>2. ASSUME NEW c \in calls, Answers(c) \/ CallFails(c)
        PROVE  Works
    BY <2>2, calls # {} DEF Answers, CallFails, DiscoverReplies, TestReplies, MergeLands, SplitStarts, SplitLands
  <2> QED
    BY <1>3, <2>1, <2>2 DEF HostNext
<1> QED
  BY <1>1, <1>2, <1>3 DEF Next

-----------------------------------------------------------------------------

\* Nothing of the page outlives it, and it starts with nothing.
LEMMA QuietNext == Quiet /\ [Next]_vars => Quiet'
<1> SUFFICES ASSUME Quiet, [Next]_vars
             PROVE  Quiet'
  OBVIOUS
<1> USE DEF Quiet, NoForm, screen_vars, call_vars, page_vars
<1>1. CASE Works
  BY <1>1 DEF Works
<1>2. CASE UNCHANGED vars
  BY <1>2 DEF vars
<1>3. CASE Open \/ HostSaves \/ ConfigArrives \/ ConfigFails
  BY <1>3 DEF Open, HostSaves, ConfigArrives, ConfigFails
<1>4. CASE ClosePage \/ ServicesSettle
  BY <1>4 DEF ClosePage, ServicesSettle
<1> QED
  BY <1>1, <1>2, <1>3, <1>4, Kinds

\* The copies of the other platforms' blocks go on agreeing.
LEMMA TripNext == Quiet /\ Trip /\ [Next]_vars => Trip'
<1> SUFFICES ASSUME Quiet, Trip, [Next]_vars
             PROVE  Trip'
  OBVIOUS
<1> USE DEF Trip, page_vars, config_vars
<1>1. CASE Works
  <2>1. otherBlocks' = otherBlocks
    BY <1>1, StageEffect, LoseEffect DEF Works
  <2>2. staged'.others = otherBlocks \/ staged' = staged
    BY <1>1, <2>1, StageEffect, LoseEffect DEF Works
  <2> QED
    BY <1>1, <2>1, <2>2 DEF Works
<1>2. CASE UNCHANGED vars
  BY <1>2 DEF vars
<1>3. CASE Open \/ HostSaves \/ ConfigArrives
  BY <1>3 DEF Open, HostSaves, ConfigArrives
<1>4. CASE ClosePage
  BY <1>4 DEF ClosePage
<1>5. CASE ConfigFails
  BY <1>5 DEF ConfigFails
<1>6. CASE ServicesSettle
  BY <1>6 DEF ServicesSettle
<1> QED
  BY <1>1, <1>2, <1>3, <1>4, <1>5, <1>6, Kinds

\* What is staged goes on being what is shown.
LEMMA ShownNext == Quiet /\ Shown /\ [Next]_vars => Shown'
<1> SUFFICES ASSUME Quiet, Shown, [Next]_vars
             PROVE  Shown'
  OBVIOUS
<1> USE DEF Shown, StagedIsShown, page_vars, config_vars
<1>1. CASE Works
  BY <1>1, StageEffect, LoseEffect DEF Works
<1>2. CASE UNCHANGED vars
  BY <1>2 DEF vars
<1>3. CASE Open \/ HostSaves \/ ConfigArrives
  BY <1>3 DEF Open, HostSaves, ConfigArrives
<1>4. CASE ClosePage \/ ConfigFails \/ ServicesSettle
  BY <1>4 DEF ClosePage, ConfigFails, ServicesSettle
<1> QED
  BY <1>1, <1>2, <1>3, <1>4, Kinds

\* Only the host's Save writes the disk, and it writes what is staged.
LEMMA DiskStep == Quiet /\ Trip /\ [Next]_vars => (loaded => disk'.others = disk.others)
<1> SUFFICES ASSUME Quiet, Trip, [Next]_vars, loaded
             PROVE  disk'.others = disk.others
  OBVIOUS
<1>1. CASE HostSaves
  BY <1>1 DEF HostSaves, Trip
<1>2. CASE Works \/ UNCHANGED vars \/ Open \/ ClosePage
  BY <1>2 DEF Works, vars, Open, ClosePage
<1>3. CASE ConfigArrives \/ ConfigFails \/ ServicesSettle
  BY <1>3 DEF ConfigArrives, ConfigFails, ServicesSettle
<1> QED
  BY <1>1, <1>2, <1>3, Kinds

\* Form and requests belong to the ready page.
LEMMA QuietInvariant == Spec => []Quiet
<1>1. Init => Quiet
  BY DEF Init, Quiet
<1> QED
  BY <1>1, QuietNext, PTL DEF Spec

\* Saving never touches what other platforms have configured, once the page has
\* read it: whatever is edited, imported, removed or thrown half-way.
THEOREM SavesKeepOtherPlatforms == Spec => OthersRoundTrip
<1>1. Init => Trip
  BY DEF Init, Trip
<1>2. Quiet /\ Trip /\ [Next]_vars => [loaded => disk'.others = disk.others]_vars
  BY DiskStep
<1> QED
  BY <1>1, <1>2, QuietInvariant, TripNext, PTL DEF Spec, OthersRoundTrip

\* After every change that the host was given and took, what Save would write is what
\* the page shows, with the blocks of other platforms before it: whatever was refused
\* or lost before.
THEOREM WhatIsStagedIsShown == Spec => []StagedIsShown
<1>1. Init => Shown
  BY DEF Init, Shown, StagedIsShown
<1>2. Shown => StagedIsShown
  BY DEF Shown
<1> QED
  BY <1>1, <1>2, QuietInvariant, ShownNext, PTL DEF Spec

-----------------------------------------------------------------------------
(* Lists                                                                   *)

\* A function on the first n numbers is a list.
LEMMA ListOfFunction ==
  ASSUME NEW n \in Nat, NEW f, DOMAIN f = 1..n, f = [k \in DOMAIN f |-> f[k]]
  PROVE  IsList(f) /\ Len(f) = n
<1> DEFINE S == {f[k] : k \in DOMAIN f}
<1>1. f \in [1..n -> S]
  BY Zenon
<1> HIDE DEF S
<1>2. f \in Seq(S) /\ Len(f) = n
  BY <1>1
<1> QED
  BY <1>2 DEF IsList, S

\* The positions of a list.
LEMMA ListPositions ==
  ASSUME NEW b, IsList(b)
  PROVE  Len(b) \in Nat /\ DOMAIN b = 1..Len(b) /\ b = [n \in DOMAIN b |-> b[n]]
<1>1. b \in [1..Len(b) -> {b[n] : n \in DOMAIN b}] /\ Len(b) \in Nat /\ DOMAIN b = 1..Len(b)
  BY LenProperties DEF IsList
<1> QED
  BY <1>1

\* What a list becomes when a block is added at its end.
LEMMA ListAppend ==
  ASSUME NEW b, IsList(b), NEW r
  PROVE  /\ IsList(Append(b, r)) /\ Len(Append(b, r)) = Len(b) + 1
         /\ DOMAIN Append(b, r) = DOMAIN b \cup {Len(b) + 1}
         /\ \A n \in DOMAIN b : Append(b, r)[n] = b[n]
         /\ Append(b, r)[Len(b) + 1] = r
<1> DEFINE S == {b[n] : n \in DOMAIN b} \cup {r}
<1>1. b \in Seq(S)
  BY SeqMonotonic DEF IsList
<1>2. Len(b) \in Nat /\ DOMAIN b = 1..Len(b)
  BY ListPositions
<1>3. r \in S
  OBVIOUS
<1> HIDE DEF S
<1> DEFINE a == Append(b, r)
<1>4. a \in Seq(S) /\ Len(a) = Len(b) + 1 /\ a[Len(b) + 1] = r
      /\ \A n \in 1..Len(b) : a[n] = b[n]
  BY <1>1, <1>3
<1> HIDE DEF a
<1>5. DOMAIN a = 1..(Len(b) + 1) /\ a = [k \in DOMAIN a |-> a[k]] /\ Len(b) + 1 \in Nat
  <2>1. a \in [1..Len(a) -> S] /\ DOMAIN a = 1..Len(a)
    BY <1>4, LenProperties
  <2> QED
    BY <1>2, <1>4, <2>1
<1>6. IsList(a)
  BY <1>2, <1>5, ListOfFunction
<1>7. 1..(Len(b) + 1) = 1..Len(b) \cup {Len(b) + 1}
  BY <1>2
<1> QED
  BY <1>2, <1>4, <1>5, <1>6, <1>7 DEF a

-----------------------------------------------------------------------------
(* Blocks                                                                  *)

IsItems(f) == DOMAIN f \subseteq Items /\ \A i \in DOMAIN f : f[i] \in Entries
IsBlock(r) == DOMAIN r = DOMAIN DefaultBlock /\ r.ccu \in Hosts /\ IsItems(r.items)
GoodBlocks(b) == IsList(b) /\ 1 \in DOMAIN b /\ \A n \in DOMAIN b : IsBlock(b[n])

\* The fields of a block.
LEMMA Fields == DOMAIN DefaultBlock = {"bridge", "name", "ccu", "items"}
BY DEF DefaultBlock

\* What an assignment to one field leaves of the others.
LEMMA SetItems ==
  ASSUME NEW r, IsBlock(r), NEW x, IsItems(x)
  PROVE  LET c == [r EXCEPT !.items = x] IN IsBlock(c) /\ c.items = x /\ c.ccu = r.ccu
BY Fields DEF IsBlock

LEMMA SetCcu ==
  ASSUME NEW r, IsBlock(r), NEW x \in Hosts
  PROVE  LET c == [r EXCEPT !.ccu = x] IN IsBlock(c) /\ c.items = r.items /\ c.ccu = x
BY Fields DEF IsBlock

LEMMA SetBridge ==
  ASSUME NEW r, IsBlock(r), NEW x
  PROVE  LET c == [r EXCEPT !.bridge = x] IN IsBlock(c) /\ c.items = r.items /\ c.ccu = r.ccu
BY Fields DEF IsBlock

LEMMA SetName ==
  ASSUME NEW r, IsBlock(r), NEW x
  PROVE  LET c == [r EXCEPT !.name = x] IN IsBlock(c) /\ c.items = r.items /\ c.ccu = r.ccu
BY Fields DEF IsBlock

\* A block without accessories.
LEMMA DefaultIsBlock == IsBlock(DefaultBlock) /\ DefaultBlock.items = NoItems /\ DefaultBlock.ccu = ""
<1>1. IsItems(NoItems)
  BY DEF IsItems, NoItems
<1> QED
  BY <1>1, DefaultsAssumption DEF IsBlock, DefaultBlock

\* A list of blocks in the place of another one.
LEMMA SamePositions ==
  ASSUME NEW b, GoodBlocks(b), NEW c, DOMAIN c = DOMAIN b, c = [n \in DOMAIN c |-> c[n]],
         \A n \in DOMAIN b : IsBlock(c[n])
  PROVE  GoodBlocks(c)
<1>1. Len(b) \in Nat /\ DOMAIN b = 1..Len(b)
  BY ListPositions DEF GoodBlocks
<1>2. IsList(c)
  BY <1>1, ListOfFunction
<1> QED
  BY <1>2 DEF GoodBlocks

\* One block of a list is replaced.
LEMMA OneReplaced ==
  ASSUME NEW b, GoodBlocks(b), NEW n \in DOMAIN b, NEW r, IsBlock(r)
  PROVE  /\ GoodBlocks([b EXCEPT ![n] = r])
         /\ DOMAIN [b EXCEPT ![n] = r] = DOMAIN b
         /\ [b EXCEPT ![n] = r][n] = r
         /\ \A m \in DOMAIN b \ {n} : [b EXCEPT ![n] = r][m] = b[m]
<1> DEFINE c == [b EXCEPT ![n] = r]
<1>1. /\ DOMAIN c = DOMAIN b /\ c[n] = r /\ \A m \in DOMAIN b \ {n} : c[m] = b[m]
      /\ c = [m \in DOMAIN c |-> c[m]]
  OBVIOUS
<1> HIDE DEF c
<1>2. \A m \in DOMAIN b : IsBlock(c[m])
  BY Zenon, <1>1 DEF GoodBlocks
<1>3. GoodBlocks(c)
  BY <1>1, <1>2, SamePositions
<1> QED
  BY <1>1, <1>3 DEF c

\* A configuration without blocks of the plugin.
LEMMA OnlyDefault == GoodBlocks(<<DefaultBlock>>)
<1> DEFINE c == <<DefaultBlock>>
<1>1. c \in Seq({DefaultBlock}) /\ DOMAIN c = {1} /\ c[1] = DefaultBlock
  OBVIOUS
<1> HIDE DEF c
<1>2. {c[n] : n \in DOMAIN c} = {DefaultBlock}
  BY <1>1
<1>3. IsList(c)
  BY <1>1, <1>2 DEF IsList
<1>4. GoodBlocks(c)
  BY <1>1, <1>3, DefaultIsBlock DEF GoodBlocks
<1> QED
  BY <1>4 DEF c

\* Items put over others.
LEMMA OverItems ==
  ASSUME NEW f, IsItems(f), NEW g, IsItems(g)
  PROVE  IsItems(Over(f, g)) /\ DOMAIN Over(f, g) = DOMAIN f \cup DOMAIN g
BY DEF IsItems, Over

\* An item taken off.
LEMMA DropItems ==
  ASSUME NEW f, IsItems(f), NEW i
  PROVE  IsItems(Drop(f, i)) /\ DOMAIN Drop(f, i) = DOMAIN f \ {i}
BY DEF IsItems, Drop

-----------------------------------------------------------------------------
(* What the handlers make of the blocks                                    *)

\* A set of positions has a first one.
LEMMA FirstOf ==
  ASSUME NEW S, S \subseteq Nat, S # {}
  PROVE  LET first == CHOOSE n \in S : \A m \in S : n <= m IN first \in S
<1> DEFINE R == OpToRel(<, Nat)
<1>1. \A x, y \in Nat : y < x => <<y, x>> \in R
  BY DEF OpToRel
<1>2. \E x \in S : \A y \in S : ~(<<y, x>> \in R)
  <2> HIDE DEF R
  <2>1. IsWellFoundedOn(R, Nat)
    BY NatLessThanWellFounded DEF R
  <2> QED
    BY <2>1, WFMin
<1> HIDE DEF R
<1>3. PICK x \in S : \A y \in S : ~(<<y, x>> \in R)
  BY <1>2
<1>4. ASSUME NEW y \in S
      PROVE  x <= y
  <2>1. x \in Nat /\ y \in Nat /\ ~(y < x)
    BY <1>1, <1>3
  <2> QED
    BY <2>1
<1> QED
  BY <1>4

\* What an edit of the blocks keeps: the accessories but those of S, and the
\* settings that the bridges share.
Edited(b, c, S) ==
  /\ GoodBlocks(c)
  /\ Common(b) => Common(c)
  /\ ConfiguredIn(b) \ S \subseteq ConfiguredIn(c)

\* An edit within the bridges.
LEMMA EditedWithin ==
  ASSUME NEW b, GoodBlocks(b), NEW S, NEW c, DOMAIN c = DOMAIN b, c = [n \in DOMAIN c |-> c[n]],
         \A n \in DOMAIN b : /\ IsBlock(c[n]) /\ c[n].ccu = b[n].ccu
                             /\ DOMAIN b[n].items \ S \subseteq DOMAIN c[n].items
  PROVE  Edited(b, c, S)
<1>1. GoodBlocks(c)
  BY SamePositions
<1>2. Common(b) => Common(c)
  BY DEF Common
<1>3. ASSUME NEW i \in ConfiguredIn(b) \ S
      PROVE  i \in ConfiguredIn(c)
  BY DEF ConfiguredIn, Holders
<1> QED
  BY <1>1, <1>2, <1>3 DEF Edited

\* One bridge is edited.
LEMMA EditedOne ==
  ASSUME NEW b, GoodBlocks(b), NEW n \in DOMAIN b, NEW r, IsBlock(r), r.ccu = b[n].ccu,
         DOMAIN b[n].items \subseteq DOMAIN r.items
  PROVE  Edited(b, [b EXCEPT ![n] = r], {})
<1> DEFINE c == [b EXCEPT ![n] = r]
<1>1. /\ DOMAIN c = DOMAIN b /\ c = [m \in DOMAIN c |-> c[m]]
      /\ c[n] = r /\ \A m \in DOMAIN b \ {n} : c[m] = b[m]
  OBVIOUS
<1> HIDE DEF c
<1>2. \A m \in DOMAIN b : /\ IsBlock(c[m]) /\ c[m].ccu = b[m].ccu
                          /\ DOMAIN b[m].items \ {} \subseteq DOMAIN c[m].items
  BY <1>1 DEF GoodBlocks
<1> QED
  BY <1>1, <1>2, EditedWithin DEF c

\* An item leaves every bridge.
LEMMA DroppedBlocks ==
  ASSUME NEW b, GoodBlocks(b), NEW i
  PROVE  Edited(b, Dropped(b, i), {i}) /\ DOMAIN Dropped(b, i) = DOMAIN b
<1> DEFINE c == Dropped(b, i)
<1>1. DOMAIN c = DOMAIN b /\ c = [n \in DOMAIN c |-> c[n]]
  BY DEF Dropped
<1>2. ASSUME NEW n \in DOMAIN b
      PROVE  /\ IsBlock(c[n]) /\ c[n].ccu = b[n].ccu
             /\ DOMAIN b[n].items \ {i} \subseteq DOMAIN c[n].items
  <2>1. IsBlock(b[n]) /\ IsItems(b[n].items)
    BY DEF GoodBlocks, IsBlock
  <2>2. IsItems(Drop(b[n].items, i)) /\ DOMAIN Drop(b[n].items, i) = DOMAIN b[n].items \ {i}
    BY <2>1, DropItems
  <2>3. c[n] = [b[n] EXCEPT !.items = Drop(b[n].items, i)]
    BY DEF Dropped
  <2> QED
    BY <2>1, <2>2, <2>3, SetItems
<1> HIDE DEF c
<1>3. Edited(b, c, {i})
  BY <1>1, <1>2, EditedWithin
<1> QED
  BY <1>1, <1>3 DEF c

\* An item is put on one of the bridges.
LEMMA PutBlocks ==
  ASSUME NEW b, GoodBlocks(b), NEW n \in DOMAIN b, NEW i \in Items, NEW entry \in Entries
  PROVE  Edited(b, Put(b, n, i, entry), {}) /\ i \in ConfiguredIn(Put(b, n, i, entry))
<1> DEFINE f == [j \in {i} |-> entry]
           r == [b[n] EXCEPT !.items = Over(f, b[n].items)]
<1>1. IsBlock(b[n]) /\ IsItems(b[n].items)
  BY DEF GoodBlocks, IsBlock
<1>2. IsItems(f) /\ DOMAIN f = {i}
  BY DEF IsItems
<1> HIDE DEF f
<1>3. IsItems(Over(f, b[n].items)) /\ DOMAIN Over(f, b[n].items) = {i} \cup DOMAIN b[n].items
  BY <1>1, <1>2, OverItems
<1>4. IsBlock(r) /\ r.ccu = b[n].ccu /\ DOMAIN r.items = {i} \cup DOMAIN b[n].items
  BY <1>1, <1>3, SetItems
<1>5. Put(b, n, i, entry) = [b EXCEPT ![n] = r]
  BY DEF Put, f
<1> HIDE DEF r
<1>6. Edited(b, [b EXCEPT ![n] = r], {})
  BY <1>4, EditedOne
<1>7. i \in ConfiguredIn([b EXCEPT ![n] = r])
  BY <1>4 DEF ConfiguredIn, Holders
<1> QED
  BY <1>5, <1>6, <1>7

\* An item is moved: it leaves every bridge and joins one.
LEMMA MovedItem ==
  ASSUME NEW b, GoodBlocks(b), NEW n \in DOMAIN b, NEW i \in Items, NEW entry \in Entries
  PROVE  Edited(b, Put(Dropped(b, i), n, i, entry), {i})
<1> DEFINE c == Dropped(b, i)
<1>1. Edited(b, c, {i}) /\ DOMAIN c = DOMAIN b
  BY DroppedBlocks
<1> HIDE DEF c
<1>2. Edited(c, Put(c, n, i, entry), {})
  BY <1>1, PutBlocks DEF Edited
<1> QED
  BY <1>1, <1>2 DEF c, Edited

\* A bridge is added, with the settings of the main one.
LEMMA AddedBridge ==
  ASSUME NEW b, GoodBlocks(b), NEW id
  PROVE  Edited(b, Append(b, [DefaultBlock EXCEPT !.bridge = id, !.ccu = b[1].ccu]), {})
<1> DEFINE r == [DefaultBlock EXCEPT !.bridge = id, !.ccu = b[1].ccu]
           c == Append(b, r)
<1>1. IsBlock(b[1]) /\ b[1].ccu \in Hosts
  BY DEF GoodBlocks, IsBlock
<1>2. IsBlock(r) /\ r.ccu = b[1].ccu
  <2>1. r = [[DefaultBlock EXCEPT !.bridge = id] EXCEPT !.ccu = b[1].ccu]
    OBVIOUS
  <2> DEFINE d == [DefaultBlock EXCEPT !.bridge = id]
             h == b[1].ccu
  <2>2. IsBlock(d) /\ h \in Hosts
    BY <1>1, DefaultIsBlock, SetBridge
  <2>3. r = [d EXCEPT !.ccu = h]
    BY <2>1
  <2> HIDE DEF r, d, h
  <2>4. IsBlock(r) /\ r.ccu = h
    BY <2>2, <2>3, SetCcu
  <2> QED
    BY <2>4 DEF h
<1> HIDE DEF r
<1>3. /\ IsList(c) /\ DOMAIN c = DOMAIN b \cup {Len(b) + 1}
      /\ \A n \in DOMAIN b : c[n] = b[n]
      /\ c[Len(b) + 1] = r
  BY ListAppend DEF GoodBlocks
<1> HIDE DEF c
<1>4. \A n \in DOMAIN c : (n \in DOMAIN b /\ c[n] = b[n]) \/ c[n] = r
  BY <1>3
<1>5. GoodBlocks(c)
  BY <1>2, <1>3, <1>4 DEF GoodBlocks
<1>6. ASSUME Common(b)
      PROVE  Common(c)
  <2>1. \A n \in DOMAIN c : c[n].ccu = b[1].ccu
    BY <1>2, <1>4, <1>6 DEF Common, GoodBlocks
  <2> QED
    BY <2>1 DEF Common
<1>7. ASSUME NEW i \in ConfiguredIn(b)
      PROVE  i \in ConfiguredIn(c)
  BY <1>3 DEF ConfiguredIn, Holders
<1>8. Edited(b, c, {})
  BY <1>5, <1>6, <1>7 DEF Edited
<1> QED
  BY <1>8 DEF c, r

\* A bridge gets a new identity.
LEMMA NewIdentity ==
  ASSUME NEW b, GoodBlocks(b), NEW n \in DOMAIN b, NEW id
  PROVE  Edited(b, [b EXCEPT ![n].bridge = id], {})
<1> DEFINE r == [b[n] EXCEPT !.bridge = id]
<1>1. IsBlock(b[n])
  BY DEF GoodBlocks
<1>2. IsBlock(r) /\ r.items = b[n].items /\ r.ccu = b[n].ccu
  BY <1>1, SetBridge
<1>3. [b EXCEPT ![n].bridge = id] = [b EXCEPT ![n] = r]
  OBVIOUS
<1> HIDE DEF r
<1>4. Edited(b, [b EXCEPT ![n] = r], {})
  BY <1>2, EditedOne
<1> QED
  BY <1>3, <1>4

\* A bridge gets a new name.
LEMMA NewName ==
  ASSUME NEW b, GoodBlocks(b), NEW n \in DOMAIN b, NEW name
  PROVE  Edited(b, [b EXCEPT ![n].name = name], {})
<1> DEFINE r == [b[n] EXCEPT !.name = name]
<1>1. IsBlock(b[n])
  BY DEF GoodBlocks
<1>2. IsBlock(r) /\ r.items = b[n].items /\ r.ccu = b[n].ccu
  BY <1>1, SetName
<1>3. [b EXCEPT ![n].name = name] = [b EXCEPT ![n] = r]
  OBVIOUS
<1> HIDE DEF r
<1>4. Edited(b, [b EXCEPT ![n] = r], {})
  BY <1>2, EditedOne
<1> QED
  BY <1>3, <1>4

\* A bridge is removed; without any other the default block takes its place.
LEMMA RemovedBridge ==
  ASSUME NEW b, GoodBlocks(b), NEW n \in DOMAIN b
  PROVE  LET rest == Spliced(b, n)
         IN  Edited(b, IF rest = <<>> THEN <<DefaultBlock>> ELSE rest, DOMAIN b[n].items)
<1> DEFINE rest == Spliced(b, n)
<1>1. Len(b) \in Nat \ {0} /\ DOMAIN b = 1..Len(b) /\ n \in 1..Len(b)
  BY ListPositions DEF GoodBlocks
<1>2. DOMAIN rest = 1..(Len(b) - 1) /\ rest = [m \in DOMAIN rest |-> rest[m]] /\ Len(b) - 1 \in Nat
  BY <1>1 DEF Spliced
<1>3. IsList(rest) /\ Len(rest) = Len(b) - 1
  <2> HIDE DEF rest
  <2> QED
    BY <1>2, ListOfFunction
<1>4. \A m \in DOMAIN rest : \E k \in DOMAIN b \ {n} : rest[m] = b[k]
  <2> SUFFICES ASSUME NEW m \in DOMAIN rest
               PROVE  \E k \in DOMAIN b \ {n} : rest[m] = b[k]
    OBVIOUS
  <2> DEFINE k == IF m < n THEN m ELSE m + 1
  <2>1. k \in DOMAIN b \ {n}
    BY <1>1, <1>2
  <2>2. rest[m] = b[k]
    BY <1>2 DEF Spliced
  <2> QED
    BY <2>1, <2>2
<1>5. \A k \in DOMAIN b \ {n} : \E m \in DOMAIN rest : rest[m] = b[k]
  <2> SUFFICES ASSUME NEW k \in DOMAIN b \ {n}
               PROVE  \E m \in DOMAIN rest : rest[m] = b[k]
    OBVIOUS
  <2> DEFINE m == IF k < n THEN k ELSE k - 1
  <2>1. m \in 1..(Len(b) - 1) /\ (IF m < n THEN m ELSE m + 1) = k
    BY <1>1
  <2>2. rest[m] = b[k]
    BY <2>1 DEF Spliced
  <2> QED
    BY <1>2, <2>1, <2>2
<1>6. CASE rest = <<>>
  <2>1. DOMAIN rest = {}
    BY <1>6
  <2> HIDE DEF rest
  <2>2. \A k \in DOMAIN b : k = n
    BY <1>5, <2>1
  <2>3. GoodBlocks(<<DefaultBlock>>)
    BY OnlyDefault
  <2>4. Common(<<DefaultBlock>>)
    BY DEF Common
  <2>5. ConfiguredIn(b) \subseteq DOMAIN b[n].items
    BY <2>2 DEF ConfiguredIn, Holders
  <2>6. Edited(b, <<DefaultBlock>>, DOMAIN b[n].items)
    BY <2>3, <2>4, <2>5 DEF Edited
  <2> QED
    BY <1>6, <2>6 DEF rest
<1>7. CASE rest # <<>>
  <2> HIDE DEF rest
  <2>1. Len(b) - 1 # 0
    BY <1>3, <1>7, EmptySeq DEF IsList
  <2>2. 1 \in DOMAIN rest
    BY <1>1, <1>2, <2>1
  <2>3. GoodBlocks(rest)
    BY <1>3, <1>4, <2>2 DEF GoodBlocks
  <2>4. Common(b) => Common(rest)
    BY <1>4 DEF Common
  <2>5. ASSUME NEW i \in ConfiguredIn(b) \ DOMAIN b[n].items
        PROVE  i \in ConfiguredIn(rest)
    <3>1. PICK k \in DOMAIN b : i \in DOMAIN b[k].items
      BY DEF ConfiguredIn, Holders
    <3>2. PICK m \in DOMAIN rest : rest[m] = b[k]
      BY <1>5, <3>1
    <3> QED
      BY <3>1, <3>2 DEF ConfiguredIn, Holders
  <2>6. Edited(b, rest, DOMAIN b[n].items)
    BY <2>3, <2>4, <2>5 DEF Edited
  <2> QED
    BY <1>7, <2>6 DEF rest
<1> QED
  BY <1>6, <1>7

\* The Settings view gives every bridge the same settings.
LEMMA GivenToAll ==
  ASSUME NEW b, GoodBlocks(b), NEW h \in Hosts
  PROVE  Edited(b, [n \in DOMAIN b |-> [b[n] EXCEPT !.ccu = h]], {})
<1> DEFINE c == [n \in DOMAIN b |-> [b[n] EXCEPT !.ccu = h]]
<1>1. DOMAIN c = DOMAIN b /\ c = [n \in DOMAIN c |-> c[n]]
  OBVIOUS
<1>2. \A n \in DOMAIN b : IsBlock(c[n]) /\ c[n].items = b[n].items /\ c[n].ccu = h
  BY SetCcu DEF GoodBlocks
<1> HIDE DEF c
<1>3. GoodBlocks(c)
  BY <1>1, <1>2, SamePositions
<1>4. Common(c)
  BY <1>1, <1>2 DEF Common
<1>5. ConfiguredIn(b) \subseteq ConfiguredIn(c)
  BY <1>1, <1>2 DEF ConfiguredIn, Holders
<1>6. Edited(b, c, {})
  BY <1>3, <1>4, <1>5 DEF Edited
<1> QED
  BY <1>6 DEF c

-----------------------------------------------------------------------------
(* What the importer makes of the blocks                                   *)

\* What a backup is mapped to.
LEMMA ReportIsItems ==
  ASSUME NEW k \in Backups
  PROVE  /\ IsItems(ReportedItems(k)) /\ DOMAIN ReportedItems(k) = Mapped(k)
         /\ Mapped(k) \subseteq Items
<1>1. Mapped(k) \subseteq DOMAIN k.mappings /\ DOMAIN k.mappings \subseteq Items
  BY BackupsAssumption DEF Mapped
<1>2. \A i \in DOMAIN k.mappings : k.mappings[i].entry \in Entries
  BY BackupsAssumption
<1>3. DOMAIN ReportedItems(k) = Mapped(k)
  BY DEF ReportedItems
<1>4. \A i \in Mapped(k) : ReportedItems(k)[i] \in Entries
  BY <1>1, <1>2 DEF ReportedItems, Entries
<1> QED
  BY <1>1, <1>3, <1>4 DEF IsItems

\* A main bridge without a CCU gets the backup's.
LEMMA MainFilledIn ==
  ASSUME NEW b, GoodBlocks(b), NEW k \in Backups
  PROVE  LET c == FilledIn(b, k)
         IN  /\ GoodBlocks(c) /\ DOMAIN c = DOMAIN b
             /\ \A n \in DOMAIN b : c[n].items = b[n].items
             /\ b[1].ccu # "" => c = b
<1>1. IsBlock(b[1]) /\ 1 \in DOMAIN b
  BY DEF GoodBlocks
<1>2. CASE b[1].ccu # ""
  BY <1>2 DEF FilledIn
<1>3. CASE b[1].ccu = ""
  <2> DEFINE r == [b[1] EXCEPT !.ccu = k.ccu]
  <2>1. IsBlock(r) /\ r.items = b[1].items
    BY <1>1, SetCcu, BackupsAssumption
  <2>2. FilledIn(b, k) = [b EXCEPT ![1] = r]
    BY <1>3 DEF FilledIn
  <2> HIDE DEF r
  <2>3. /\ GoodBlocks([b EXCEPT ![1] = r]) /\ DOMAIN [b EXCEPT ![1] = r] = DOMAIN b
        /\ [b EXCEPT ![1] = r][1] = r
        /\ \A m \in DOMAIN b \ {1} : [b EXCEPT ![1] = r][m] = b[m]
    BY <1>1, <2>1, OneReplaced
  <2> QED
    BY <1>3, <2>1, <2>2, <2>3
<1> QED
  BY <1>2, <1>3

\* A merge keeps what there is and puts all that is imported on the main bridge.
LEMMA MergedBlocks ==
  ASSUME NEW b, GoodBlocks(b), NEW k \in Backups
  PROVE  LET c == [FilledIn(b, k) EXCEPT ![1].items = Over(ReportedItems(k), @)]
         IN  /\ GoodBlocks(c)
             /\ ConfiguredIn(b) \subseteq ConfiguredIn(c)
             /\ Mapped(k) \subseteq DOMAIN c[1].items
             /\ b[1].ccu # "" => Edited(b, c, {})
<1> DEFINE a == FilledIn(b, k)
           f == ReportedItems(k)
           r == [a[1] EXCEPT !.items = Over(f, a[1].items)]
           c == [a EXCEPT ![1].items = Over(f, @)]
<1>1. /\ GoodBlocks(a) /\ DOMAIN a = DOMAIN b
      /\ \A n \in DOMAIN b : a[n].items = b[n].items
      /\ b[1].ccu # "" => a = b
  BY MainFilledIn
<1>2. IsItems(f) /\ DOMAIN f = Mapped(k)
  BY ReportIsItems
<1>3. c = [a EXCEPT ![1] = r]
  OBVIOUS
<1> HIDE DEF a, f, c
<1>4. 1 \in DOMAIN a /\ IsBlock(a[1]) /\ IsItems(a[1].items)
  BY <1>1 DEF GoodBlocks, IsBlock
<1>5. IsItems(Over(f, a[1].items)) /\ DOMAIN Over(f, a[1].items) = Mapped(k) \cup DOMAIN a[1].items
  BY <1>2, <1>4, OverItems
<1>6. IsBlock(r) /\ r.ccu = a[1].ccu /\ DOMAIN r.items = Mapped(k) \cup DOMAIN a[1].items
  BY <1>4, <1>5, SetItems
<1> HIDE DEF r
<1>7. Edited(a, c, {})
  BY <1>1, <1>3, <1>4, <1>6, EditedOne
<1>8. c[1] = r
  BY <1>3, <1>4
<1>9. ConfiguredIn(b) = ConfiguredIn(a)
  <2>1. \A i \in Items : Holders(a, i) = Holders(b, i)
    BY <1>1 DEF Holders
  <2> QED
    BY <2>1 DEF ConfiguredIn
<1>10. /\ GoodBlocks(c) /\ ConfiguredIn(b) \subseteq ConfiguredIn(c)
       /\ Mapped(k) \subseteq DOMAIN c[1].items
       /\ b[1].ccu # "" => Edited(b, c, {})
  BY <1>1, <1>6, <1>7, <1>8, <1>9 DEF Edited
<1> QED
  BY <1>10 DEF c, a, f

\* Where an item of a split lands.
LEMMA Targets ==
  ASSUME NEW k \in Backups
  PROVE  LET part == Split(k)
         IN  /\ IsList(part) /\ 1 \in DOMAIN part
             /\ \A i \in Mapped(k) : TargetFor(k, i) \in DOMAIN part
             /\ \A n \in DOMAIN part :
                  /\ DOMAIN part[n].items = {i \in Mapped(k) : TargetFor(k, i) = n}
                  /\ IsItems(part[n].items)
<1> DEFINE owner == IF k.instances = <<>> THEN <<"default">> ELSE k.instances
           part == Split(k)
<1>1. IsList(k.instances) /\ Len(k.instances) \in Nat /\ DOMAIN k.instances = 1..Len(k.instances)
  BY BackupsAssumption, ListPositions
<1>2. k.instances # <<>> => Len(k.instances) # 0
  BY <1>1, EmptySeq DEF IsList
<1>3. PICK n \in Nat \ {0} : DOMAIN owner = 1..n
  <2>1. CASE k.instances = <<>>
    <3>1. DOMAIN owner = 1..1
      BY <2>1
    <3> HIDE DEF owner
    <3> QED
      BY <3>1, 1 \in Nat \ {0}
  <2>2. CASE k.instances # <<>>
    BY <1>1, <1>2, <2>2
  <2> QED
    BY <2>1, <2>2
<1>4. DOMAIN part = DOMAIN owner /\ part = [m \in DOMAIN part |-> part[m]]
  BY DEF Split
<1>5. IsList(part) /\ 1 \in DOMAIN part
  <2> HIDE DEF part, owner
  <2> QED
    BY <1>3, <1>4, ListOfFunction
<1>6. ASSUME NEW i \in Mapped(k)
      PROVE  TargetFor(k, i) \in DOMAIN owner
  <2> DEFINE direct == {m \in DOMAIN k.instances : k.instances[m] = k.mappings[i].instance}
  <2>1. TargetFor(k, i) = IF direct = {} THEN 1 ELSE CHOOSE m \in direct : TRUE
    BY DEF TargetFor
  <2>2. CASE direct = {}
    BY <1>4, <1>5, <2>1, <2>2
  <2>3. CASE direct # {}
    <3>1. TargetFor(k, i) \in direct
      <4> HIDE DEF direct
      <4> QED
        BY <2>1, <2>3
    <3>2. k.instances # <<>>
      BY <2>3
    <3> QED
      BY <3>1, <3>2
  <2> QED
    BY <2>2, <2>3
<1>7. ASSUME NEW m \in DOMAIN part
      PROVE  /\ DOMAIN part[m].items = {i \in Mapped(k) : TargetFor(k, i) = m}
             /\ IsItems(part[m].items)
  <2>1. part[m].items = [i \in {i \in Mapped(k) : TargetFor(k, i) = m} |-> ReportedItems(k)[i]]
    BY <1>4 DEF Split
  <2>2. IsItems(ReportedItems(k)) /\ DOMAIN ReportedItems(k) = Mapped(k)
    BY ReportIsItems
  <2> HIDE DEF part
  <2> QED
    BY <2>1, <2>2 DEF IsItems
<1> QED
  BY <1>4, <1>5, <1>6, <1>7

\* A split gives each item to one bridge, and all bridges the same settings.
LEMMA ReplacedBlocks ==
  ASSUME NEW b, GoodBlocks(b), NEW k \in Backups
  PROVE  LET c == Replaced(b, k)
         IN  /\ GoodBlocks(c) /\ Common(c)
             /\ \A i \in Mapped(k) : Holders(c, i) = {TargetFor(k, i)}
<1> DEFINE main == FilledIn(b, k)[1]
           part == Split(k)
           c == Replaced(b, k)
<1>1. IsBlock(main)
  BY MainFilledIn DEF GoodBlocks
<1>2. /\ IsList(part) /\ 1 \in DOMAIN part
      /\ \A i \in Mapped(k) : TargetFor(k, i) \in DOMAIN part
      /\ \A n \in DOMAIN part :
           /\ DOMAIN part[n].items = {i \in Mapped(k) : TargetFor(k, i) = n}
           /\ IsItems(part[n].items)
  BY Targets
<1>3. /\ DOMAIN c = DOMAIN part /\ c = [n \in DOMAIN c |-> c[n]]
      /\ \A n \in DOMAIN part :
           c[n] = IF n = 1 THEN [main EXCEPT !.items = part[1].items, !.name = part[1].name]
                  ELSE [bridge |-> part[n].bridge, name |-> part[n].name,
                        ccu |-> main.ccu, items |-> part[n].items]
  BY DEF Replaced
<1> HIDE DEF main, part, c
<1>4. ASSUME NEW n \in DOMAIN part
      PROVE  IsBlock(c[n]) /\ c[n].ccu = main.ccu /\ c[n].items = part[n].items
  <2>1. CASE n = 1
    <3> DEFINE r == [main EXCEPT !.items = part[1].items]
               q == [r EXCEPT !.name = part[1].name]
    <3>1. IsBlock(r) /\ r.items = part[1].items /\ r.ccu = main.ccu
      BY <1>1, <1>2, SetItems
    <3>2. c[1] = q
      BY <1>2, <1>3
    <3> HIDE DEF r
    <3>3. IsBlock(q) /\ q.items = r.items /\ q.ccu = r.ccu
      BY <3>1, SetName
    <3> QED
      BY <2>1, <3>1, <3>2, <3>3
  <2>2. CASE n # 1
    <3>1. c[n] = [bridge |-> part[n].bridge, name |-> part[n].name,
                  ccu |-> main.ccu, items |-> part[n].items]
      BY <1>3, <2>2
    <3> QED
      BY <1>1, <1>2, <3>1, Fields DEF IsBlock
  <2> QED
    BY <2>1, <2>2
<1>5. IsList(c)
  <2>1. Len(part) \in Nat /\ DOMAIN part = 1..Len(part)
    BY <1>2, ListPositions
  <2> QED
    BY <1>3, <2>1, ListOfFunction
<1>6. GoodBlocks(c)
  BY <1>2, <1>3, <1>4, <1>5 DEF GoodBlocks
<1>7. Common(c)
  BY <1>3, <1>4 DEF Common
<1>8. ASSUME NEW i \in Mapped(k)
      PROVE  Holders(c, i) = {TargetFor(k, i)}
  BY <1>2, <1>3, <1>4 DEF Holders
<1>9. GoodBlocks(c) /\ Common(c) /\ \A i \in Mapped(k) : Holders(c, i) = {TargetFor(k, i)}
  BY <1>6, <1>7, <1>8
<1> QED
  BY <1>9 DEF c

-----------------------------------------------------------------------------
(* What a step makes of the blocks                                         *)

\* An open editor shows an item, as one of the blocks has it.
Opened == IsEditor(form) => form.item \in Items /\ form.entry \in Entries

\* A request under way is one that the page has sent.
Sent ==
  \A c \in calls :
    /\ c.kind \in {"discover", "test", "import", "split"}
    /\ c.kind \in {"import", "split"} => c.backup \in Backups

\* What is on the disk, or will be, is what the page can read.
Stored == Storable(disk.ours) /\ Storable(staged.ours)

Held == GoodBlocks(blocks) /\ edits \in Nat /\ Opened /\ Sent /\ Stored

\* Whatever happens, the blocks stay as they are, or go with the page, or are
\* edited by the user, or an import lands.
Fate ==
  \/ blocks' = blocks
  \/ page' # page /\ GoodBlocks(blocks')
  \/ Edited(blocks, blocks', {})
  \/ IsEditor(form) /\ Edited(blocks, blocks', {form.item})
  \/ /\ form.kind = "remove" /\ form.index \in DOMAIN blocks
     /\ Edited(blocks, blocks', DOMAIN blocks[form.index].items)
  \/ \E k \in Backups :
       \/ /\ MergeOf(k) /\ blocks[1].ccu = ""
          /\ GoodBlocks(blocks') /\ Configured \subseteq ConfiguredIn(blocks')
       \/ /\ SplitOf(k)
          /\ GoodBlocks(blocks') /\ Common(blocks')

\* A change is counted.
LEMMA EditCounts == ASSUME edits \in Nat, Stage \/ Lose PROVE edits' # edits
BY DEF Stage, Lose

\* A merge that lands, in either case.
LEMMA MergeFate ==
  ASSUME Held, NEW c \in calls, MergeLands(c)
  PROVE  /\ Fate /\ c.backup \in Backups
         /\ Mapped(c.backup) \subseteq DOMAIN blocks'[1].items
<1> DEFINE k == c.backup
           merged == [FilledIn(blocks, k) EXCEPT ![1].items = Over(ReportedItems(k), @)]
<1>1. k \in Backups /\ GoodBlocks(blocks) /\ edits \in Nat
  BY DEF Held, Sent, MergeLands
<1>2. blocks' = merged
  BY DEF MergeLands
<1>3. /\ GoodBlocks(merged) /\ ConfiguredIn(blocks) \subseteq ConfiguredIn(merged)
      /\ Mapped(k) \subseteq DOMAIN merged[1].items
      /\ blocks[1].ccu # "" => Edited(blocks, merged, {})
  BY <1>1, MergedBlocks
<1>4. MergeOf(k)
  BY <1>1, EditCounts DEF MergeLands, MergeOf, Landed, Ended
<1> HIDE DEF merged, k
<1>5. Fate
  BY <1>1, <1>2, <1>3, <1>4 DEF Fate, Configured
<1> QED
  BY <1>1, <1>2, <1>3, <1>5 DEF k

\* The blocks of a split take the place of those there were.
LEMMA SplitFate ==
  ASSUME Held, NEW c \in calls, SplitLands(c)
  PROVE  /\ Fate /\ c.backup \in Backups
         /\ \A i \in Mapped(c.backup) : Holders(blocks', i) = {TargetFor(c.backup, i)}
<1> DEFINE k == c.backup
<1>1. k \in Backups /\ GoodBlocks(blocks) /\ edits \in Nat
  BY DEF Held, Sent, SplitLands
<1>2. blocks' = Replaced(blocks, k)
  BY DEF SplitLands
<1>3. /\ GoodBlocks(blocks') /\ Common(blocks')
      /\ \A i \in Mapped(k) : Holders(blocks', i) = {TargetFor(k, i)}
  BY <1>1, <1>2, ReplacedBlocks
<1>4. SplitOf(k)
  BY <1>1, EditCounts DEF SplitLands, SplitOf, Landed, Ended
<1> HIDE DEF k
<1>5. Fate
  BY <1>1, <1>3, <1>4 DEF Fate
<1> QED
  BY <1>1, <1>3, <1>5 DEF k

\* The forms of the items.
LEMMA ItemFate ==
  ASSUME Held, SaveChannel \/ SaveVariable \/ SaveProgram \/ RemoveChannel \/ RemoveVariable \/ RemoveProgram
  PROVE  Fate
<1>1. GoodBlocks(blocks) /\ (IsEditor(form) => form.item \in Items /\ form.entry \in Entries)
  BY DEF Held, Opened
<1>2. ASSUME NEW kind \in {"channel", "variable", "program"}, NEW entry,
             IsEditor(form) => entry \in Entries, Save(kind, entry)
      PROVE  Fate
  <2>1. IsEditor(form) /\ form.item \in Items /\ entry \in Entries
    BY <1>1, <1>2 DEF Save, IsEditor
  <2>2. CASE form.target \in DOMAIN blocks /\ blocks' = Put(Dropped(blocks, form.item), form.target, form.item, entry)
    BY <1>1, <2>1, <2>2, MovedItem DEF Fate
  <2>3. CASE blocks' = Dropped(blocks, form.item)
    BY <1>1, <2>1, <2>3, DroppedBlocks DEF Fate
  <2> QED
    BY <1>2, <2>2, <2>3 DEF Save
<1>3. ASSUME NEW kind \in {"channel", "variable", "program"}, Remove(kind)
      PROVE  Fate
  <2>1. IsEditor(form) /\ blocks' = Dropped(blocks, form.item)
    BY <1>3 DEF Remove, IsEditor
  <2> QED
    BY <1>1, <2>1, DroppedBlocks DEF Fate
<1> QED
  BY <1>1, <1>2, <1>3 DEF SaveChannel, SaveVariable, SaveProgram, RemoveChannel, RemoveVariable, RemoveProgram, Entries

\* The bridges' buttons and forms, and the Settings view.
LEMMA BridgeFate ==
  ASSUME Held,
         \/ \E id \in Identities : addChildBridge(id)
         \/ \E id \in Identities, n \in DOMAIN blocks : regenerateBridgeIdentity(n, id)
         \/ SaveRename \/ ConfirmRemove
         \/ \E h \in Hosts : propagate(h)
  PROVE  Fate
<1>1. GoodBlocks(blocks)
  BY DEF Held
<1>2. ASSUME NEW id, addChildBridge(id)
      PROVE  Fate
  BY <1>1, <1>2, AddedBridge DEF addChildBridge, Fate
<1>3. ASSUME NEW id, NEW n \in DOMAIN blocks, regenerateBridgeIdentity(n, id)
      PROVE  Fate
  BY <1>1, <1>3, NewIdentity DEF regenerateBridgeIdentity, Fate
<1>4. CASE SaveRename
  <2>1. CASE form.index \in DOMAIN blocks
    BY <1>1, <1>4, <2>1, NewName DEF SaveRename, Fate
  <2>2. CASE form.index \notin DOMAIN blocks
    <3>1. blocks' = IF screen.replaced THEN blocks ELSE [blocks EXCEPT ![form.index].name = "given"]
      BY <1>4 DEF SaveRename
    <3>2. blocks = [n \in DOMAIN blocks |-> blocks[n]]
      BY <1>1, ListPositions DEF GoodBlocks
    <3>3. [blocks EXCEPT ![form.index].name = "given"] = blocks
      BY <2>2, <3>2
    <3> QED
      BY <3>1, <3>3 DEF Fate
  <2> QED
    BY <2>1, <2>2
<1>5. CASE ConfirmRemove
  <2> DEFINE rest == IF form.index \in DOMAIN blocks THEN Spliced(blocks, form.index) ELSE blocks
  <2>1. form.kind = "remove" /\ blocks' = IF rest = <<>> THEN <<DefaultBlock>> ELSE rest
    BY <1>5 DEF ConfirmRemove
  <2>2. CASE form.index \in DOMAIN blocks
    BY <1>1, <2>1, <2>2, RemovedBridge DEF Fate
  <2>3. CASE form.index \notin DOMAIN blocks
    <3>1. rest = blocks /\ blocks # <<>>
      BY <1>1, <2>3 DEF GoodBlocks
    <3> QED
      BY <2>1, <3>1 DEF Fate
  <2> QED
    BY <2>2, <2>3
<1>6. ASSUME NEW h \in Hosts, propagate(h)
      PROVE  Fate
  <2> DEFINE given == [n \in DOMAIN blocks |-> [blocks[n] EXCEPT !.ccu = h]]
  <2>1. blocks' = given
    BY <1>6, Zenon DEF propagate
  <2>2. Edited(blocks, given, {})
    BY <1>1, GivenToAll, Zenon
  <2> HIDE DEF given
  <2> QED
    BY <2>1, <2>2 DEF Fate
<1>7. (\E id \in Identities : addChildBridge(id)) => Fate
  BY <1>2
<1>8. (\E id \in Identities, n \in DOMAIN blocks : regenerateBridgeIdentity(n, id)) => Fate
  BY <1>3
<1>9. (\E h \in Hosts : propagate(h)) => Fate
  BY <1>6
<1> QED
  BY <1>4, <1>5, <1>7, <1>8, <1>9

\* The configuration arrives, or the page goes.
LEMMA PageFate ==
  ASSUME Held, ConfigArrives \/ ClosePage
  PROVE  Fate
<1>1. CASE ConfigArrives
  <2>1. page' # page /\ Storable(disk.ours)
    BY <1>1 DEF ConfigArrives, Held, Stored
  <2>2. CASE disk.ours = <<>>
    BY <1>1, <2>1, <2>2, OnlyDefault DEF ConfigArrives, Fate
  <2>3. CASE disk.ours # <<>>
    <3> DEFINE c == [n \in DOMAIN disk.ours |-> Normalised(disk.ours[n])]
    <3>1. IsList(disk.ours) /\ Len(disk.ours) \in Nat /\ DOMAIN disk.ours = 1..Len(disk.ours)
      BY <2>1, ListPositions DEF Storable
    <3>2. Len(disk.ours) # 0
      BY <2>3, <3>1, EmptySeq DEF IsList
    <3>3. blocks' = c /\ DOMAIN c = 1..Len(disk.ours) /\ c = [n \in DOMAIN c |-> c[n]]
      BY <1>1, <2>3, <3>1 DEF ConfigArrives
    <3>4. ASSUME NEW n \in DOMAIN disk.ours
          PROVE  IsBlock(c[n])
      <4> DEFINE r == disk.ours[n]
      <4>1. c[n] = [f \in DOMAIN DefaultBlock |-> IF f \in DOMAIN r THEN r[f] ELSE DefaultBlock[f]]
        BY DEF Normalised
      <4>2. /\ "ccu" \in DOMAIN r => r.ccu \in Hosts
            /\ "items" \in DOMAIN r => IsItems(r.items)
        BY <2>1 DEF Storable, IsItems
      <4>3. IsBlock(DefaultBlock)
        BY DefaultIsBlock
      <4> HIDE DEF c, r
      <4>4. DOMAIN c[n] = DOMAIN DefaultBlock
        BY <4>1
      <4>5. c[n].ccu = IF "ccu" \in DOMAIN r THEN r.ccu ELSE DefaultBlock.ccu
        BY <4>1, Fields
      <4>6. c[n].items = IF "items" \in DOMAIN r THEN r.items ELSE DefaultBlock.items
        BY <4>1, Fields
      <4> QED
        BY <4>2, <4>3, <4>4, <4>5, <4>6 DEF IsBlock
    <3> HIDE DEF c
    <3>5. IsList(c)
      BY <3>1, <3>3, ListOfFunction
    <3>6. GoodBlocks(c)
      BY <3>1, <3>2, <3>3, <3>4, <3>5 DEF GoodBlocks
    <3> QED
      BY <2>1, <3>3, <3>6 DEF Fate
  <2> QED
    BY <2>2, <2>3
<1>2. CASE ClosePage
  BY <1>2, OnlyDefault DEF ClosePage, Fate
<1> QED
  BY <1>1, <1>2

\* The steps that change a block: what every other one leaves to the user to see.
Rewrites ==
  \/ SaveChannel \/ SaveVariable \/ SaveProgram
  \/ RemoveChannel \/ RemoveVariable \/ RemoveProgram
  \/ \E id \in Identities : addChildBridge(id)
  \/ \E id \in Identities, n \in DOMAIN blocks : regenerateBridgeIdentity(n, id)
  \/ SaveRename \/ ConfirmRemove
  \/ \E h \in Hosts : propagate(h)
  \/ \E c \in calls : MergeLands(c) \/ SplitLands(c)

\* Every other step of the page leaves the configuration as it is.
LEMMA Rewriting ==
  ASSUME [Next]_vars
  PROVE  Rewrites \/ ConfigArrives \/ ClosePage \/ UNCHANGED <<blocks, edits>>
<1> USE DEF config_vars, Idle
<1>1. CASE UNCHANGED vars
  BY <1>1 DEF vars
<1>2. CASE UserNext
  <2>1. CASE Open \/ HostSaves
    BY <2>1 DEF Open, HostSaves
  <2>2. CASE \E v \in Views : navigate(v)
    BY <2>2 DEF navigate
  <2>3. CASE Cancel
    BY <2>3 DEF Cancel
  <2>4. CASE \E i \in Items : OpenChannel(i) \/ OpenVariable(i) \/ OpenProgram(i)
    BY <2>4 DEF OpenChannel, OpenVariable, OpenProgram, OpenRow
  <2>5. CASE \E kind \in {"channel", "variable", "program"} : OpenPicker(kind)
    BY <2>5 DEF OpenPicker
  <2>6. CASE \E i \in Items : PickChannel(i) \/ PickVariable(i) \/ PickProgram(i)
    BY <2>6 DEF PickChannel, PickVariable, PickProgram, Pick
  <2>7. CASE \E n \in 1..Len(blocks) : ChangeTarget(n)
    BY <2>7 DEF ChangeTarget
  <2>8. CASE \E kind \in {"rename", "remove"}, n \in 1..screen.bridges : OpenBridge(kind, n)
    BY <2>8 DEF OpenBridge
  <2>9. CASE StartDiscover \/ StartTest \/ \E k \in Backups, multi \in BOOLEAN : StartImport(k, multi)
    BY <2>9 DEF StartDiscover, StartTest, StartImport, Start
  <2> QED
    BY <1>2, <2>1, <2>2, <2>3, <2>4, <2>5, <2>6, <2>7, <2>8, <2>9 DEF UserNext, Rewrites
<1>3. CASE HostNext
  <2>1. CASE ConfigFails \/ ServicesSettle
    BY <2>1 DEF ConfigFails, ServicesSettle
  <2>2. ASSUME NEW c \in calls, DiscoverReplies(c) \/ TestReplies(c) \/ SplitStarts(c) \/ CallFails(c)
        PROVE  UNCHANGED <<blocks, edits>>
    BY <2>2 DEF DiscoverReplies, TestReplies, SplitStarts, CallFails
  <2> QED
    BY <1>3, <2>1, <2>2 DEF HostNext, Answers, Rewrites
<1> QED
  BY <1>1, <1>2, <1>3 DEF Next

\* What every step makes of the blocks.
LEMMA BlocksStep == Held /\ [Next]_vars => Fate
<1> SUFFICES ASSUME Held, [Next]_vars
             PROVE  Fate
  OBVIOUS
<1>1. CASE Rewrites
  <2>1. CASE \E c \in calls : MergeLands(c) \/ SplitLands(c)
    BY <2>1, MergeFate, SplitFate
  <2> QED
    BY <1>1, <2>1, ItemFate, BridgeFate DEF Rewrites
<1>2. CASE ConfigArrives \/ ClosePage
  BY <1>2, PageFate
<1>3. CASE UNCHANGED <<blocks, edits>>
  BY <1>3 DEF Fate
<1> QED
  BY <1>1, <1>2, <1>3, Rewriting

-----------------------------------------------------------------------------
(* What a step makes of the forms and the requests                         *)

\* The main bridge is never removed.
OfBridge(f, kind, n) ==
  kind \in {"rename", "remove"} /\ f = BridgeForm(blocks, kind, n) /\ (kind = "remove" => n # 1)

\* The forms a row, a picker or a bridge opens.
Opening(f) ==
  /\ view = "lists" /\ pushNav(f)
  /\ \/ \E i \in Items, mode \in {"edit", "add"} : f = Editor(blocks, i, mode)
     \/ \E kind \in {"channel", "variable", "program"} : f = [kind |-> "pick", of |-> kind]
     \/ \E kind, n : OfBridge(f, kind, n)

\* The form goes, with its view or without.
Closing ==
  /\ form' = NoForm /\ (view' = view \/ view' \in Views)
  /\ \E b \in {blocks, blocks', <<DefaultBlock>>} : screen' = Drawn(b)

\* What is seen of a step.
Shows ==
  \/ UNCHANGED screen_vars
  \/ Closing
  \/ rerender
  \/ \E f : Opening(f)
  \/ \E n \in 1..Len(blocks) : ChangeTarget(n)
  \/ screen' = [screen EXCEPT !.replaced = TRUE] /\ UNCHANGED <<view, form>>

\* No form is open but on the lists.
Placed == form # NoForm => view = "lists"

LEMMA ShowsStep == Placed /\ [Next]_vars => Shows
<1> SUFFICES ASSUME Placed, [Next]_vars
             PROVE  Shows
  OBVIOUS
<1> USE DEF Shows
<1>1. CASE UNCHANGED vars
  BY <1>1 DEF vars, screen_vars
<1>2. CASE UserNext
  <2>1. CASE Open \/ HostSaves
    BY <2>1 DEF Open, HostSaves
  <2>2. CASE ClosePage
    BY <2>2 DEF ClosePage, Closing, Views
  <2>3. CASE \E v \in Views : navigate(v)
    BY <2>3 DEF navigate, Closing
  <2>4. CASE Cancel
    BY <2>4 DEF Cancel, popNav, Closing
  <2>5. ASSUME NEW i \in Items, NEW kind, OpenRow(kind, i)
        PROVE  Shows
    <3>1. view = "lists" /\ (pushNav(Editor(blocks, i, "edit")) \/ pushNav(Editor(blocks, i, "add")))
      BY <2>5 DEF OpenRow
    <3> QED
      BY <3>1, Zenon DEF Opening
  <2>6. CASE \E kind \in {"channel", "variable", "program"} : OpenPicker(kind)
    <3>1. PICK kind \in {"channel", "variable", "program"} : OpenPicker(kind)
      BY <2>6
    <3>2. view = "lists" /\ pushNav([kind |-> "pick", of |-> kind])
      BY <3>1 DEF OpenPicker
    <3> QED
      BY <3>2, Zenon DEF Opening
  <2>7. ASSUME NEW i \in Items, NEW kind, Pick(kind, i)
        PROVE  Shows
    <3>1. form # NoForm /\ pushNav(Editor(blocks, i, "add"))
      BY <2>7 DEF Pick, NoForm
    <3> QED
      BY <3>1, Zenon DEF Opening, Placed
  <2>8. CASE \E n \in 1..Len(blocks) : ChangeTarget(n)
    BY <2>8
  <2>9. ASSUME NEW kind, NEW entry, Save(kind, entry)
        PROVE  Shows
    BY <2>9 DEF Save, popNav, Closing
  <2>10. ASSUME NEW kind, Remove(kind)
         PROVE  Shows
    BY <2>10 DEF Remove, popNav, Closing
  <2>11. CASE \E id \in Identities : addChildBridge(id)
    BY <2>11, Zenon DEF addChildBridge
  <2>12. CASE \E id \in Identities, n \in DOMAIN blocks : regenerateBridgeIdentity(n, id)
    BY <2>12, Zenon DEF regenerateBridgeIdentity
  <2>13. CASE \E kind \in {"rename", "remove"}, n \in 1..screen.bridges : OpenBridge(kind, n)
    <3>1. PICK kind \in {"rename", "remove"}, n \in 1..screen.bridges : OpenBridge(kind, n)
      BY <2>13
    <3>2. view = "lists" /\ pushNav(BridgeForm(blocks, kind, n))
      BY <3>1 DEF OpenBridge
    <3>3. kind = "remove" => n # 1
      BY <3>1 DEF OpenBridge
    <3>4. OfBridge(BridgeForm(blocks, kind, n), kind, n)
      BY <3>1, <3>3 DEF OfBridge
    <3>5. Opening(BridgeForm(blocks, kind, n))
      BY <3>1, <3>2, <3>4, Zenon DEF Opening
    <3> QED
      BY <3>5, Zenon
  <2>14. CASE SaveRename \/ ConfirmRemove
    BY <2>14 DEF SaveRename, ConfirmRemove, popNav, Closing
  <2>15. CASE \E h \in Hosts : propagate(h)
    BY <2>15, Zenon DEF propagate
  <2>16. CASE StartDiscover \/ StartTest \/ \E k \in Backups, multi \in BOOLEAN : StartImport(k, multi)
    BY <2>16, Zenon DEF StartDiscover, StartTest, StartImport, Start
  <2>17. CASE \E i \in Items : OpenChannel(i) \/ OpenVariable(i) \/ OpenProgram(i)
    BY <2>5, <2>17 DEF OpenChannel, OpenVariable, OpenProgram
  <2>18. CASE \E i \in Items : PickChannel(i) \/ PickVariable(i) \/ PickProgram(i)
    BY <2>7, <2>18 DEF PickChannel, PickVariable, PickProgram
  <2>19. CASE SaveChannel \/ SaveVariable \/ SaveProgram
    BY <2>9, <2>19 DEF SaveChannel, SaveVariable, SaveProgram
  <2>20. CASE RemoveChannel \/ RemoveVariable \/ RemoveProgram
    BY <2>10, <2>20 DEF RemoveChannel, RemoveVariable, RemoveProgram
  <2> HIDE DEF Shows
  <2> QED
    BY <1>2, <2>1, <2>2, <2>3, <2>4, <2>6, <2>8, <2>11, <2>12, <2>13, <2>14, <2>15, <2>16,
       <2>17, <2>18, <2>19, <2>20, Zenon DEF UserNext
<1>3. CASE HostNext
  <2>1. CASE ConfigArrives \/ ConfigFails
    BY <2>1 DEF ConfigArrives, ConfigFails
  <2>2. CASE ServicesSettle
    <3>1. form' = NoForm /\ screen' = Drawn(blocks) /\ view' \in Views
      BY <2>2 DEF ServicesSettle, Views
    <3> QED
      BY <3>1 DEF Closing
  <2>3. ASSUME NEW c \in calls, Answers(c) \/ CallFails(c)
        PROVE  Shows
    <3>1. CASE DiscoverReplies(c)
      BY <3>1, Zenon DEF DiscoverReplies
    <3>2. CASE TestReplies(c) \/ SplitStarts(c) \/ CallFails(c)
      BY <3>2, Zenon DEF TestReplies, SplitStarts, CallFails
    <3>3. CASE MergeLands(c)
      BY <3>3, Zenon DEF MergeLands
    <3>4. CASE SplitLands(c)
      BY <3>4, Zenon DEF SplitLands
    <3> QED
      BY <2>3, <3>1, <3>2, <3>3, <3>4 DEF Answers
  <2> QED
    BY <1>3, <2>1, <2>2, <2>3 DEF HostNext
<1> QED
  BY <1>1, <1>2, <1>3 DEF Next

\* The first bridge that has an item has an entry for it.
LEMMA EditorShowsItem ==
  ASSUME NEW b, GoodBlocks(b), NEW i \in Items, NEW mode
  PROVE  Editor(b, i, mode).item \in Items /\ Editor(b, i, mode).entry \in Entries
<1> DEFINE held == Holders(b, i)
           first == CHOOSE n \in held : \A m \in held : n <= m
<1>1. /\ Editor(b, i, mode).item = i
      /\ Editor(b, i, mode).entry = IF held = {} THEN "plain" ELSE b[first].items[i]
  BY DEF Editor
<1>2. held \subseteq Nat
  BY ListPositions DEF GoodBlocks, Holders
<1>3. held # {} => first \in held
  <2> HIDE DEF held
  <2> QED
    BY <1>2, FirstOf
<1> HIDE DEF first
<1>4. held # {} => b[first].items[i] \in Entries
  BY <1>3 DEF Holders, GoodBlocks, IsBlock, IsItems
<1> QED
  BY <1>1, <1>4 DEF Entries

\* An open editor goes on showing an item.
LEMMA OpenedNext == Held /\ Placed /\ GoodBlocks(blocks') /\ [Next]_vars => Opened'
<1> SUFFICES ASSUME Held, Placed, GoodBlocks(blocks'), [Next]_vars
             PROVE  Opened'
  OBVIOUS
<1> USE DEF Opened
<1>1. GoodBlocks(blocks) /\ (IsEditor(form) => form.item \in Items /\ form.entry \in Entries)
  BY DEF Held
<1>2. CASE UNCHANGED form
  BY <1>1, <1>2
<1>3. CASE form' = NoForm
  BY <1>3 DEF NoForm, IsEditor
<1>4. CASE rerender
  <2>1. form' = Redrawn(blocks', form)
    BY <1>4 DEF rerender
  <2>2. CASE IsEditor(form)
    <3>1. form' = Editor(blocks', form.item, form.mode)
      BY <2>1, <2>2 DEF Redrawn
    <3> QED
      BY <1>1, <2>2, <3>1, EditorShowsItem
  <2>3. CASE IsBridgeForm(form)
    BY <2>1, <2>3 DEF Redrawn, IsBridgeForm, BridgeForm, IsEditor
  <2>4. CASE ~IsEditor(form) /\ ~IsBridgeForm(form)
    BY <1>1, <2>1, <2>4 DEF Redrawn
  <2> QED
    BY <2>2, <2>3, <2>4
<1>5. ASSUME NEW f, Opening(f)
      PROVE  Opened'
  <2>1. form' = f
    BY <1>5 DEF Opening, pushNav
  <2>2. CASE \E i \in Items, mode \in {"edit", "add"} : f = Editor(blocks, i, mode)
    BY <1>1, <2>1, <2>2, EditorShowsItem
  <2>3. CASE \E kind \in {"channel", "variable", "program"} : f = [kind |-> "pick", of |-> kind]
    BY <2>1, <2>3 DEF IsEditor
  <2>4. CASE \E kind, n : OfBridge(f, kind, n)
    BY <2>1, <2>4 DEF IsEditor, OfBridge, BridgeForm
  <2> QED
    BY <1>5, <2>2, <2>3, <2>4 DEF Opening
<1>6. ASSUME NEW n, ChangeTarget(n)
      PROVE  Opened'
  <2>1. IsEditor(form) /\ form' = [form EXCEPT !.target = n]
    BY <1>6 DEF ChangeTarget
  <2>2. form'.kind = form.kind /\ form'.item = form.item /\ form'.entry = form.entry
    BY <2>1
  <2> QED
    BY <1>1, <2>1, <2>2 DEF IsEditor
<1> QED
  BY <1>2, <1>3, <1>4, <1>5, <1>6, ShowsStep DEF Shows, Closing, screen_vars

\* No form outlives its view.
LEMMA PlacedNext == Placed /\ [Next]_vars => Placed'
<1> SUFFICES ASSUME Placed, [Next]_vars
             PROVE  Placed'
  OBVIOUS
<1> USE DEF Placed
<1>1. CASE rerender
  <2>1. form' = Redrawn(blocks', form) /\ view' = view
    BY <1>1 DEF rerender
  <2>2. form = NoForm => form' = NoForm
    BY <2>1 DEF Redrawn, NoForm, IsEditor, IsBridgeForm
  <2> QED
    BY <2>1, <2>2
<1>2. CASE \E n \in 1..Len(blocks) : ChangeTarget(n)
  BY <1>2 DEF ChangeTarget, IsEditor, NoForm
<1>3. CASE \E f : Opening(f)
  BY <1>3 DEF Opening, pushNav
<1> QED
  BY <1>1, <1>2, <1>3, ShowsStep DEF Shows, Closing, screen_vars

\* How the requests under way change.
Requests ==
  \/ calls' \subseteq calls
  \/ \E c : /\ calls' = calls \cup {c} /\ Cardinality(calls) < MaxCalls
            /\ c.kind \in {"discover", "test"} \/ (c.kind = "import" /\ c.backup \in Backups)
  \/ \E h : calls' = {[kind |-> "discover", ccu |-> h]}
  \/ \E c \in calls : /\ c.kind = "import"
                      /\ calls' = (calls \ {c}) \cup {[kind |-> "split", backup |-> c.backup]}

LEMMA RequestsStep ==
  [Next]_vars => /\ Requests /\ spinner' \in {spinner, TRUE, FALSE}
                 /\ discovered' \in {discovered, Items, {}}
<1> SUFFICES ASSUME [Next]_vars
             PROVE  /\ Requests /\ spinner' \in {spinner, TRUE, FALSE}
                    /\ discovered' \in {discovered, Items, {}}
  OBVIOUS
<1> DEFINE Goal == Requests /\ spinner' \in {spinner, TRUE, FALSE} /\ discovered' \in {discovered, Items, {}}
<1> SUFFICES Goal
  OBVIOUS
<1>1. CASE UNCHANGED call_vars
  BY <1>1 DEF call_vars, Requests
<1>2. CASE UserNext
  <2>1. CASE ClosePage
    BY <2>1 DEF ClosePage, Requests
  <2>2. CASE StartDiscover
    <3> DEFINE c == [kind |-> "discover", ccu |-> blocks[1].ccu]
    <3>1. Start(c) /\ c.kind = "discover"
      BY <2>2 DEF StartDiscover
    <3> HIDE DEF c
    <3> QED
      BY <3>1 DEF Start, Requests
  <2>3. CASE StartTest
    <3> DEFINE c == [kind |-> "test"]
    <3>1. Start(c) /\ c.kind = "test"
      BY <2>3 DEF StartTest
    <3> HIDE DEF c
    <3> QED
      BY <3>1 DEF Start, Requests
  <2>4. ASSUME NEW k \in Backups, NEW multi, StartImport(k, multi)
        PROVE  Goal
    <3> DEFINE c == [kind |-> "import", backup |-> k, multi |-> multi]
    <3>1. Start(c) /\ c.kind = "import" /\ c.backup \in Backups
      BY <2>4 DEF StartImport
    <3> HIDE DEF c
    <3> QED
      BY <3>1 DEF Start, Requests
  <2>5. CASE UNCHANGED call_vars
    BY <1>1, <2>5
  <2> USE DEF Idle
  <2>6. CASE Open \/ HostSaves
    BY <2>5, <2>6 DEF Open, HostSaves
  <2>7. CASE \E v \in Views : navigate(v)
    BY <2>5, <2>7 DEF navigate
  <2>8. CASE Cancel
    BY <2>5, <2>8 DEF Cancel
  <2>9. CASE \E i \in Items : OpenChannel(i) \/ OpenVariable(i) \/ OpenProgram(i)
    BY <2>5, <2>9 DEF OpenChannel, OpenVariable, OpenProgram, OpenRow
  <2>10. CASE \E kind \in {"channel", "variable", "program"} : OpenPicker(kind)
    BY <2>5, <2>10 DEF OpenPicker
  <2>11. CASE \E i \in Items : PickChannel(i) \/ PickVariable(i) \/ PickProgram(i)
    BY <2>5, <2>11 DEF PickChannel, PickVariable, PickProgram, Pick
  <2>12. CASE \E n \in 1..Len(blocks) : ChangeTarget(n)
    BY <2>5, <2>12 DEF ChangeTarget
  <2>13. CASE SaveChannel \/ SaveVariable \/ SaveProgram
    BY <2>5, <2>13 DEF SaveChannel, SaveVariable, SaveProgram, Save
  <2>14. CASE RemoveChannel \/ RemoveVariable \/ RemoveProgram
    BY <2>5, <2>14 DEF RemoveChannel, RemoveVariable, RemoveProgram, Remove
  <2>15. CASE \E id \in Identities : addChildBridge(id)
    BY <2>5, <2>15 DEF addChildBridge
  <2>16. CASE \E id \in Identities, n \in DOMAIN blocks : regenerateBridgeIdentity(n, id)
    BY <2>5, <2>16 DEF regenerateBridgeIdentity
  <2>17. CASE \E kind \in {"rename", "remove"}, n \in 1..screen.bridges : OpenBridge(kind, n)
    BY <2>5, <2>17 DEF OpenBridge
  <2>18. CASE SaveRename \/ ConfirmRemove
    BY <2>5, <2>18 DEF SaveRename, ConfirmRemove
  <2>19. CASE \E h \in Hosts : propagate(h)
    BY <2>5, <2>19 DEF propagate
  <2>20. CASE \E k \in Backups, multi \in BOOLEAN : StartImport(k, multi)
    BY <2>4, <2>20
  <2> HIDE DEF Goal
  <2> QED
    BY <1>2, <2>1, <2>2, <2>3, <2>6, <2>7, <2>8, <2>9, <2>10, <2>11, <2>12, <2>13, <2>14,
       <2>15, <2>16, <2>17, <2>18, <2>19, <2>20, Zenon DEF UserNext
<1>3. CASE HostNext
  <2>1. CASE ConfigArrives \/ ConfigFails
    BY <1>1, <2>1 DEF ConfigArrives, ConfigFails
  <2>2. CASE ServicesSettle
    BY <2>2 DEF ServicesSettle, Requests, call_vars
  <2>3. ASSUME NEW c \in calls, Answers(c) \/ CallFails(c)
        PROVE  Goal
    <3>1. CASE DiscoverReplies(c) \/ TestReplies(c) \/ MergeLands(c) \/ SplitLands(c) \/ CallFails(c)
      BY <3>1 DEF DiscoverReplies, TestReplies, MergeLands, SplitLands, CallFails, Ended, Requests
    <3>2. CASE SplitStarts(c)
      BY <3>2 DEF SplitStarts, Requests
    <3> QED
      BY <2>3, <3>1, <3>2 DEF Answers
  <2> QED
    BY <1>3, <2>1, <2>2, <2>3 DEF HostNext
<1> QED
  BY <1>1, <1>2, <1>3 DEF Next, vars

\* What is under way has been sent by the page.
LEMMA SentNext == Sent /\ [Next]_vars => Sent'
<1> SUFFICES ASSUME Sent, [Next]_vars
             PROVE  Sent'
  OBVIOUS
<1>1. CASE calls' \subseteq calls
  BY <1>1 DEF Sent
<1>2. ASSUME NEW c, calls' = calls \cup {c},
             c.kind \in {"discover", "test"} \/ (c.kind = "import" /\ c.backup \in Backups)
      PROVE  Sent'
  BY <1>2 DEF Sent
<1>3. ASSUME NEW h, calls' = {[kind |-> "discover", ccu |-> h]}
      PROVE  Sent'
  BY <1>3 DEF Sent
<1>4. ASSUME NEW c \in calls, c.kind = "import",
             calls' = (calls \ {c}) \cup {[kind |-> "split", backup |-> c.backup]}
      PROVE  Sent'
  BY <1>4 DEF Sent
<1> QED
  BY <1>1, <1>2, <1>3, <1>4, RequestsStep DEF Requests

\* What is staged is read again later.
LEMMA StoredNext == Quiet /\ Stored /\ GoodBlocks(blocks') /\ [Next]_vars => Stored'
<1> SUFFICES ASSUME Quiet, Stored, GoodBlocks(blocks'), [Next]_vars
             PROVE  Stored'
  OBVIOUS
<1> USE DEF Stored, page_vars, config_vars
<1>1. Storable(blocks')
  BY Fields DEF GoodBlocks, Storable, IsBlock, IsItems
<1>2. CASE Works
  <2>1. staged'.ours = blocks' \/ staged' = staged
    BY <1>2, StageEffect, LoseEffect DEF Works
  <2> QED
    BY <1>1, <1>2, <2>1 DEF Works
<1>3. CASE UNCHANGED vars \/ Open \/ ClosePage \/ HostSaves
  BY <1>3 DEF vars, Open, ClosePage, HostSaves
<1>4. CASE ConfigArrives \/ ConfigFails \/ ServicesSettle
  BY <1>4 DEF ConfigArrives, ConfigFails, ServicesSettle
<1> QED
  BY <1>2, <1>3, <1>4, Kinds

\* Changes are counted up to the bound.
LEMMA EditsNext == edits \in 0..MaxEdits /\ [Next]_vars => edits' \in 0..MaxEdits
<1> SUFFICES ASSUME edits \in 0..MaxEdits, [Next]_vars
             PROVE  edits' \in 0..MaxEdits
  OBVIOUS
<1>1. Stage \/ Lose => edits' \in 0..MaxEdits
  BY BoundsAssumption DEF Stage, Lose
<1>2. CASE Rewrites
  <2>1. Stage \/ Lose
    BY <1>2 DEF Rewrites, SaveChannel, SaveVariable, SaveProgram, Save, RemoveChannel, RemoveVariable,
      RemoveProgram, Remove, addChildBridge, regenerateBridgeIdentity, SaveRename, ConfirmRemove,
      propagate, MergeLands, SplitLands
  <2> QED
    BY Zenon, <1>1, <2>1
<1>3. CASE ConfigArrives \/ ClosePage \/ UNCHANGED <<blocks, edits>>
  BY <1>3 DEF ConfigArrives, ClosePage
<1> QED
  BY <1>2, <1>3, Rewriting

-----------------------------------------------------------------------------
(* The invariant                                                           *)

Sound == Quiet /\ Held /\ Placed /\ edits \in 0..MaxEdits

\* The page starts with the default block and with what is saved.
LEMMA SoundInit == Init => Sound
<1> SUFFICES ASSUME Init
             PROVE  Sound
  OBVIOUS
<1>1. GoodBlocks(blocks)
  BY OnlyDefault DEF Init
<1>2. Storable(disk.ours) /\ Storable(staged.ours)
  BY SavedAssumption DEF Init
<1>3. Opened /\ Sent /\ Quiet /\ Placed
  BY DEF Init, Opened, Sent, Quiet, Placed, NoForm, IsEditor
<1>4. edits \in Nat /\ edits \in 0..MaxEdits
  BY BoundsAssumption DEF Init
<1> QED
  BY <1>1, <1>2, <1>3, <1>4 DEF Sound, Held, Stored

\* A fate leaves a main bridge, and blocks the page can draw.
LEMMA FateIsGood == Held /\ Fate => GoodBlocks(blocks')
<1> SUFFICES ASSUME GoodBlocks(blocks), Fate
             PROVE  GoodBlocks(blocks')
  BY DEF Held
<1>1. CASE blocks' = blocks
  BY <1>1
<1>2. CASE \E S : Edited(blocks, blocks', S)
  BY <1>2 DEF Edited
<1> QED
  BY <1>1, <1>2, Zenon DEF Fate

LEMMA SoundNext == Sound /\ [Next]_vars => Sound'
<1> SUFFICES ASSUME Sound, [Next]_vars
             PROVE  Sound'
  OBVIOUS
<1>1. Quiet /\ Held /\ Placed /\ edits \in 0..MaxEdits
  BY DEF Sound
<1>2. Stored /\ Sent
  BY <1>1 DEF Held
<1>3. Quiet' /\ Placed' /\ Sent' /\ edits' \in 0..MaxEdits
  BY <1>1, <1>2, QuietNext, PlacedNext, SentNext, EditsNext
<1>4. GoodBlocks(blocks')
  BY <1>1, BlocksStep, FateIsGood
<1>5. Opened' /\ Stored'
  BY <1>1, <1>2, <1>4, OpenedNext, StoredNext
<1>6. edits' \in Nat
  BY <1>3
<1> QED
  BY <1>3, <1>4, <1>5, <1>6 DEF Sound, Held

\* The blocks stay good, whatever is edited, imported, staged and reopened.
LEMMA SoundInvariant == Spec => []Sound
BY SoundInit, SoundNext, PTL DEF Spec

-----------------------------------------------------------------------------
(* Types                                                                   *)

\* What the page has drawn last.
DrawnOK == DOMAIN screen = {"items", "bridges", "replaced"} /\ screen.items \subseteq Items
           /\ screen.replaced \in BOOLEAN

\* The rest of the types.
Shape ==
  /\ page \in {"closed", "loading", "services", "ready"}
  /\ change \in {"none", "staged", "refused", "lost"}
  /\ view \in Views /\ DrawnOK
  /\ otherBlocks \in Others /\ disk.others \in Others /\ staged.others \in Others
  /\ loaded \in BOOLEAN /\ spinner \in BOOLEAN
  /\ discovered \subseteq Items
  /\ IsFiniteSet(calls) /\ Cardinality(calls) <= MaxCalls

\* What is drawn has rows for items only.
LEMMA DrawnShape ==
  ASSUME NEW b
  PROVE  /\ DOMAIN Drawn(b) = {"items", "bridges", "replaced"}
         /\ Drawn(b).items \subseteq Items /\ Drawn(b).replaced \in BOOLEAN
BY DEF Drawn, ConfiguredIn

LEMMA ShapeInit == Init => Shape
<1> SUFFICES ASSUME Init
             PROVE  Shape
  OBVIOUS
<1>1. DrawnOK
  BY DrawnShape DEF Init, DrawnOK
<1>2. IsFiniteSet(calls) /\ Cardinality(calls) <= MaxCalls
  BY FS_EmptySet, BoundsAssumption DEF Init
<1>3. /\ page \in {"closed", "loading", "services", "ready"} /\ change \in {"none", "staged", "refused", "lost"}
      /\ view \in Views /\ discovered \subseteq Items
  BY DEF Init, Views
<1>4. otherBlocks \in Others /\ disk.others \in Others /\ staged.others \in Others
  BY DefaultsAssumption, SavedAssumption DEF Init
<1>5. loaded \in BOOLEAN /\ spinner \in BOOLEAN
  BY Zenon DEF Init
<1> QED
  BY <1>1, <1>2, <1>3, <1>4, <1>5 DEF Shape

\* A set within a bound, after an element has come, gone or been replaced.
LEMMA BoundKept ==
  ASSUME NEW S, IsFiniteSet(S), NEW max \in Nat \ {0}, Cardinality(S) <= max, NEW T,
         \/ T \subseteq S
         \/ Cardinality(S) < max /\ \E c : T = S \cup {c}
         \/ \E c : T = {c}
         \/ \E c \in S : \E d : T = (S \ {c}) \cup {d}
  PROVE  IsFiniteSet(T) /\ Cardinality(T) <= max
<1>1. Cardinality(S) \in Nat
  BY FS_CardinalityType
<1>2. CASE T \subseteq S
  <2>1. IsFiniteSet(T) /\ Cardinality(T) <= Cardinality(S)
    BY <1>2, FS_Subset
  <2>2. Cardinality(T) \in Nat
    BY <2>1, FS_CardinalityType
  <2> QED
    BY <1>1, <2>1, <2>2
<1>3. ASSUME NEW c, T = S \cup {c}, Cardinality(S) < max
      PROVE  IsFiniteSet(T) /\ Cardinality(T) <= max
  <2>1. IsFiniteSet(T) /\ Cardinality(T) = IF c \in S THEN Cardinality(S) ELSE Cardinality(S) + 1
    BY <1>3, FS_AddElement
  <2> QED
    BY <1>1, <1>3, <2>1
<1>4. ASSUME NEW c, T = {c}
      PROVE  IsFiniteSet(T) /\ Cardinality(T) <= max
  <2>1. IsFiniteSet(T) /\ Cardinality(T) = 1
    BY <1>4, FS_Singleton
  <2> QED
    BY <2>1
<1>5. ASSUME NEW c \in S, NEW d, T = (S \ {c}) \cup {d}
      PROVE  IsFiniteSet(T) /\ Cardinality(T) <= max
  <2>1. IsFiniteSet(S \ {c}) /\ Cardinality(S \ {c}) = Cardinality(S) - 1
    BY FS_RemoveElement
  <2>2. IsFiniteSet(T) /\ Cardinality(T) \in {Cardinality(S) - 1, Cardinality(S) - 1 + 1}
    BY <1>5, <2>1, FS_AddElement
  <2> QED
    BY <1>1, <2>2
<1> QED
  BY <1>2, <1>3, <1>4, <1>5

\* The requests under way stay within their bound.
LEMMA CallsBounded ==
  ASSUME IsFiniteSet(calls), Cardinality(calls) <= MaxCalls, Requests
  PROVE  IsFiniteSet(calls') /\ Cardinality(calls') <= MaxCalls
<1>1. \/ calls' \subseteq calls
      \/ Cardinality(calls) < MaxCalls /\ \E c : calls' = calls \cup {c}
      \/ \E c : calls' = {c}
      \/ \E c \in calls : \E d : calls' = (calls \ {c}) \cup {d}
  BY Zenon DEF Requests
<1> QED
  BY <1>1, BoundKept, BoundsAssumption

\* What is seen keeps its shape.
LEMMA DrawnNext == Placed /\ view \in Views /\ DrawnOK /\ [Next]_vars => view' \in Views /\ DrawnOK'
<1> SUFFICES ASSUME Placed, view \in Views, DrawnOK, [Next]_vars
             PROVE  view' \in Views /\ DrawnOK'
  OBVIOUS
<1> USE DEF DrawnOK
<1>1. CASE UNCHANGED <<view, screen>>
  BY <1>1
<1>2. ASSUME NEW b, screen' = Drawn(b), view' \in Views
      PROVE  view' \in Views /\ DrawnOK'
  BY <1>2, DrawnShape
<1>3. CASE Closing
  BY <1>2, <1>3 DEF Closing
<1>4. CASE rerender
  BY <1>2, <1>4 DEF rerender
<1>5. CASE \E f : Opening(f)
  BY <1>2, <1>5 DEF Opening, pushNav
<1>6. CASE screen' = [screen EXCEPT !.replaced = TRUE] /\ UNCHANGED <<view, form>>
  BY <1>6
<1>7. CASE \E n \in 1..Len(blocks) : ChangeTarget(n)
  BY <1>1, <1>7 DEF ChangeTarget
<1> QED
  BY <1>1, <1>3, <1>4, <1>5, <1>6, <1>7, ShowsStep DEF Shows, screen_vars

LEMMA ShapeNext == Quiet /\ Placed /\ Shape /\ [Next]_vars => Shape'
<1> SUFFICES ASSUME Quiet, Placed, Shape, [Next]_vars
             PROVE  Shape'
  OBVIOUS
<1>1. view' \in Views /\ DrawnOK'
  BY DrawnNext DEF Shape
<1>2. IsFiniteSet(calls') /\ Cardinality(calls') <= MaxCalls
  BY CallsBounded, RequestsStep DEF Shape
<1>3. discovered' \subseteq Items
  BY RequestsStep DEF Shape
<1>4. spinner' \in BOOLEAN
  BY RequestsStep, Zenon DEF Shape
<1>5. /\ page' \in {"closed", "loading", "services", "ready"}
      /\ change' \in {"none", "staged", "refused", "lost"}
      /\ otherBlocks' \in Others /\ disk'.others \in Others /\ staged'.others \in Others
      /\ loaded' = loaded \/ loaded' = TRUE \/ loaded' = FALSE
  <2> USE DEF page_vars, config_vars
  <2>1. CASE Works
    <3>1. /\ otherBlocks' = otherBlocks
          /\ staged'.others = otherBlocks \/ staged' = staged
          /\ change' \in {"staged", "refused", "lost", change}
      BY <2>1, StageEffect, LoseEffect DEF Works
    <3> QED
      BY <2>1, <3>1 DEF Works, Shape
  <2>2. CASE UNCHANGED vars \/ Open \/ HostSaves \/ ClosePage
    BY <2>2, DefaultsAssumption DEF vars, Open, HostSaves, ClosePage, Shape
  <2>3. CASE ConfigArrives \/ ConfigFails \/ ServicesSettle
    BY <2>3 DEF ConfigArrives, ConfigFails, ServicesSettle, Shape
  <2> QED
    BY <2>1, <2>2, <2>3, Kinds
<1>6. loaded' \in BOOLEAN
  BY <1>5, Zenon DEF Shape
<1> QED
  BY <1>1, <1>2, <1>3, <1>4, <1>5, <1>6 DEF Shape

\* The page always has a main bridge, no form outlives its view, no row is drawn
\* for what is no item and no request is under way that the page has not sent.
THEOREM TypeCorrect == Spec => []TypeOK
<1>1. Sound /\ Shape => TypeOK
  <2> SUFFICES ASSUME Sound, Shape
               PROVE  TypeOK
    OBVIOUS
  <2>1. GoodBlocks(blocks) /\ Sent /\ edits \in 0..MaxEdits /\ (form # NoForm => view = "lists")
    BY DEF Sound, Held, Placed
  <2>2. blocks # <<>> /\ \A n \in DOMAIN blocks :
                            /\ DOMAIN blocks[n] = DOMAIN DefaultBlock
                            /\ blocks[n].ccu \in Hosts
                            /\ DOMAIN blocks[n].items \subseteq Items
                            /\ \A i \in DOMAIN blocks[n].items : blocks[n].items[i] \in Entries
    BY <2>1 DEF GoodBlocks, IsBlock, IsItems
  <2>3. \A c \in calls : c.kind \in {"discover", "test", "import", "split"}
    BY <2>1 DEF Sent
  <2>4. {spinner, loaded, screen.replaced} \subseteq BOOLEAN
    BY Zenon DEF Shape, DrawnOK
  <2> QED
    BY <2>1, <2>2, <2>3, <2>4 DEF TypeOK, Shape, DrawnOK
<1>2. Sound /\ Shape /\ [Next]_vars => Shape'
  BY ShapeNext DEF Sound
<1> QED
  BY <1>1, <1>2, SoundInvariant, ShapeInit, PTL DEF Spec

-----------------------------------------------------------------------------
(* What the page promises about the accessories                            *)

\* A removal form is not the main bridge's, and it counts the accessories that the
\* bridge at its position has, unless the blocks were replaced under it.
ItemsAt(b, n) == IF n \in DOMAIN b THEN DOMAIN b[n].items ELSE {}

Counted ==
  form.kind = "remove" =>
    form.index # 1 /\ (screen.replaced = TRUE \/ form.items = ItemsAt(blocks, form.index))

\* The removal form as it is drawn.
LEMMA CountedWhenDrawn ==
  ASSUME NEW b, NEW kind, NEW n, kind = "remove" => n # 1
  PROVE  LET f == BridgeForm(b, kind, n)
         IN  f.kind = "remove" => f.index # 1 /\ f.items = ItemsAt(b, f.index)
BY DEF BridgeForm, ItemsAt

\* A merge changes the main bridge only.
LEMMA MergeSpares ==
  ASSUME NEW c, MergeLands(c), NEW n, n # 1
  PROVE  ItemsAt(blocks', n) = ItemsAt(blocks, n)
<1> DEFINE k == c.backup
           filled == FilledIn(blocks, k)
<1>1. blocks' = [filled EXCEPT ![1].items = Over(ReportedItems(k), @)]
  BY DEF MergeLands
<1>2. DOMAIN filled = DOMAIN blocks /\ filled[n] = blocks[n]
  BY DEF FilledIn
<1> HIDE DEF filled, k
<1>3. DOMAIN blocks' = DOMAIN filled /\ (n \in DOMAIN filled => blocks'[n] = filled[n])
  BY <1>1
<1> QED
  BY <1>2, <1>3 DEF ItemsAt

\* A form that is drawn again counts what there is.
LEMMA CountedWhenRedrawn ==
  ASSUME Held, Counted, rerender
  PROVE  Counted'
<1>1. form' = Redrawn(blocks', form)
  BY DEF rerender
<1>2. CASE IsEditor(form)
  <2>1. form.item \in Items /\ form' = Editor(blocks', form.item, form.mode)
    BY <1>1, <1>2 DEF Redrawn, Held, Opened
  <2>2. form'.kind \in {"channel", "variable", "program"}
    BY <2>1, KindsAssumption DEF Editor
  <2> QED
    BY <2>2 DEF Counted
<1>3. CASE IsBridgeForm(form) /\ ~IsEditor(form)
  <2>1. form' = BridgeForm(blocks', form.kind, form.index)
    BY <1>1, <1>3 DEF Redrawn
  <2>2. form.kind = "remove" => form.index # 1
    BY DEF Counted
  <2> QED
    BY <2>1, <2>2, CountedWhenDrawn DEF Counted
<1>4. CASE ~IsEditor(form) /\ ~IsBridgeForm(form)
  BY <1>1, <1>4 DEF Redrawn, IsBridgeForm, Counted
<1> QED
  BY <1>2, <1>3, <1>4

LEMMA CountedNext == Sound /\ Shape /\ Counted /\ [Next]_vars => Counted'
<1> SUFFICES ASSUME Sound, Shape, Counted, [Next]_vars
             PROVE  Counted'
  OBVIOUS
<1>1. Held /\ Placed /\ Quiet /\ DOMAIN screen = {"items", "bridges", "replaced"}
  BY DEF Sound, Shape, DrawnOK
<1>2. CASE form' = NoForm
  BY <1>2 DEF NoForm, Counted
<1>3. CASE rerender
  BY <1>1, <1>3, CountedWhenRedrawn
<1>4. CASE screen' = [screen EXCEPT !.replaced = TRUE] /\ UNCHANGED form
  BY <1>1, <1>4 DEF Counted
<1>5. CASE UNCHANGED form /\ form.kind # "remove"
  BY <1>5 DEF Counted
<1>6. CASE Rewrites
  <2>1. ASSUME NEW kind \in {"channel", "variable", "program"}, NEW entry, Save(kind, entry)
        PROVE  Counted'
    BY <2>1, <1>2, <1>5 DEF Save, popNav, screen_vars
  <2>2. ASSUME NEW kind, Remove(kind)
        PROVE  Counted'
    BY <2>2, <1>2 DEF Remove, popNav
  <2>3. CASE SaveRename \/ ConfirmRemove
    BY <2>3, <1>2 DEF SaveRename, ConfirmRemove, popNav
  <2>4. ASSUME NEW id, addChildBridge(id)
        PROVE  Counted'
    BY <2>4, <1>3, Zenon DEF addChildBridge
  <2>5. ASSUME NEW id, NEW n, regenerateBridgeIdentity(n, id)
        PROVE  Counted'
    BY <2>5, <1>3, Zenon DEF regenerateBridgeIdentity
  <2>6. ASSUME NEW h, propagate(h)
        PROVE  Counted'
    <3>1. view = "settings" /\ form' = form
      BY <2>6, Zenon DEF propagate, screen_vars
    <3> QED
      BY <3>1, <1>1, <1>2 DEF Placed
  <2>7. ASSUME NEW c \in calls, MergeLands(c)
        PROVE  Counted'
    <3>1. rerender \/ UNCHANGED <<form, screen>>
      BY <2>7, Zenon DEF MergeLands, screen_vars
    <3>2. CASE UNCHANGED <<form, screen>>
      BY <2>7, <3>2, MergeSpares DEF Counted
    <3> QED
      BY <1>3, <3>1, <3>2
  <2>8. ASSUME NEW c \in calls, SplitLands(c)
        PROVE  Counted'
    BY <2>8, <1>3, <1>4, Zenon DEF SplitLands
  <2>9. (SaveChannel \/ SaveVariable \/ SaveProgram) => Counted'
    BY <2>1 DEF SaveChannel, SaveVariable, SaveProgram
  <2>10. (RemoveChannel \/ RemoveVariable \/ RemoveProgram) => Counted'
    BY <2>2 DEF RemoveChannel, RemoveVariable, RemoveProgram
  <2> QED
    BY <1>6, <2>3, <2>4, <2>5, <2>6, <2>7, <2>8, <2>9, <2>10, Zenon DEF Rewrites
<1>7. CASE ConfigArrives \/ ClosePage
  <2>1. ConfigArrives => form' = NoForm
    BY <1>1 DEF ConfigArrives, Quiet, screen_vars
  <2>2. ClosePage => form' = NoForm
    BY DEF ClosePage
  <2> QED
    BY <1>2, <1>7, <2>1, <2>2
<1>8. CASE UNCHANGED <<blocks, edits>>
  <2>1. CASE UNCHANGED screen_vars
    BY <1>8, <2>1 DEF screen_vars, Counted
  <2>2. ASSUME NEW f, Opening(f)
        PROVE  Counted'
    <3>1. form' = f /\ blocks' = blocks
      BY <2>2, <1>8 DEF Opening, pushNav
    <3>2. CASE \E i \in Items, mode \in {"edit", "add"} : f = Editor(blocks, i, mode)
      <4>1. f.kind \in {"channel", "variable", "program"}
        BY <3>2, KindsAssumption DEF Editor
      <4> QED
        BY <3>1, <4>1 DEF Counted
    <3>3. CASE \E kind \in {"channel", "variable", "program"} : f = [kind |-> "pick", of |-> kind]
      BY <3>1, <3>3 DEF Counted
    <3>4. CASE \E kind, n : OfBridge(f, kind, n)
      BY <3>1, <3>4, CountedWhenDrawn DEF Counted, OfBridge
    <3> QED
      BY <2>2, <3>2, <3>3, <3>4 DEF Opening
  <2>3. ASSUME NEW n, ChangeTarget(n)
        PROVE  Counted'
    <3>1. IsEditor(form) /\ form' = [form EXCEPT !.target = n]
      BY <2>3 DEF ChangeTarget
    <3>2. form'.kind = form.kind
      BY <3>1
    <3> QED
      BY <3>1, <3>2 DEF IsEditor, Counted
  <2>4. CASE Closing
    BY <1>2, <2>4 DEF Closing
  <2> QED
    BY <1>1, <1>3, <1>4, <2>1, <2>2, <2>3, <2>4, ShowsStep DEF Shows
<1> QED
  BY <1>6, <1>7, <1>8, Rewriting

LEMMA CountedInvariant == Spec => [](Sound /\ Counted)
<1>1. Init => Counted
  BY DEF Init, NoForm, Counted
<1>2. Sound /\ Shape /\ [Next]_vars => Shape'
  BY ShapeNext DEF Sound
<1> QED
  BY <1>1, <1>2, SoundInvariant, ShapeInit, CountedNext, PTL DEF Spec

\* An accessory leaves the configuration only from its own form, as one of those that
\* the removal form was drawn with, by a split import or with the page.  Only where
\* such an import replaced the blocks under the removal form, and its handler threw
\* before the form was drawn again, does the bridge go that is now at its position.
THEOREM OnlyWhatIsRemovedVanishes == Spec => NothingVanishes
<1>1. ASSUME Sound, Counted, [Next]_vars, NEW i \in Configured \ ConfiguredIn(blocks')
      PROVE  \/ IsEditor(form) /\ form.item = i
             \/ /\ form.kind = "remove"
                /\ IF screen.replaced THEN form.index \in Holders(blocks, i) ELSE i \in form.items
             \/ \E k \in Backups : SplitOf(k)
             \/ page' # page
  <2>1. Fate
    BY <1>1, BlocksStep DEF Sound
  <2>2. i \in ConfiguredIn(blocks) /\ i \notin ConfiguredIn(blocks') /\ blocks' # blocks
    BY <1>1 DEF Configured
  <2>3. ASSUME NEW S, Edited(blocks, blocks', S)
        PROVE  i \in S
    BY <2>2, <2>3 DEF Edited
  <2>4. CASE IsEditor(form) /\ Edited(blocks, blocks', {form.item})
    BY <2>3, <2>4
  <2>5. CASE /\ form.kind = "remove" /\ form.index \in DOMAIN blocks
             /\ Edited(blocks, blocks', DOMAIN blocks[form.index].items)
    <3>1. i \in DOMAIN blocks[form.index].items
      BY <2>3, <2>5
    <3>2. form.index \in Holders(blocks, i)
      BY <2>5, <3>1 DEF Holders
    <3>3. screen.replaced = TRUE \/ i \in form.items
      BY <1>1, <2>5, <3>1 DEF Counted, ItemsAt
    <3> QED
      BY <2>5, <3>2, <3>3
  <2>6. CASE Edited(blocks, blocks', {})
    BY <2>3, <2>6
  <2> QED
    BY <2>1, <2>2, <2>4, <2>5, <2>6 DEF Fate, Configured
<1>2. Sound /\ Counted /\ [Next]_vars =>
        [\A i \in Configured \ ConfiguredIn(blocks') :
           \/ IsEditor(form) /\ form.item = i
           \/ /\ form.kind = "remove"
              /\ IF screen.replaced THEN form.index \in Holders(blocks, i) ELSE i \in form.items
           \/ \E k \in Backups : SplitOf(k)
           \/ page' # page]_vars
  BY <1>1, Zenon
<1> QED
  BY <1>2, CountedInvariant, PTL DEF Spec, NothingVanishes

\* The bridges go on sharing their settings, but for a merge into a main bridge
\* that has none.
THEOREM BridgesShareSettings == Spec => SettingsStayCommon
<1>1. ASSUME Sound, [Next]_vars, Common(blocks), page' = page,
             ~(blocks[1].ccu = "" /\ \E k \in Backups : MergeOf(k))
      PROVE  Common(blocks')
  <2>1. Fate
    BY <1>1, BlocksStep DEF Sound
  <2>2. CASE \E S : Edited(blocks, blocks', S)
    BY <1>1, <2>2 DEF Edited
  <2>3. CASE \E k \in Backups : SplitOf(k) /\ Common(blocks')
    BY <2>3
  <2>4. CASE blocks' = blocks
    BY <1>1, <2>4
  <2> QED
    BY <1>1, <2>1, <2>2, <2>3, <2>4, Zenon DEF Fate
<1>2. Sound /\ [Next]_vars =>
        [Common(blocks) /\ page' = page /\ ~(blocks[1].ccu = "" /\ \E k \in Backups : MergeOf(k))
           => Common(blocks')]_vars
  BY <1>1, Zenon
<1> QED
  BY <1>2, SoundInvariant, PTL DEF Spec, SettingsStayCommon

\* The only requests whose end changes the configuration.
LEMMA Landing ==
  ASSUME Sound, [Next]_vars, NEW c, Landed(c)
  PROVE  c \in calls /\ (MergeLands(c) \/ SplitLands(c))
<1>1. c \in calls /\ c \notin calls' /\ edits' # edits
  BY DEF Landed
<1>2. ASSUME NEW d \in calls, MergeLands(d) \/ SplitLands(d)
      PROVE  MergeLands(c) \/ SplitLands(c)
  <2>1. calls' = calls \ {d}
    BY <1>2 DEF MergeLands, SplitLands, Ended
  <2> QED
    BY <1>1, <1>2, <2>1
<1>3. ~(ConfigArrives \/ ClosePage \/ UNCHANGED <<blocks, edits>>)
  BY <1>1 DEF ConfigArrives, ClosePage
<1>4. \/ UNCHANGED call_vars
      \/ \E d \in calls : MergeLands(d) \/ SplitLands(d)
  BY <1>3, Rewriting DEF Rewrites, Idle, SaveChannel, SaveVariable, SaveProgram, Save, RemoveChannel,
    RemoveVariable, RemoveProgram, Remove, addChildBridge, regenerateBridgeIdentity, SaveRename,
    ConfirmRemove, propagate
<1> QED
  BY <1>1, <1>2, <1>4 DEF call_vars

\* All that a backup is mapped to is in the configuration once its import has
\* landed, and a split gives each item to one bridge.
THEOREM WhatIsImportedIsConfigured == Spec => ImportLandsWhole
<1>1. ASSUME Sound, [Next]_vars, NEW k \in Backups
      PROVE  /\ MergeOf(k) => Mapped(k) \subseteq DOMAIN blocks'[1].items
             /\ SplitOf(k) => \A i \in Mapped(k) : Cardinality(Holders(blocks', i)) = 1
  <2>1. Held
    BY <1>1 DEF Sound
  <2>2. ASSUME MergeOf(k)
        PROVE  Mapped(k) \subseteq DOMAIN blocks'[1].items
    <3>1. PICK c \in calls : Landed(c) /\ c.kind = "import" /\ c.backup = k
      BY <2>2 DEF MergeOf
    <3>2. MergeLands(c)
      BY <1>1, <3>1, Landing DEF SplitLands
    <3> QED
      BY <2>1, <3>1, <3>2, MergeFate
  <2>3. ASSUME SplitOf(k), NEW i \in Mapped(k)
        PROVE  Cardinality(Holders(blocks', i)) = 1
    <3>1. PICK c \in calls : Landed(c) /\ c.kind = "split" /\ c.backup = k
      BY <2>3 DEF SplitOf
    <3>2. SplitLands(c)
      BY <1>1, <3>1, Landing DEF MergeLands
    <3>3. Holders(blocks', i) = {TargetFor(k, i)}
      BY <2>1, <2>3, <3>1, <3>2, SplitFate
    <3> QED
      BY <3>3, FS_Singleton
  <2> QED
    BY <2>2, <2>3
<1>2. Sound /\ [Next]_vars =>
        [\A k \in Backups :
           /\ MergeOf(k) => Mapped(k) \subseteq DOMAIN blocks'[1].items
           /\ SplitOf(k) => \A i \in Mapped(k) : Cardinality(Holders(blocks', i)) = 1]_vars
  BY <1>1, Zenon
<1> QED
  BY <1>2, SoundInvariant, PTL DEF Spec, ImportLandsWhole

-----------------------------------------------------------------------------
(* On how many bridges an accessory is                                     *)

\* An accessory is on finitely many bridges.
LEMMA HeldFinitely ==
  ASSUME NEW b, GoodBlocks(b), NEW i
  PROVE  IsFiniteSet(Holders(b, i)) /\ Cardinality(Holders(b, i)) \in Nat
<1>1. Len(b) \in Nat /\ Holders(b, i) \in SUBSET (1..Len(b))
  BY ListPositions DEF GoodBlocks, Holders
<1>2. IsFiniteSet(1..Len(b))
  BY <1>1, FS_Interval
<1> QED
  BY <1>1, <1>2, FS_Subset, FS_CardinalityType

\* Bridges that keep their accessories.
LEMMA HeldAsBefore ==
  ASSUME NEW b, NEW c, DOMAIN c = DOMAIN b, \A n \in DOMAIN b : c[n].items = b[n].items
  PROVE  \A i : Holders(c, i) = Holders(b, i)
BY DEF Holders

\* An item that is saved or removed leaves every bridge, the others stay.
LEMMA HeldAfterDrop ==
  ASSUME NEW b, GoodBlocks(b), NEW i
  PROVE  LET c == Dropped(b, i)
         IN  Holders(c, i) = {} /\ \A j : j # i => Holders(c, j) = Holders(b, j)
<1> DEFINE c == Dropped(b, i)
<1>1. DOMAIN c = DOMAIN b
  BY DEF Dropped
<1>2. \A n \in DOMAIN b : DOMAIN c[n].items = DOMAIN b[n].items \ {i}
  <2> SUFFICES ASSUME NEW n \in DOMAIN b
               PROVE  DOMAIN c[n].items = DOMAIN b[n].items \ {i}
    OBVIOUS
  <2>1. IsBlock(b[n]) /\ IsItems(b[n].items)
    BY DEF GoodBlocks, IsBlock
  <2>2. IsItems(Drop(b[n].items, i)) /\ DOMAIN Drop(b[n].items, i) = DOMAIN b[n].items \ {i}
    BY <2>1, DropItems
  <2>3. c[n] = [b[n] EXCEPT !.items = Drop(b[n].items, i)]
    BY DEF Dropped
  <2> QED
    BY <2>1, <2>2, <2>3, SetItems
<1> HIDE DEF c
<1>3. Holders(c, i) = {} /\ \A j : j # i => Holders(c, j) = Holders(b, j)
  BY <1>1, <1>2 DEF Holders
<1> QED
  BY <1>3 DEF c

\* An item that is saved is on its target and nowhere else.
LEMMA HeldAfterMove ==
  ASSUME NEW b, GoodBlocks(b), NEW n \in DOMAIN b, NEW i \in Items, NEW entry \in Entries
  PROVE  LET c == Put(Dropped(b, i), n, i, entry)
         IN  Holders(c, i) = {n} /\ \A j : j # i => Holders(c, j) = Holders(b, j)
<1> DEFINE a == Dropped(b, i)
           f == [j \in {i} |-> entry]
           c == Put(a, n, i, entry)
<1>1. GoodBlocks(a) /\ DOMAIN a = DOMAIN b
  BY DroppedBlocks DEF Edited
<1>2. Holders(a, i) = {} /\ \A j : j # i => Holders(a, j) = Holders(b, j)
  BY HeldAfterDrop
<1>3. IsItems(f) /\ DOMAIN f = {i}
  BY DEF IsItems
<1> HIDE DEF a
<1> DEFINE r == [a[n] EXCEPT !.items = Over(f, a[n].items)]
<1>4. c = [a EXCEPT ![n] = r]
  BY DEF Put
<1> HIDE DEF f, c
<1>5. DOMAIN r.items = DOMAIN f \cup DOMAIN a[n].items
  <2>1. IsBlock(a[n]) /\ IsItems(a[n].items)
    BY <1>1 DEF GoodBlocks, IsBlock
  <2>2. IsItems(Over(f, a[n].items)) /\ DOMAIN Over(f, a[n].items) = DOMAIN f \cup DOMAIN a[n].items
    BY <1>3, <2>1, OverItems
  <2> QED
    BY <2>1, <2>2, SetItems
<1> HIDE DEF r
<1>6. \A j : Holders(c, j) = IF j \in DOMAIN f THEN Holders(a, j) \cup {n} ELSE Holders(a, j)
  <2>1. DOMAIN c = DOMAIN a /\ c[n] = r /\ \A m \in DOMAIN a \ {n} : c[m] = a[m]
    BY <1>1, <1>4
  <2> QED
    BY <1>1, <1>5, <2>1 DEF Holders
<1>7. Holders(c, i) = {n} /\ \A j : j # i => Holders(c, j) = Holders(b, j)
  BY <1>2, <1>3, <1>6
<1> QED
  BY <1>7 DEF c, a

\* A merge puts what is imported on the main bridge and takes nothing from the others.
LEMMA HeldAfterMerge ==
  ASSUME NEW b, GoodBlocks(b), NEW k \in Backups
  PROVE  LET c == [FilledIn(b, k) EXCEPT ![1].items = Over(ReportedItems(k), @)]
         IN  \A i : Holders(c, i) \in {Holders(b, i), Holders(b, i) \cup {1}}
<1> DEFINE a == FilledIn(b, k)
           f == ReportedItems(k)
           c == [a EXCEPT ![1].items = Over(f, @)]
<1>1. GoodBlocks(a) /\ DOMAIN a = DOMAIN b /\ \A n \in DOMAIN b : a[n].items = b[n].items
  BY MainFilledIn
<1>2. IsItems(f)
  BY ReportIsItems
<1> HIDE DEF a, f
<1> DEFINE r == [a[1] EXCEPT !.items = Over(f, a[1].items)]
<1>3. c = [a EXCEPT ![1] = r]
  OBVIOUS
<1> HIDE DEF c
<1>4. 1 \in DOMAIN a /\ DOMAIN r.items = DOMAIN f \cup DOMAIN a[1].items
  <2>1. 1 \in DOMAIN a /\ IsBlock(a[1]) /\ IsItems(a[1].items)
    BY <1>1 DEF GoodBlocks, IsBlock
  <2>2. IsItems(Over(f, a[1].items)) /\ DOMAIN Over(f, a[1].items) = DOMAIN f \cup DOMAIN a[1].items
    BY <1>2, <2>1, OverItems
  <2> QED
    BY <2>1, <2>2, SetItems
<1> HIDE DEF r
<1>5. \A i : Holders(c, i) = IF i \in DOMAIN f THEN Holders(a, i) \cup {1} ELSE Holders(a, i)
  <2>1. DOMAIN c = DOMAIN a /\ c[1] = r /\ \A m \in DOMAIN a \ {1} : c[m] = a[m]
    BY <1>3, <1>4
  <2> QED
    BY <1>4, <2>1 DEF Holders
<1>6. \A i : Holders(a, i) = Holders(b, i)
  BY <1>1, HeldAsBefore
<1>7. \A i : Holders(c, i) \in {Holders(b, i), Holders(b, i) \cup {1}}
  BY <1>5, <1>6
<1> QED
  BY <1>7 DEF c, a, f

\* A split gives nothing to two bridges.
LEMMA HeldAfterSplit ==
  ASSUME NEW b, GoodBlocks(b), NEW k \in Backups, NEW i
  PROVE  \/ Holders(Replaced(b, k), i) = {}
         \/ \E n : Holders(Replaced(b, k), i) = {n}
<1> DEFINE main == FilledIn(b, k)[1]
           part == Split(k)
           c == Replaced(b, k)
<1>1. CASE i \in Mapped(k)
  BY <1>1, ReplacedBlocks
<1>2. CASE i \notin Mapped(k)
  <2>1. IsBlock(main)
    BY MainFilledIn DEF GoodBlocks
  <2>2. 1 \in DOMAIN part /\ \A n \in DOMAIN part : IsItems(part[n].items) /\ i \notin DOMAIN part[n].items
    BY <1>2, Targets
  <2>3. /\ DOMAIN c = DOMAIN part
        /\ \A n \in DOMAIN part :
             c[n] = IF n = 1 THEN [main EXCEPT !.items = part[1].items, !.name = part[1].name]
                    ELSE [bridge |-> part[n].bridge, name |-> part[n].name,
                          ccu |-> main.ccu, items |-> part[n].items]
    BY DEF Replaced
  <2> HIDE DEF main, part, c
  <2> DEFINE r == [main EXCEPT !.items = part[1].items]
             q == [r EXCEPT !.name = part[1].name]
  <2>4. q.items = part[1].items
    <3>1. IsBlock(r) /\ r.items = part[1].items
      BY <2>1, <2>2, SetItems
    <3> HIDE DEF r
    <3> QED
      BY <3>1, SetName
  <2>5. ASSUME NEW n \in DOMAIN c
        PROVE  i \notin DOMAIN c[n].items
    <3>1. CASE n = 1
      <4>1. c[n] = q
        BY <2>2, <2>3, <3>1
      <4> HIDE DEF q
      <4> QED
        BY <2>2, <2>4, <4>1
    <3>2. CASE n # 1
      BY <2>2, <2>3, <3>2
    <3> QED
      BY <3>1, <3>2
  <2>6. Holders(c, i) = {}
    BY <2>5 DEF Holders
  <2> QED
    BY <2>6 DEF c
<1> QED
  BY <1>1, <1>2

\* A new bridge has no accessory.
LEMMA HeldAfterAdding ==
  ASSUME NEW b, GoodBlocks(b), NEW r, r.items = NoItems
  PROVE  \A i : Holders(Append(b, r), i) = Holders(b, i)
<1> DEFINE c == Append(b, r)
<1>1. /\ DOMAIN c = DOMAIN b \cup {Len(b) + 1}
      /\ \A n \in DOMAIN b : c[n] = b[n]
      /\ c[Len(b) + 1] = r
  BY ListAppend DEF GoodBlocks
<1>2. DOMAIN r.items = {}
  BY DEF NoItems
<1> HIDE DEF c
<1>3. \A i : Holders(c, i) = Holders(b, i)
  BY <1>1, <1>2 DEF Holders
<1> QED
  BY <1>3 DEF c

\* The bridges behind a removed one move up.
LEMMA HeldAfterSplice ==
  ASSUME NEW b, GoodBlocks(b), NEW n \in DOMAIN b, NEW i
  PROVE  Cardinality(Holders(Spliced(b, n), i)) \in {Cardinality(Holders(b, i)), Cardinality(Holders(b, i)) - 1}
<1> DEFINE c == Spliced(b, n)
           S == Holders(b, i) \ {n}
           T == Holders(c, i)
           F == [k \in S |-> IF k < n THEN k ELSE k - 1]
<1>1. Len(b) \in Nat /\ DOMAIN b = 1..Len(b) /\ n \in 1..Len(b)
  BY ListPositions DEF GoodBlocks
<1>2. DOMAIN c = 1..(Len(b) - 1) /\ \A m \in DOMAIN c : c[m] = b[IF m < n THEN m ELSE m + 1]
  BY DEF Spliced
<1> HIDE DEF c
<1>3. \A k : k \in S <=> k \in 1..Len(b) /\ k # n /\ i \in DOMAIN b[k].items
  BY <1>1 DEF Holders
<1>4. \A m : m \in T <=> m \in 1..(Len(b) - 1) /\ i \in DOMAIN b[IF m < n THEN m ELSE m + 1].items
  BY <1>2 DEF Holders
<1> HIDE DEF S, T
<1>5. ASSUME NEW k \in S
      PROVE  F[k] \in T
  <2>1. k \in 1..Len(b) /\ k # n /\ i \in DOMAIN b[k].items /\ F[k] = IF k < n THEN k ELSE k - 1
    BY <1>3
  <2>2. F[k] \in 1..(Len(b) - 1) /\ (IF F[k] < n THEN F[k] ELSE F[k] + 1) = k
    BY <1>1, <2>1
  <2> QED
    BY <1>4, <2>1, <2>2
<1>6. \A k, m \in S : F[k] = F[m] => k = m
  <2> SUFFICES ASSUME NEW k \in S, NEW m \in S, F[k] = F[m]
               PROVE  k = m
    OBVIOUS
  <2>1. k \in 1..Len(b) /\ k # n /\ m \in 1..Len(b) /\ m # n
    BY <1>3
  <2> QED
    BY <1>1, <2>1
<1>7. ASSUME NEW m \in T
      PROVE  \E k \in S : F[k] = m
  <2> DEFINE k == IF m < n THEN m ELSE m + 1
  <2>1. m \in 1..(Len(b) - 1) /\ i \in DOMAIN b[k].items
    BY <1>4
  <2>2. k \in 1..Len(b) /\ k # n /\ (IF k < n THEN k ELSE k - 1) = m
    BY <1>1, <2>1
  <2>3. k \in S
    BY <1>3, <2>1, <2>2
  <2>4. F[k] = m
    BY <2>2, <2>3
  <2> QED
    BY <2>3, <2>4
<1>8. F \in [S -> T]
  BY <1>5
<1> HIDE DEF F
<1>9. F \in Bijection(S, T)
  BY <1>6, <1>7, <1>8, Fun_IsBij
<1>10. IsFiniteSet(Holders(b, i)) /\ Cardinality(Holders(b, i)) \in Nat
  BY HeldFinitely
<1>11. /\ IsFiniteSet(S)
       /\ Cardinality(S) = IF n \in Holders(b, i) THEN Cardinality(Holders(b, i)) - 1 ELSE Cardinality(Holders(b, i))
  BY <1>10, FS_RemoveElement DEF S
<1>12. Cardinality(T) = Cardinality(S)
  BY <1>9, <1>11, FS_Bijection DEF ExistsBijection
<1> QED
  BY <1>11, <1>12 DEF T, c

\* An item's own form has been saved or its removal confirmed.
Left(i) == form # NoForm /\ form' = NoForm /\ edits' # edits /\ IsEditor(form) /\ form.item = i

\* What a step makes of the bridges that have an item.
Spread(i) ==
  \/ Holders(blocks', i) = Holders(blocks, i) /\ ~Left(i)
  \/ Holders(blocks', i) = {} \/ \E n : Holders(blocks', i) = {n}
  \/ /\ form.kind = "remove"
     /\ Cardinality(Holders(blocks', i)) \in {Cardinality(Holders(blocks, i)), Cardinality(Holders(blocks, i)) - 1}
  \/ /\ \E k \in Backups : MergeOf(k)
     /\ Holders(blocks', i) \in {Holders(blocks, i), Holders(blocks, i) \cup {1}} /\ ~Left(i)

LEMMA ItemSpread ==
  ASSUME Held, NEW i \in Items,
         SaveChannel \/ SaveVariable \/ SaveProgram \/ RemoveChannel \/ RemoveVariable \/ RemoveProgram
  PROVE  Spread(i)
<1>1. GoodBlocks(blocks) /\ (IsEditor(form) => form.item \in Items /\ form.entry \in Entries)
  BY DEF Held, Opened
<1>2. ASSUME NEW kind \in {"channel", "variable", "program"}, NEW entry,
             IsEditor(form) => entry \in Entries, Save(kind, entry)
      PROVE  Spread(i)
  <2>1. IsEditor(form) /\ form.item \in Items /\ entry \in Entries
    BY <1>1, <1>2 DEF Save, IsEditor
  <2>2. CASE form.target \in DOMAIN blocks /\ blocks' = Put(Dropped(blocks, form.item), form.target, form.item, entry)
    BY <1>1, <2>1, <2>2, HeldAfterMove DEF Spread, Left
  <2>3. CASE blocks' = Dropped(blocks, form.item)
    BY <1>1, <2>1, <2>3, HeldAfterDrop DEF Spread, Left
  <2> QED
    BY <1>2, <2>2, <2>3 DEF Save
<1>3. ASSUME NEW kind \in {"channel", "variable", "program"}, Remove(kind)
      PROVE  Spread(i)
  <2>1. IsEditor(form) /\ blocks' = Dropped(blocks, form.item)
    BY <1>3 DEF Remove, IsEditor
  <2> QED
    BY <1>1, <2>1, HeldAfterDrop DEF Spread, Left
<1> QED
  BY <1>1, <1>2, <1>3 DEF SaveChannel, SaveVariable, SaveProgram, RemoveChannel, RemoveVariable, RemoveProgram, Entries

LEMMA BridgeSpread ==
  ASSUME Held, Placed, NEW i \in Items,
         \/ \E id \in Identities : addChildBridge(id)
         \/ \E id \in Identities, n \in DOMAIN blocks : regenerateBridgeIdentity(n, id)
         \/ SaveRename \/ ConfirmRemove
         \/ \E h \in Hosts : propagate(h)
  PROVE  Spread(i)
<1>1. GoodBlocks(blocks) /\ \A n \in DOMAIN blocks : IsBlock(blocks[n])
  BY DEF Held, GoodBlocks
<1>2. ASSUME NEW id, addChildBridge(id)
      PROVE  Spread(i)
  <2> DEFINE r == [DefaultBlock EXCEPT !.bridge = id, !.ccu = blocks[1].ccu]
  <2>1. blocks' = Append(blocks, r) /\ form = NoForm
    BY <1>2, Zenon DEF addChildBridge
  <2>2. r.items = NoItems
    BY DEF DefaultBlock
  <2> HIDE DEF r
  <2> QED
    BY <1>1, <2>1, <2>2, HeldAfterAdding DEF Spread, Left
<1>3. ASSUME NEW id, NEW n \in DOMAIN blocks, regenerateBridgeIdentity(n, id)
      PROVE  Spread(i)
  <2> DEFINE r == [blocks[n] EXCEPT !.bridge = id]
  <2>1. blocks' = [blocks EXCEPT ![n] = r] /\ form = NoForm
    BY <1>3 DEF regenerateBridgeIdentity
  <2>2. r.items = blocks[n].items
    BY <1>1, SetBridge
  <2> HIDE DEF r
  <2>3. DOMAIN blocks' = DOMAIN blocks /\ \A m \in DOMAIN blocks : blocks'[m].items = blocks[m].items
    BY <2>1, <2>2
  <2> QED
    BY <2>1, <2>3, HeldAsBefore DEF Spread, Left
<1>4. CASE SaveRename
  <2> DEFINE r == [blocks[form.index] EXCEPT !.name = "given"]
  <2>1. ~IsEditor(form)
    BY <1>4 DEF SaveRename, IsEditor
  <2>2. blocks' = blocks \/ blocks' = [blocks EXCEPT ![form.index] = r]
    BY <1>4 DEF SaveRename
  <2>3. form.index \in DOMAIN blocks => r.items = blocks[form.index].items
    BY <1>1, SetName
  <2> HIDE DEF r
  <2>4. DOMAIN blocks' = DOMAIN blocks /\ \A m \in DOMAIN blocks : blocks'[m].items = blocks[m].items
    BY <2>2, <2>3
  <2> QED
    BY <2>1, <2>4, HeldAsBefore DEF Spread, Left
<1>5. CASE ConfirmRemove
  <2> DEFINE rest == IF form.index \in DOMAIN blocks THEN Spliced(blocks, form.index) ELSE blocks
  <2>1. form.kind = "remove" /\ blocks' = IF rest = <<>> THEN <<DefaultBlock>> ELSE rest
    BY <1>5 DEF ConfirmRemove
  <2>2. CASE blocks' = <<DefaultBlock>>
    <3>1. Holders(<<DefaultBlock>>, i) = {}
      <4> DEFINE c == <<DefaultBlock>>
      <4>1. DOMAIN c = {1} /\ c[1] = DefaultBlock
        OBVIOUS
      <4> HIDE DEF c
      <4>2. DOMAIN DefaultBlock.items = {}
        BY DefaultIsBlock DEF NoItems
      <4>3. Holders(c, i) = {}
        BY <4>1, <4>2 DEF Holders
      <4> QED
        BY <4>3 DEF c
    <3> QED
      BY <2>2, <3>1 DEF Spread
  <2>3. CASE blocks' = blocks
    BY <2>1, <2>3 DEF Spread
  <2>4. CASE form.index \in DOMAIN blocks /\ blocks' = Spliced(blocks, form.index)
    BY <1>1, <2>1, <2>4, HeldAfterSplice DEF Spread
  <2> QED
    BY <2>1, <2>2, <2>3, <2>4
<1>6. ASSUME NEW h \in Hosts, propagate(h)
      PROVE  Spread(i)
  <2>1. blocks' = [n \in DOMAIN blocks |-> [blocks[n] EXCEPT !.ccu = h]]
    BY <1>6, Zenon DEF propagate
  <2>2. form = NoForm
    BY <1>6 DEF propagate, Placed
  <2>3. \A n \in DOMAIN blocks : blocks'[n].items = blocks[n].items
    BY <1>1, <2>1, SetCcu
  <2>4. DOMAIN blocks' = DOMAIN blocks
    BY <2>1
  <2> QED
    BY <2>2, <2>3, <2>4, HeldAsBefore DEF Spread, Left
<1>7. (\E id \in Identities : addChildBridge(id)) => Spread(i)
  BY <1>2
<1>8. (\E id \in Identities, n \in DOMAIN blocks : regenerateBridgeIdentity(n, id)) => Spread(i)
  BY <1>3
<1>9. (\E h \in Hosts : propagate(h)) => Spread(i)
  BY <1>6
<1> QED
  BY <1>4, <1>5, <1>7, <1>8, <1>9

LEMMA ImportSpread ==
  ASSUME Held, NEW i \in Items, NEW c \in calls, MergeLands(c) \/ SplitLands(c)
  PROVE  Spread(i)
<1> DEFINE k == c.backup
<1>1. GoodBlocks(blocks) /\ k \in Backups /\ edits \in Nat
  BY MergeFate, SplitFate DEF Held
<1>2. CASE MergeLands(c)
  <2> DEFINE merged == [FilledIn(blocks, k) EXCEPT ![1].items = Over(ReportedItems(k), @)]
  <2>1. blocks' = merged
    BY <1>2 DEF MergeLands
  <2>2. Holders(merged, i) \in {Holders(blocks, i), Holders(blocks, i) \cup {1}}
    BY <1>1, HeldAfterMerge
  <2>3. MergeOf(k)
    BY <1>1, <1>2, EditCounts DEF MergeLands, MergeOf, Landed, Ended
  <2>4. ~Left(i)
    <3>1. form' = form \/ form' = Redrawn(blocks', form)
      BY <1>2 DEF MergeLands, rerender, screen_vars
    <3>2. IsEditor(form) => form' = form \/ form' = Editor(blocks', form.item, form.mode)
      BY <3>1 DEF Redrawn
    <3>3. IsEditor(form) => Editor(blocks', form.item, form.mode).kind # "none"
      BY KindsAssumption DEF Held, Opened, Editor
    <3> QED
      BY <3>2, <3>3 DEF Left, NoForm
  <2> HIDE DEF merged, k
  <2> QED
    BY <1>1, <2>1, <2>2, <2>3, <2>4 DEF Spread
<1>3. CASE SplitLands(c)
  <2>1. blocks' = Replaced(blocks, k)
    BY <1>3 DEF SplitLands
  <2> HIDE DEF k
  <2> QED
    BY <1>1, <2>1, HeldAfterSplit DEF Spread
<1> QED
  BY <1>2, <1>3

\* No step puts an accessory on a second bridge, but for a merge over one that a
\* child bridge has, and what is saved or removed is on one bridge at most.
THEOREM OneBridgeAtATime == Spec => OneBridgeEach
<1> DEFINE Fits(i) ==
      LET before == Cardinality(Holders(blocks, i))
          after == Cardinality(Holders(blocks', i))
      IN  after > 1 /\ page' = page =>
            \/ after = before /\ ~(form # NoForm /\ form' = NoForm /\ edits' # edits
                                    /\ IsEditor(form) /\ form.item = i)
            \/ after < before /\ form.kind = "remove"
            \/ after = before + 1 /\ \E k \in Backups : MergeOf(k)
<1>1. ASSUME Sound, [Next]_vars, NEW i \in Items
      PROVE  Fits(i)
  <2>1. Held /\ Placed /\ GoodBlocks(blocks)
    BY <1>1 DEF Sound, Held
  <2>2. page' # page \/ Spread(i)
    <3>1. CASE Rewrites
      BY <2>1, <3>1, ItemSpread, BridgeSpread, ImportSpread DEF Rewrites
    <3>2. CASE ConfigArrives \/ ClosePage
      BY <3>2 DEF ConfigArrives, ClosePage
    <3>3. CASE UNCHANGED <<blocks, edits>>
      BY <3>3 DEF Spread, Left
    <3> QED
      BY <1>1, <3>1, <3>2, <3>3, Rewriting
  <2> DEFINE H == Holders(blocks, i)
             P == Holders(blocks', i)
  <2>3. IsFiniteSet(H) /\ Cardinality(H) \in Nat
    BY <2>1, HeldFinitely
  <2>4. CASE P = {} \/ \E n : P = {n}
    <3>1. Cardinality(P) \in {0, 1}
      BY <2>4, FS_EmptySet, FS_Singleton
    <3> QED
      BY <3>1
  <2>5. CASE P = H /\ ~Left(i)
    BY <2>5 DEF Left
  <2>6. CASE form.kind = "remove" /\ Cardinality(P) \in {Cardinality(H), Cardinality(H) - 1}
    <3>1. ~IsEditor(form)
      BY <2>6 DEF IsEditor
    <3> QED
      BY <2>3, <2>6, <3>1
  <2>7. CASE (\E k \in Backups : MergeOf(k)) /\ P \in {H, H \cup {1}} /\ ~Left(i)
    <3>1. Cardinality(P) \in {Cardinality(H), Cardinality(H) + 1}
      BY <2>3, <2>7, FS_AddElement
    <3> QED
      BY <2>7, <3>1 DEF Left
  <2> HIDE DEF Fits
  <2> QED
    BY <2>2, <2>4, <2>5, <2>6, <2>7 DEF Spread, Fits
<1>2. Sound /\ [Next]_vars => [\A i \in Items : Fits(i)]_vars
  BY <1>1
<1> QED
  BY <1>2, SoundInvariant, PTL DEF Spec, OneBridgeEach
=============================================================================
