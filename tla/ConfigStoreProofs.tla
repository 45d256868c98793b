-------------------------- MODULE ConfigStoreProofs --------------------------
(***************************************************************************)
(* The settings survive, for any configurations, any number of channels,   *)
(* sessions, crashes and changes.  What the properties say of a program    *)
(* that runs and of one that does not is inductive together with what the  *)
(* file may hold on the way: absent until the first save opens it, torn    *)
(* while it is open, and until then with the entries that were set.        *)
(***************************************************************************)
EXTENDS WaveTable, TLAPS

(* The file still has the entries, or there is none yet.                   *)
Kept == file.is = "absent" \/ (Whole /\ file.has.entries = wanted.entries)

StoreInv ==
  /\ phase \in {"off", "creating", "starting", "running", "leaving", "saving"}
  /\ alive \in BOOLEAN /\ open \in BOOLEAN
  /\ alive => phase \in {"running", "leaving"}
  /\ doc = Absent \/ (doc = FileOf(config) /\ phase \in {"creating", "saving"})
  /\ open => doc # Absent /\ file.is = "torn"
  /\ wanted.known /\ phase = "creating" /\ ~open => file.is = "absent"
  /\ wanted.known /\ phase = "off" => Kept
  /\ wanted.known /\ phase # "off" => config.entries = wanted.entries
  /\ SavedIsLast

(* The constructors of files and of what is wanted.                        *)
LEMMA Constructed ==
  /\ \A c : FileOf(c).is = "whole" /\ FileOf(c).has = c /\ FileOf(c) # Absent
  /\ Absent.is = "absent" /\ Torn.is = "torn"
  /\ \A e : Wanted(e).known = TRUE /\ Wanted(e).entries = e
  /\ Lost.known = FALSE
BY DEF FileOf, Absent, Torn, Wanted, Lost

LEMMA StoreInitially == StoreInit => StoreInv
<1> SUFFICES ASSUME StoreInit PROVE StoreInv
  OBVIOUS
<1>1. file.is = "absent" /\ phase = "off" /\ ended = "edited"
      /\ alive = FALSE /\ doc = Absent /\ open = FALSE
  BY Constructed DEF StoreInit
<1> QED
  BY <1>1 DEF StoreInv, SavedIsLast, Kept

LEMMA StoreStep == StoreInv /\ StoreNext => StoreInv'
<1> SUFFICES ASSUME StoreInv, StoreNext PROVE StoreInv'
  OBVIOUS
<1> USE DEF StoreInv, SavedIsLast, Kept, Whole, fileVars
<1>1. CASE Create
  BY <1>1, Constructed DEF Create
<1>2. CASE Load
  <2>1. /\ phase = "off" /\ file.is = "whole" /\ ~alive /\ ~open /\ doc = Absent
        /\ UNCHANGED <<file, doc, open, alive, wanted>>
        /\ phase' = "starting" /\ ended' = "" /\ config' = file.has
    BY <1>2 DEF Load
  <2>2. wanted.known => file.has.entries = wanted.entries
    BY <2>1
  <2> QED
    BY <2>1, <2>2
<1>3. CASE LoadNothing
  BY <1>3, Constructed DEF LoadNothing
<1>4. CASE Use
  BY <1>4 DEF Use
<1>5. CASE Exit
  BY <1>5 DEF Exit
<1>6. CASE Joined
  BY <1>6 DEF Joined
<1>7. CASE OpenForWriting
  <2>1. CASE file' = Torn /\ open' = TRUE
             /\ UNCHANGED <<phase, doc, wanted, ended>>
    BY <1>7, <2>1, Constructed DEF OpenForWriting
  <2>2. CASE /\ phase' = Behind /\ doc' = Absent /\ UNCHANGED <<file, open>>
             /\ wanted' = IF phase = "saving" /\ Unsaved THEN Lost ELSE wanted
             /\ ended' = IF phase = "saving" THEN "unsaved" ELSE ended
    BY <1>7, <2>2, Constructed DEF OpenForWriting, Behind, Unsaved
  <2> QED
    BY <1>7, <2>1, <2>2 DEF OpenForWriting
<1>8. CASE WriteOut
  <2>1. doc = FileOf(config) /\ phase \in {"creating", "saving"} /\ ~alive
    BY <1>8 DEF WriteOut
  <2>2. CASE /\ file' = doc
             /\ wanted' = IF phase = "saving" THEN Wanted(config.entries)
                                              ELSE wanted
             /\ ended' = IF phase = "saving" THEN "saved" ELSE ended
    <3>1. /\ open' = FALSE /\ doc' = Absent /\ alive' = alive
          /\ config' = config
          /\ \/ phase = "creating" /\ phase' = "starting"
             \/ phase = "saving" /\ phase' = "off"
      BY <1>8, <2>1 DEF WriteOut, Behind
    <3>2. file'.is = "whole" /\ file'.has = config
      BY <2>1, <2>2, Constructed
    <3>3. /\ wanted' = wanted \/ wanted'.entries = config.entries
          /\ phase = "creating" => wanted' = wanted
      BY <2>2, Constructed
    <3> QED
      BY <2>1, <3>1, <3>2, <3>3
  <2>3. CASE /\ wanted' = IF phase = "saving" THEN Lost ELSE wanted
             /\ ended' = IF phase = "saving" THEN "unsaved" ELSE ended
             /\ UNCHANGED file
    BY <1>8, <2>1, <2>3, Constructed DEF WriteOut, Behind
  <2> QED
    BY <1>8, <2>2, <2>3 DEF WriteOut
<1>9. CASE Crash
  BY <1>9, Constructed DEF Crash, Unsaved
<1>10. CASE DeleteFile
  BY <1>10, Constructed DEF DeleteFile
<1>11. ASSUME NEW h \in Heads, ChangeHead(h)
       PROVE  StoreInv'
  BY <1>11 DEF ChangeHead
<1>12. ASSUME NEW c \in Edits[program], EditFile(c)
       PROVE  StoreInv'
  BY <1>12, Constructed DEF EditFile
<1>13. CASE Compose
  BY <1>13 DEF Compose
<1> QED
  BY <1>13, <1>1, <1>2, <1>3, <1>4, <1>5, <1>6, <1>7, <1>8, <1>9, <1>10, <1>11, <1>12
  DEF StoreNext

(* The user's controls change what is in use and what is wanted together.  *)
LEMMA WavesStep ==
  ASSUME StoreInv, Used, NEW waves, SetWaves(waves)
  PROVE  StoreInv'
BY Constructed DEF Used, SetWaves, StoreInv, SavedIsLast, Kept, Whole, fileVars

LEMMA TableStep == StoreInv /\ TableNext => StoreInv'
<1> SUFFICES ASSUME StoreInv, TableNext PROVE StoreInv'
  OBVIOUS
<1>1. CASE UNCHANGED storeVars
  BY <1>1 DEF storeVars, fileVars, StoreInv, SavedIsLast, Kept, Whole
<1>2. ASSUME Change, NEW waves, SetWaves(waves)
      PROVE  StoreInv'
  BY <1>2, WavesStep DEF Change
<1>3. CASE OpenWindow
  <2>1. PICK waves : /\ config' = [head |-> config.head, entries |-> waves]
                     /\ wanted' = IF wanted.known THEN Wanted(waves) ELSE Lost
    BY <1>3 DEF OpenWindow
  <2> QED
    BY <1>3, <2>1, Constructed
    DEF OpenWindow, StoreInv, SavedIsLast, Kept, Whole, fileVars
<1>4. CASE ToggleLock
  BY <1>1, <1>4 DEF ToggleLock
<1>5. CASE ClickAll
  BY <1>2, <1>5 DEF ClickAll
<1>6. ASSUME NEW r \in Rows, ClickCell(r) PROVE StoreInv'
  BY <1>2, <1>6 DEF ClickCell
<1>7. ASSUME NEW r \in Rows, ToggleChannel(r) PROVE StoreInv'
  BY <1>2, <1>7 DEF ToggleChannel
<1>8. ASSUME NEW x \in Freqs, FinishFreq(x) PROVE StoreInv'
  BY <1>1, <1>2, <1>8 DEF FinishFreq
<1>9. ASSUME NEW rate \in Rates, ChooseRate(rate) PROVE StoreInv'
  BY <1>2, <1>9 DEF ChooseRate
<1>10. ASSUME NEW type \in Types, ChooseType(type) PROVE StoreInv'
  BY <1>2, <1>10 DEF ChooseType
<1> QED
  BY <1>3, <1>4, <1>5, <1>6, <1>7, <1>8, <1>9, <1>10 DEF TableNext

(* The inductive invariant, of both programs.                              *)
THEOREM StoreInvariant == Spec => []StoreInv
<1>1. Init => StoreInv
  BY StoreInitially DEF Init
<1>2. StoreInv /\ [Next]_vars => StoreInv'
  <2>1. CASE UNCHANGED vars
    BY <2>1 DEF vars, storeVars, fileVars, StoreInv, SavedIsLast, Kept, Whole
  <2> QED
    BY <2>1, StoreStep, TableStep DEF Next, Store
<1> QED
  BY <1>1, <1>2, PTL DEF Spec

(* Settings survive: what is in use and in the file is what was set last,  *)
(* unless something happened that loses it.                                *)
THEOREM SettingsSurvive == Spec => []SettingsKept
<1>1. StoreInv => SettingsKept
  BY DEF StoreInv, Kept, SettingsKept
<1> QED
  BY <1>1, StoreInvariant, PTL

(* No status package comes behind the save.                                *)
THEOREM SaveComesLast == Spec => []SavedIsLast
<1>1. StoreInv => SavedIsLast
  BY DEF StoreInv
<1> QED
  BY <1>1, StoreInvariant, PTL

-----------------------------------------------------------------------------
(* The transmitter's window.  Every configuration it can meet is well made,*)
(* and while it is open the controls show the selected row.                *)
IsBox(b) == b = [freq |-> b.freq, rate |-> b.rate, type |-> b.type]

FilesMade == \A f \in {file, doc} : f.is = "whole" => WellMade(f.has)

TableInv ==
  /\ program = "modem" => WellMade(config) /\ FilesMade
  /\ row \in Rows /\ IsBox(box)
  /\ ControlsShowTheRow

(* Writing to one of the controls.                                         *)
LEMMA BoxChanged ==
  ASSUME NEW b, IsBox(b), NEW v
  PROVE  /\ LET n == [b EXCEPT !.freq = v]
            IN  IsBox(n) /\ n.rate = b.rate /\ n.type = b.type
         /\ LET n == [b EXCEPT !.rate = v]
            IN  IsBox(n) /\ n.rate = v /\ n.type = b.type
         /\ LET n == [b EXCEPT !.type = v]
            IN  IsBox(n) /\ n.rate = b.rate /\ n.type = v
<1> DEFINE f == b.freq
           r == b.rate
           t == b.type
<1>1. b = [freq |-> f, rate |-> r, type |-> t]
  BY DEF IsBox
<1>2. /\ [b EXCEPT !.freq = v] = [freq |-> v, rate |-> r, type |-> t]
      /\ [b EXCEPT !.rate = v] = [freq |-> f, rate |-> v, type |-> t]
      /\ [b EXCEPT !.type = v] = [freq |-> f, rate |-> r, type |-> v]
  <2> HIDE DEF f, r, t
  <2> QED
    BY <1>1
<1> QED
  BY <1>2 DEF IsBox

(* The grid has a frequency that is nearest.                               *)
LEMMA Nearest ==
  ASSUME NEW x \in Freqs, NEW locked
  PROVE  Snapped(x, locked) \in Freqs
BY TableAssumption DEF Snapped

LEMMA Kept1Hz == ASSUME NEW x \in Freqs PROVE Hz(x) \in Int
BY TableAssumption DEF Hz

(* What a change of the waves by a control makes of a configuration.       *)
LEMMA Made ==
  ASSUME NEW h, NEW waves \in Seq(Wave), Agree(waves)
  PROVE  WellMade([head |-> h, entries |-> waves])
BY DEF WellMade

LEMMA NeededIs == Needed["modem"] \in Nat \ {0} /\ 1 \in Rows
BY FileAssumption DEF Rows

(* The waves of an open window.                                            *)
LEMMA OpenWaves ==
  ASSUME TableInv, program = "modem", Usable
  PROVE  /\ config = [head |-> config.head, entries |-> config.entries]
         /\ config.entries \in Seq(Wave) /\ Agree(config.entries)
         /\ Len(config.entries) \in Nat
         /\ Rows \subseteq 1 .. Len(config.entries)
         /\ \A c \in Rows : config.entries[c] \in Wave
<1>1. WellMade(config) /\ Len(config.entries) >= Needed["modem"]
  BY DEF TableInv, Usable
<1>2. /\ config.entries \in Seq(Wave) /\ Agree(config.entries)
      /\ config = [head |-> config.head, entries |-> config.entries]
  BY <1>1 DEF WellMade
<1>3. Len(config.entries) \in Nat /\ Rows \subseteq 1 .. Len(config.entries)
  BY <1>1, <1>2, NeededIs DEF Rows
<1> QED
  BY <1>2, <1>3

(* With one rate among the channels, the slot of the rate changes none.    *)
LEMMA SameRate ==
  ASSUME NEW waves \in Seq(Wave), NEW rate \in Rates, NEW shown
  PROVE  /\ WithRate(waves, shown, rate) \in Seq(Wave)
         /\ Len(WithRate(waves, shown, rate)) = Len(waves)
         /\ \A c \in 1 .. Len(waves) :
              WithRate(waves, shown, rate)[c]
                = IF rate = shown THEN waves[c]
                                  ELSE [waves[c] EXCEPT !.rate = rate]
<1>1. CASE rate = shown
  BY <1>1 DEF WithRate
<1>2. CASE rate # shown
  <2> DEFINE u == [c \in DOMAIN waves |-> [waves[c] EXCEPT !.rate = rate]]
  <2>1. WithRate(waves, shown, rate) = u
    BY <1>2 DEF WithRate
  <2>2. DOMAIN waves = 1 .. Len(waves) /\ Len(waves) \in Nat
        /\ \A c \in 1 .. Len(waves) : waves[c] \in Wave
    OBVIOUS
  <2>3. \A c \in 1 .. Len(waves) : [waves[c] EXCEPT !.rate = rate] \in Wave
    BY <2>2 DEF Wave
  <2>4. u \in Seq(Wave) /\ Len(u) = Len(waves)
    BY <2>2, <2>3
  <2> QED
    BY <1>2, <2>1, <2>2, <2>4
<1> QED
  BY <1>1, <1>2

(* A window that is open behind a step of the store was open before, over  *)
(* the same waves.                                                         *)
LEMMA OpenRemains ==
  ASSUME Store, Used'
  PROVE  Used /\ config'.entries = config.entries /\ row' = row
<1>1. /\ StoreNext /\ row' = row
      /\ ~(phase = "starting" /\ phase' = "running" /\ program = "modem" /\ Usable)
  BY DEF Store, tableVars
<1>2. program' = program
  BY <1>1 DEF StoreNext, Create, Load, LoadNothing, Use, Exit, Joined, Compose,
              OpenForWriting, WriteOut, Crash, DeleteFile, ChangeHead, EditFile
<1>3. phase' = "running" /\ program = "modem" /\ Usable'
  BY <1>2 DEF Used
<1>4. config'.entries = config.entries /\ phase = "running"
  BY <1>1, <1>3
  DEF StoreNext, Create, Load, LoadNothing, Use, Exit, Joined, Compose,
      OpenForWriting, WriteOut, Crash, DeleteFile, ChangeHead, EditFile,
      Behind, Usable
<1> QED
  BY <1>1, <1>2, <1>3, <1>4 DEF Used, Usable

(* The object and the file by themselves: what was well made stays so, and *)
(* no window opens.                                                        *)
LEMMA StoreKeepsTable == TableInv /\ Store => TableInv'
<1> SUFFICES ASSUME TableInv, Store PROVE TableInv'
  OBVIOUS
<1> DEFINE Made1 == program = "modem" => WellMade(config)
           Made2 == program = "modem" => FilesMade
<1>1. /\ StoreNext /\ UNCHANGED <<row, box, lock, all>>
      /\ ~(phase = "starting" /\ phase' = "running" /\ program = "modem" /\ Usable)
      /\ Made1 /\ Made2 /\ row \in Rows /\ ControlsShowTheRow
  BY DEF Store, tableVars, TableInv
<1>2. program' = program
  BY <1>1 DEF StoreNext, Create, Load, LoadNothing, Use, Exit, Joined, Compose,
              OpenForWriting, WriteOut, Crash, DeleteFile, ChangeHead, EditFile
<1>3. program = "modem" =>
        /\ WellMade(Default[program]) /\ WellMade(Blank[program])
        /\ \A c \in Edits[program] : WellMade(c)
  BY FileAssumption
<1>4. \A h : Made1 /\ program = "modem" =>
        WellMade([head |-> h, entries |-> config.entries])
  BY DEF WellMade
<1>5. Made1'
  <2>1. \/ config' \in {config, Default[program], Blank[program]}
        \/ Whole /\ config' = file.has
        \/ \E h : config' = [head |-> h, entries |-> config.entries]
    BY <1>1 DEF StoreNext, Create, Load, LoadNothing, Use, Exit, Joined, Compose,
                OpenForWriting, WriteOut, Crash, DeleteFile, ChangeHead, EditFile
  <2> QED
    BY <1>1, <1>2, <1>3, <1>4, <2>1 DEF FilesMade, Whole
<1>6. Made2'
  <2>1. /\ \/ file' \in {file, Absent, Torn, doc}
           \/ \E c \in Edits[program] : file' = FileOf(c)
        /\ doc' \in {doc, Absent, FileOf(config)}
    BY <1>1 DEF StoreNext, Create, Load, LoadNothing, Use, Exit, Joined, Compose,
                OpenForWriting, WriteOut, Crash, DeleteFile, ChangeHead, EditFile,
                fileVars
  <2> QED
    BY <1>1, <1>2, <1>3, <2>1, Constructed DEF FilesMade
<1>7. ControlsShowTheRow'
  BY <1>1, <1>2, OpenRemains DEF ControlsShowTheRow, AllOn, Store
<1> QED
  BY <1>1, <1>5, <1>6, <1>7 DEF TableInv

(* A control that leaves the window and the waves well made.               *)
LEMMA SetKeeps ==
  ASSUME TableInv, Used, NEW waves \in Seq(Wave), SetWaves(waves), Agree(waves),
         row' \in Rows, IsBox(box'), box'.rate = waves[row'].rate,
         box'.type = waves[row'].type, all' = AllOn(waves)
  PROVE  TableInv'
<1>1. /\ config' = [head |-> config.head, entries |-> waves]
      /\ program' = program /\ file' = file /\ doc' = doc
  BY DEF SetWaves, fileVars
<1>2. config'.entries = waves
  BY <1>1
<1>3. ControlsShowTheRow'
  BY <1>2 DEF ControlsShowTheRow
<1>4. WellMade(config')
  BY <1>1, Made
<1> QED
  BY <1>1, <1>3, <1>4 DEF TableInv, FilesMade

(* No row's frequency and type change but the selected one's.              *)
OthersKept ==
  \A c \in Rows \ {row} :
    /\ config'.entries[c].freq = config.entries[c].freq
    /\ config'.entries[c].type = config.entries[c].type

LEMMA OthersKeptBySet ==
  ASSUME NEW waves, SetWaves(waves),
         \A c \in Rows \ {row} : /\ waves[c].freq = config.entries[c].freq
                                 /\ waves[c].type = config.entries[c].type
  PROVE  OthersKept
<1>1. config'.entries = waves
  BY DEF SetWaves
<1> QED
  BY <1>1 DEF OthersKept

(* Selecting a row of an open window: every wave stays what it is.         *)
LEMMA Selected ==
  ASSUME TableInv, Used, NEW r \in Rows
  PROVE  LET s == SelectRow(config.entries, box, row, r, lock)
         IN  /\ s.waves = config.entries /\ IsBox(s.box)
             /\ s.box.rate = config.entries[r].rate
             /\ s.box.type = config.entries[r].type
<1>1. /\ Agree(config.entries) /\ row \in Rows
      /\ box.rate = config.entries[row].rate
  BY OpenWaves DEF Used, TableInv, ControlsShowTheRow
<1>2. config.entries[r].rate = box.rate
  BY <1>1 DEF Agree
<1> QED
  BY <1>2 DEF SelectRow, WithRate, IsBox

LEMMA ClickCellKeeps ==
  ASSUME TableInv, NEW r \in Rows, ClickCell(r)
  PROVE  TableInv' /\ config' = config
<1>1. Used /\ row' = r /\ all' = all
  BY DEF ClickCell, Change
<1> DEFINE s == SelectRow(config.entries, box, row, r, lock)
<1>2. SetWaves(s.waves) /\ box' = s.box
  BY DEF ClickCell
<1>3. /\ s.waves = config.entries /\ IsBox(s.box)
      /\ s.box.rate = config.entries[r].rate /\ s.box.type = config.entries[r].type
  BY <1>1, Selected
<1>4. /\ config = [head |-> config.head, entries |-> config.entries]
      /\ config.entries \in Seq(Wave) /\ Agree(config.entries)
  BY <1>1, OpenWaves DEF Used
<1>5. all = AllOn(config.entries)
  BY <1>1 DEF TableInv, ControlsShowTheRow
<1> HIDE DEF s
<1>6. TableInv'
  BY <1>1, <1>2, <1>3, <1>4, <1>5, SetKeeps
<1>7. config' = config
  BY <1>2, <1>3, <1>4 DEF SetWaves
<1> QED
  BY <1>6, <1>7

LEMMA OpenWindowKeeps == TableInv /\ OpenWindow => TableInv'
<1> SUFFICES ASSUME TableInv, OpenWindow PROVE TableInv'
  OBVIOUS
<1> DEFINE waves == config.entries
           s == SelectRow(waves, FirstBox, 1, 1, TRUE)
<1>1. /\ program = "modem" /\ Usable
      /\ config' = [head |-> config.head, entries |-> s.waves]
      /\ box' = s.box /\ row' = 1 /\ all' = AllOn(waves)
      /\ program' = program /\ file' = file /\ doc' = doc
  BY DEF OpenWindow, fileVars
<1>2. /\ waves \in Seq(Wave) /\ Agree(waves)
      /\ Rows \subseteq 1 .. Len(waves) /\ 1 \in Rows
      /\ \A c \in Rows : waves[c] \in Wave
  BY <1>1, OpenWaves, NeededIs
<1> DEFINE rate == waves[1].rate
           u == WithRate(waves, FirstBox.rate, rate)
<1>3. /\ s.waves = u /\ IsBox(s.box)
      /\ s.box.rate = rate /\ s.box.type = waves[1].type
  BY DEF SelectRow, IsBox
<1>4. rate \in Rates
  BY <1>2 DEF Wave
<1>5. /\ u \in Seq(Wave) /\ Len(u) = Len(waves)
      /\ \A c \in 1 .. Len(waves) :
           u[c] = IF rate = FirstBox.rate THEN waves[c]
                                          ELSE [waves[c] EXCEPT !.rate = rate]
  <2> HIDE DEF rate
  <2> QED
    BY <1>2, <1>4, SameRate
<1>6. \A c \in Rows : /\ u[c].freq = waves[c].freq /\ u[c].rate = rate
                      /\ u[c].type = waves[c].type /\ u[c].on = waves[c].on
  <2> SUFFICES ASSUME NEW c \in Rows
               PROVE  /\ u[c].freq = waves[c].freq /\ u[c].rate = rate
                      /\ u[c].type = waves[c].type /\ u[c].on = waves[c].on
    OBVIOUS
  <2>1. waves[c].rate = rate /\ waves[c] \in Wave
    BY <1>2 DEF Agree
  <2>2. CASE u[c] = waves[c]
    BY <2>1, <2>2
  <2>3. CASE u[c] = [waves[c] EXCEPT !.rate = rate]
    <3> HIDE DEF u, rate, waves
    <3> QED
      BY <2>1, <2>3 DEF Wave
  <2>4. \/ u[c] = waves[c]
        \/ u[c] = [waves[c] EXCEPT !.rate = rate]
    <3> HIDE DEF u, rate, waves
    <3> QED
      BY <1>2, <1>5
  <2> QED
    BY <2>2, <2>3, <2>4
<1>7. Agree(u) /\ AllOn(u) = AllOn(waves)
  BY <1>2, <1>6 DEF Agree, AllOn
<1> HIDE DEF s, u, waves
<1>8. config'.entries = u /\ WellMade(config')
  BY <1>1, <1>3, <1>5, <1>7, Made
<1>9. ControlsShowTheRow'
  BY <1>1, <1>2, <1>3, <1>6, <1>7, <1>8 DEF ControlsShowTheRow
<1> QED
  BY <1>1, <1>2, <1>3, <1>8, <1>9 DEF TableInv, FilesMade, waves

LEMMA FinishFreqKeeps == ASSUME TableInv, NEW x \in Freqs, FinishFreq(x)
                         PROVE  TableInv' /\ OthersKept
<1> DEFINE waves == config.entries
           hz == Hz(Snapped(x, lock))
<1>1. /\ Used /\ row' = row /\ all' = all /\ row \in Rows /\ IsBox(box)
      /\ box.rate = waves[row].rate /\ box.type = waves[row].type
      /\ all = AllOn(waves)
  BY DEF FinishFreq, Change, TableInv, ControlsShowTheRow
<1>2. /\ waves \in Seq(Wave) /\ Agree(waves) /\ Rows \subseteq 1 .. Len(waves)
      /\ \A c \in Rows : waves[c] \in Wave
  BY <1>1, OpenWaves DEF Used
<1>3. hz \in Int
  BY Nearest, Kept1Hz
<1>4. ASSUME UNCHANGED storeVars, NEW f, box' = [box EXCEPT !.freq = f]
      PROVE  TableInv' /\ OthersKept
  <2>1. /\ program' = program /\ config' = config /\ file' = file /\ doc' = doc
        /\ phase' = phase
    BY <1>4 DEF storeVars, fileVars
  <2>2. IsBox(box') /\ box'.rate = box.rate /\ box'.type = box.type
    BY <1>1, <1>4, BoxChanged
  <2> QED
    BY <1>1, <2>1, <2>2
    DEF TableInv, ControlsShowTheRow, Used, Usable, FilesMade, AllOn, OthersKept
<1>5. ASSUME \A c \in Rows \ {row} : waves[c].freq # hz,
             SetWaves([waves EXCEPT ![row].freq = hz]),
             NEW f, box' = [box EXCEPT !.freq = f]
      PROVE  TableInv' /\ OthersKept
  <2> DEFINE u == [waves EXCEPT ![row].freq = hz]
  <2>1. /\ u \in Seq(Wave)
        /\ \A c \in Rows : u[c] = IF c = row THEN [waves[c] EXCEPT !.freq = hz]
                                             ELSE waves[c]
    <3>1. [waves[row] EXCEPT !.freq = hz] \in Wave /\ row \in 1 .. Len(waves)
      BY <1>1, <1>2, <1>3 DEF Wave
    <3> QED
      BY <1>1, <1>2, <3>1
  <2>2. \A c \in Rows : /\ u[c].rate = waves[c].rate /\ u[c].on = waves[c].on
                        /\ u[c].type = waves[c].type
                        /\ u[c].freq = IF c = row THEN hz ELSE waves[c].freq
    BY <1>2, <2>1 DEF Wave
  <2>3. Agree(u) /\ AllOn(u) = AllOn(waves)
    BY <1>2, <1>5, <2>2 DEF Agree, AllOn
  <2>4. IsBox(box') /\ box'.rate = u[row].rate /\ box'.type = u[row].type
    <3>1. IsBox(box') /\ box'.rate = box.rate /\ box'.type = box.type
      BY <1>1, <1>5, BoxChanged
    <3> QED
      BY <1>1, <2>2, <3>1
  <2>5. OthersKept
    BY <1>5, <2>2, OthersKeptBySet
  <2> HIDE DEF u
  <2> QED
    BY <1>1, <1>5, <2>1, <2>3, <2>4, <2>5, SetKeeps DEF u
<1> QED
  BY <1>4, <1>5 DEF FinishFreq

LEMMA ToggleLockKeeps == TableInv /\ ToggleLock => TableInv' /\ OthersKept
<1> SUFFICES ASSUME TableInv, ToggleLock PROVE TableInv' /\ OthersKept
  OBVIOUS
<1>1. /\ program' = program /\ config' = config /\ file' = file /\ doc' = doc
      /\ phase' = phase /\ row' = row /\ all' = all
  BY DEF ToggleLock, storeVars, fileVars
<1>2. IsBox(box') /\ box'.rate = box.rate /\ box'.type = box.type
  <2>1. box' = [box EXCEPT !.freq = Snapped(box.freq, ~lock)]
    BY DEF ToggleLock
  <2> QED
    BY <2>1, BoxChanged DEF TableInv
<1> QED
  BY <1>1, <1>2
  DEF TableInv, ControlsShowTheRow, Used, Usable, FilesMade, AllOn, OthersKept

LEMMA ChooseRateKeeps == ASSUME TableInv, NEW rate \in Rates, ChooseRate(rate)
                         PROVE  TableInv' /\ OthersKept
<1> DEFINE waves == config.entries
           u == WithRate(waves, box.rate, rate)
<1>1. /\ Used /\ row' = row /\ all' = all /\ row \in Rows /\ IsBox(box)
      /\ rate # box.rate
      /\ SetWaves(u) /\ box' = [box EXCEPT !.rate = rate]
      /\ box.rate = waves[row].rate /\ box.type = waves[row].type
      /\ all = AllOn(waves)
  BY DEF ChooseRate, Change, TableInv, ControlsShowTheRow
<1>2. /\ waves \in Seq(Wave) /\ Agree(waves) /\ Rows \subseteq 1 .. Len(waves)
      /\ \A c \in Rows : waves[c] \in Wave
  BY <1>1, OpenWaves DEF Used
<1>3. /\ u \in Seq(Wave)
      /\ \A c \in 1 .. Len(waves) : u[c] = [waves[c] EXCEPT !.rate = rate]
  BY <1>1, <1>2, SameRate
<1>4. \A c \in Rows : /\ u[c].rate = rate /\ u[c].on = waves[c].on
                      /\ u[c].type = waves[c].type /\ u[c].freq = waves[c].freq
  BY <1>2, <1>3 DEF Wave
<1>5. Agree(u) /\ AllOn(u) = AllOn(waves)
  BY <1>2, <1>4 DEF Agree, AllOn
<1>6. IsBox(box') /\ box'.rate = u[row].rate /\ box'.type = u[row].type
  <2>1. IsBox(box') /\ box'.rate = rate /\ box'.type = box.type
    BY <1>1, BoxChanged
  <2> QED
    BY <1>1, <1>4, <2>1
<1>7. OthersKept
  BY <1>1, <1>4, OthersKeptBySet
<1> HIDE DEF u
<1> QED
  BY <1>1, <1>3, <1>5, <1>6, <1>7, SetKeeps

LEMMA ChooseTypeKeeps == ASSUME TableInv, NEW type \in Types, ChooseType(type)
                         PROVE  TableInv' /\ OthersKept
<1> DEFINE waves == config.entries
           u == [waves EXCEPT ![row].type = type]
<1>1. /\ Used /\ row' = row /\ all' = all /\ row \in Rows /\ IsBox(box)
      /\ SetWaves(u) /\ box' = [box EXCEPT !.type = type]
      /\ box.rate = waves[row].rate /\ all = AllOn(waves)
  BY DEF ChooseType, Change, TableInv, ControlsShowTheRow
<1>2. /\ waves \in Seq(Wave) /\ Agree(waves) /\ Rows \subseteq 1 .. Len(waves)
      /\ \A c \in Rows : waves[c] \in Wave
  BY <1>1, OpenWaves DEF Used
<1>3. /\ u \in Seq(Wave)
      /\ \A c \in Rows : u[c] = IF c = row THEN [waves[c] EXCEPT !.type = type]
                                           ELSE waves[c]
  <2>1. [waves[row] EXCEPT !.type = type] \in Wave /\ row \in 1 .. Len(waves)
    BY <1>1, <1>2 DEF Wave
  <2> QED
    BY <1>1, <1>2, <2>1, SMTT(30)
<1>4. \A c \in Rows : /\ u[c].rate = waves[c].rate /\ u[c].on = waves[c].on
                      /\ u[c].type = IF c = row THEN type ELSE waves[c].type
                      /\ u[c].freq = waves[c].freq
  BY <1>2, <1>3 DEF Wave
<1>5. Agree(u) /\ AllOn(u) = AllOn(waves)
  BY <1>2, <1>4 DEF Agree, AllOn
<1>6. IsBox(box') /\ box'.rate = u[row].rate /\ box'.type = u[row].type
  <2>1. IsBox(box') /\ box'.rate = box.rate /\ box'.type = type
    BY <1>1, BoxChanged
  <2> QED
    BY <1>1, <1>4, <2>1
<1>7. OthersKept
  BY <1>1, <1>4, OthersKeptBySet
<1> HIDE DEF u
<1> QED
  BY <1>1, <1>3, <1>5, <1>6, <1>7, SetKeeps

(* The box of one channel, and which entries it leaves alone.              *)
LEMMA ToggleChannelKeeps ==
  ASSUME TableInv, NEW c \in Rows, ToggleChannel(c)
  PROVE  /\ TableInv'
         /\ \A d \in Rows \ {c} : config'.entries[d] = config.entries[d]
         /\ OthersKept
<1> DEFINE waves == config.entries
           u == [waves EXCEPT ![c].on = ~@]
<1>1. /\ Used /\ row' = row /\ box' = box /\ row \in Rows /\ IsBox(box)
      /\ SetWaves(u) /\ all' = AllOn(u)
      /\ box.rate = waves[row].rate /\ box.type = waves[row].type
  BY DEF ToggleChannel, Change, TableInv, ControlsShowTheRow
<1>2. /\ waves \in Seq(Wave) /\ Agree(waves) /\ Rows \subseteq 1 .. Len(waves)
      /\ \A d \in Rows : waves[d] \in Wave
  BY <1>1, OpenWaves DEF Used
<1>3. /\ u \in Seq(Wave)
      /\ \A d \in Rows : u[d] = IF d = c THEN [waves[d] EXCEPT !.on = ~@]
                                         ELSE waves[d]
  <2>1. [waves[c] EXCEPT !.on = ~@] \in Wave /\ c \in 1 .. Len(waves)
    BY <1>2 DEF Wave
  <2> QED
    BY <1>2, <2>1
<1>4. \A d \in Rows : /\ u[d].rate = waves[d].rate /\ u[d].type = waves[d].type
                      /\ u[d].freq = waves[d].freq
  BY <1>2, <1>3 DEF Wave
<1>5. Agree(u) /\ box.rate = u[row].rate /\ box.type = u[row].type
  BY <1>1, <1>2, <1>4 DEF Agree
<1>6. \A d \in Rows \ {c} : config'.entries[d] = waves[d]
  BY <1>1, <1>3 DEF SetWaves
<1> HIDE DEF u
<1>7. TableInv'
  BY <1>1, <1>3, <1>5, SetKeeps
<1>8. OthersKept
  BY <1>1, <1>4, OthersKeptBySet
<1> QED
  BY <1>6, <1>7, <1>8

LEMMA ClickAllKeeps == TableInv /\ ClickAll => TableInv' /\ OthersKept
<1> SUFFICES ASSUME TableInv, ClickAll PROVE TableInv' /\ OthersKept
  OBVIOUS
<1> DEFINE waves == config.entries
           u == [c \in DOMAIN waves |->
                   IF c \in Rows THEN [waves[c] EXCEPT !.on = ~all] ELSE waves[c]]
<1>1. /\ Used /\ row' = row /\ box' = box /\ row \in Rows /\ IsBox(box)
      /\ SetWaves(u) /\ all' = ~all
      /\ box.rate = waves[row].rate /\ box.type = waves[row].type
      /\ all = AllOn(waves)
  BY DEF ClickAll, Change, TableInv, ControlsShowTheRow
<1>2. /\ waves \in Seq(Wave) /\ Agree(waves) /\ Rows \subseteq 1 .. Len(waves)
      /\ DOMAIN waves = 1 .. Len(waves) /\ Len(waves) \in Nat
      /\ \A c \in 1 .. Len(waves) : waves[c] \in Wave
  BY <1>1, OpenWaves DEF Used
<1>3. all \in BOOLEAN
  BY <1>1 DEF AllOn
<1>4. \A c \in Rows : [waves[c] EXCEPT !.on = ~all] \in Wave
  BY <1>2, <1>3 DEF Wave
<1>5. /\ u \in Seq(Wave)
      /\ \A c \in Rows : u[c] = [waves[c] EXCEPT !.on = ~all]
  BY <1>2, <1>4
<1>6. \A c \in Rows : /\ u[c].rate = waves[c].rate /\ u[c].type = waves[c].type
                      /\ u[c].freq = waves[c].freq /\ u[c].on = ~all
  BY <1>2, <1>5 DEF Wave
<1>7. Agree(u) /\ box.rate = u[row].rate /\ box.type = u[row].type
  BY <1>1, <1>2, <1>6 DEF Agree
<1>8. (~all) = AllOn(u)
  BY <1>3, <1>6, NeededIs DEF AllOn
<1>9. OthersKept
  BY <1>1, <1>6, OthersKeptBySet
<1> HIDE DEF u
<1> QED
  BY <1>1, <1>5, <1>7, <1>8, <1>9, SetKeeps

-----------------------------------------------------------------------------
(* The inductive invariant of the window.                                  *)
THEOREM TableInvariant == Spec => []TableInv
<1>1. Init => TableInv
  BY Constructed, NeededIs, FileAssumption
  DEF Init, StoreInit, FirstBox, TableInv, ControlsShowTheRow, Used, FilesMade, IsBox
<1>2. TableInv /\ [Next]_vars => TableInv'
  <2> SUFFICES ASSUME TableInv, [Next]_vars PROVE TableInv'
    OBVIOUS
  <2>1. CASE UNCHANGED vars
    BY <2>1 DEF vars, tableVars, storeVars, fileVars, TableInv,
                ControlsShowTheRow, Used, Usable, FilesMade, AllOn
  <2>2. CASE TableNext
    BY <2>2, OpenWindowKeeps, ToggleLockKeeps, ClickAllKeeps, ClickCellKeeps,
       ToggleChannelKeeps, FinishFreqKeeps, ChooseRateKeeps, ChooseTypeKeeps
    DEF TableNext
  <2> QED
    BY <2>1, <2>2, StoreKeepsTable DEF Next
<1> QED
  BY <1>1, <1>2, PTL DEF Spec

(* No two channels of an open window have one carrier frequency and all    *)
(* have one sample rate, whatever the user typed in whatever order.        *)
THEOREM WavesStayInAgreement == Spec => []WavesAgree
<1>1. TableInv => WavesAgree
  BY OpenWaves DEF Used, WavesAgree
<1> QED
  BY <1>1, TableInvariant, PTL

(* The controls show the selected row, the box for all the rows' boxes.    *)
THEOREM ControlsFollowTheRow == Spec => []ControlsShowTheRow
<1>1. TableInv => ControlsShowTheRow
  BY DEF TableInv
<1> QED
  BY <1>1, TableInvariant, PTL

(* Selecting a row writes nothing, the box of a channel switches no other  *)
(* one, and no step of an open window, whatever it is, changes another     *)
(* row's frequency or type.                                                *)
THEOREM ClicksAreLocal == Spec => ChangesStayLocal
<1> DEFINE Local ==
             /\ (\E r \in Rows : ClickCell(r)) => UNCHANGED config
             /\ \A c, d \in Rows : ToggleChannel(c) /\ c # d =>
                  config'.entries[d] = config.entries[d]
             /\ Used /\ Used' => \A c \in Rows \ {row} :
                  /\ config'.entries[c].freq = config.entries[c].freq
                  /\ config'.entries[c].type = config.entries[c].type
<1>1. TableInv /\ [Next]_vars => [Local]_vars
  <2> SUFFICES ASSUME TableInv, Next PROVE Local
    OBVIOUS
  <2>1. (\E r \in Rows : ClickCell(r)) => UNCHANGED config
    BY ClickCellKeeps
  <2>2. \A c, d \in Rows : ToggleChannel(c) /\ c # d =>
          config'.entries[d] = config.entries[d]
    BY ToggleChannelKeeps
  <2>3. Used /\ Used' => OthersKept
    <3> SUFFICES ASSUME Used, Used' PROVE OthersKept
      OBVIOUS
    <3>1. CASE Store
      BY <3>1, OpenRemains DEF OthersKept
    <3>2. CASE OpenWindow
      BY <3>2 DEF OpenWindow, Used
    <3>3. CASE \E r \in Rows : ClickCell(r)
      BY <2>1, <3>3 DEF OthersKept
    <3>4. CASE TableNext
      BY <3>2, <3>3, <3>4, ToggleLockKeeps, ClickAllKeeps, ToggleChannelKeeps,
         FinishFreqKeeps, ChooseRateKeeps, ChooseTypeKeeps DEF TableNext
    <3> QED
      BY <3>1, <3>4 DEF Next
  <2> QED
    BY <2>1, <2>2, <2>3 DEF OthersKept
<1> QED
  BY <1>1, TableInvariant, PTL DEF Spec, ChangesStayLocal
=============================================================================
