------------------------------ MODULE WaveTable ------------------------------
(***************************************************************************)
(* The transmitter's window over its configuration (ConfigStore): a box    *)
(* per channel and one for all, a table of the channels' waves, and below  *)
(* it the wave of the selected row in controls whose signals write it      *)
(* back, whether the user or the program has changed them.                 *)
(*                                                                         *)
(* An entry is a channel: on or not, carrier_freq, sample_rate, wave_type. *)
(* The power, the times and the other numbers of a wave, each shown and    *)
(* written by itself, are left out.                                        *)
(***************************************************************************)
EXTENDS ConfigStore

CONSTANTS
  Freqs, \* Hz; what the spin box can show
  Grid,  \* where the spin box rounds to while it is locked
  Short, \* those that come out 1 Hz lower, (int)(kHz * 1000)
  Rates, FirstRate, \* the items of comboBox_sample_rate
  Types, FirstType, \* the items of comboBox_wave_type
  MaxChanges \* bound: the user's changes in one session

Distance(x, y) == IF x < y THEN y - x ELSE x - y

ASSUME TableAssumption ==
  /\ Freqs \subseteq Nat /\ Grid \subseteq Freqs
  /\ \A x \in Freqs : \E g \in Grid :
       \A h \in Grid : Distance(x, g) <= Distance(x, h)
  /\ Short \subseteq Freqs \ Grid
  /\ FirstRate \in Rates /\ FirstType \in Types

Rows == 1 .. Needed["modem"]

AllOn(waves) == \A c \in Rows : waves[c].on

(* No two channels have one carrier frequency, and all have one rate.      *)
Agree(waves) ==
  \A c, d \in Rows :
    /\ c # d => waves[c].freq # waves[d].freq
    /\ waves[c].rate = waves[d].rate

(* A configuration that the window could have made, or one with too few    *)
(* channels to open it.                                                    *)
Wave == [on : BOOLEAN, freq : Int, rate : Rates, type : Types]
WellMade(c) ==
  /\ c = [head |-> c.head, entries |-> c.entries]
  /\ c.entries \in Seq(Wave)
  /\ Len(c.entries) >= Needed["modem"] => Agree(c.entries)

(* By hand the user writes nothing that the window would have refused.     *)
ASSUME FileAssumption ==
  /\ Needed["modem"] \in Nat \ {0}
  /\ \A c \in {Default["modem"], Blank["modem"]} \cup Edits["modem"] :
       WellMade(c)

VARIABLES
  row,  \* current_set_channel
  box,  \* what the controls of a wave show
  lock, \* freq_set_lock
  all,  \* checkBox_all_channel_on
  changes \* counted for the bound

tableVars == <<row, box, lock, all, changes>>
vars == <<storeVars, tableVars>>

FirstBox == [freq |-> CHOOSE g \in Grid : \A h \in Grid : g <= h,
             rate |-> FirstRate, type |-> FirstType]

Init ==
  /\ StoreInit
  /\ row = 1 /\ box = FirstBox /\ lock = TRUE /\ all = FALSE
  /\ changes = 0

(* FreqSpinBox::onValueChanged.                                            *)
Snapped(x, locked) ==
  IF locked THEN CHOOSE g \in Grid :
                   \A h \in Grid : Distance(x, g) <= Distance(x, h)
            ELSE x

Hz(x) == IF x \in Short THEN x - 1 ELSE x

(* What comboBox_sample_rate does to the waves when it shows a rate.       *)
WithRate(waves, shown, rate) ==
  IF rate = shown THEN waves
  ELSE [c \in DOMAIN waves |-> [waves[c] EXCEPT !.rate = rate]]

(* It writes the rate into the table for every wave.  Where the file had   *)
(* more waves than the table has rows there is no item to write to: a null *)
(* pointer is used and the program dies, a Crash of ConfigStore.           *)
HasItems(waves, shown, rate) ==
  rate = shown \/ Len(waves) <= Needed["modem"]

(* Mutant: the row is set behind the controls, whose slots still write to  *)
(* the old one.                                                            *)
SelectRowLast(waves, shown, old, r, locked) ==
  [waves |-> WithRate([waves EXCEPT ![old].type =
                         IF waves[r].type = shown.type THEN @
                                                       ELSE waves[r].type],
                      shown.rate, waves[r].rate),
   box |-> [freq |-> Snapped(waves[r].freq, locked),
            rate |-> waves[r].rate, type |-> waves[r].type]]

(* slot_tableWidget_cell_clicked: row r's wave is shown; the slots of the  *)
(* controls that change are called.  That of the type writes r's own type. *)
SelectRow(waves, shown, old, r, locked) ==
  [waves |-> WithRate(waves, shown.rate, waves[r].rate),
   box |-> [freq |-> Snapped(waves[r].freq, locked),
            rate |-> waves[r].rate, type |-> waves[r].type]]

(* The window of a program that uses its entries.                          *)
Used == program = "modem" /\ phase = "running" /\ Usable

Change == Used /\ changes < MaxChanges /\ changes' = changes + 1

SetWaves(waves) ==
  /\ config' = [head |-> config.head, entries |-> waves]
  /\ wanted' = IF wanted.known THEN Wanted(waves) ELSE Lost
  /\ UNCHANGED <<program, fileVars, phase, alive, ended>>

-----------------------------------------------------------------------------
(* init() on fresh controls: the boxes and the table are filled, the first *)
(* row is selected.  Without enough entries the window shows anything.     *)
OpenWindow ==
  /\ phase = "starting" /\ program = "modem" /\ Usable
  /\ HasItems(config.entries, FirstBox.rate, config.entries[1].rate)
  /\ phase' = "running" /\ alive' = TRUE
  /\ \E first \in {SelectRow(config.entries, FirstBox, 1, 1, TRUE)} :
       /\ config' = [head |-> config.head, entries |-> first.waves]
       /\ wanted' = IF wanted.known THEN Wanted(first.waves) ELSE Lost
       /\ box' = first.box
  /\ row' = 1 /\ lock' = TRUE /\ all' = AllOn(config.entries)
  /\ changes' = 0
  /\ UNCHANGED <<program, fileVars, ended>>

ClickCell(r) ==
  /\ Change /\ HasItems(config.entries, box.rate, config.entries[r].rate)
  /\ \E s \in {SelectRow(config.entries, box, row, r, lock)} :
       SetWaves(s.waves) /\ box' = s.box
  /\ row' = r
  /\ UNCHANGED <<lock, all>>

(* Mutant: the comparison is with the frequency as shown.                  *)
FinishFreqAsShown(x) ==
  /\ Change
  /\ LET shown == Snapped(x, lock)
         waves == config.entries
     IN  \/ /\ \E c \in Rows \ {row} : waves[c].freq = shown
            /\ box' = [box EXCEPT !.freq = Snapped(waves[row].freq, lock)]
            /\ UNCHANGED storeVars
         \/ /\ \A c \in Rows \ {row} : waves[c].freq # shown
            /\ box' = [box EXCEPT !.freq = shown]
            /\ SetWaves([waves EXCEPT ![row].freq = Hz(shown)])
  /\ UNCHANGED <<row, lock, all>>

(* The user types a frequency, or only enters and leaves the spin box.  A  *)
(* frequency that another channel has is refused.                          *)
FinishFreq(x) ==
  /\ Change
  /\ LET shown == Snapped(x, lock)
         waves == config.entries
     IN  \/ /\ \E c \in Rows \ {row} : waves[c].freq = Hz(shown)
            /\ box' = [box EXCEPT !.freq = Snapped(waves[row].freq, lock)]
            /\ UNCHANGED storeVars
         \/ /\ \A c \in Rows \ {row} : waves[c].freq # Hz(shown)
            /\ box' = [box EXCEPT !.freq = shown]
            /\ SetWaves([waves EXCEPT ![row].freq = Hz(shown)])
  /\ UNCHANGED <<row, lock, all>>

(* checkBox_freqset; the value is emitted again, and rounded.              *)
ToggleLock ==
  /\ Change
  /\ lock' = ~lock
  /\ box' = [box EXCEPT !.freq = Snapped(@, ~lock)]
  /\ UNCHANGED <<storeVars, row, all>>

ChooseRate(rate) ==
  /\ Change /\ rate # box.rate /\ HasItems(config.entries, box.rate, rate)
  /\ SetWaves(WithRate(config.entries, box.rate, rate))
  /\ box' = [box EXCEPT !.rate = rate]
  /\ UNCHANGED <<row, lock, all>>

ChooseType(type) ==
  /\ Change /\ type # box.type
  /\ SetWaves([config.entries EXCEPT ![row].type = type])
  /\ box' = [box EXCEPT !.type = type]
  /\ UNCHANGED <<row, lock, all>>

(* Mutant: the channels that are on are counted first.                     *)
ToggleChannelCountedFirst(c) ==
  /\ Change
  /\ SetWaves([config.entries EXCEPT ![c].on = ~@])
  /\ all' = AllOn(config.entries)
  /\ UNCHANGED <<row, box, lock>>

(* slot_checkBox_chx_stateChanged; the box for all follows.                *)
ToggleChannel(c) ==
  /\ Change
  /\ \E now \in {[config.entries EXCEPT ![c].on = ~@]} :
       SetWaves(now) /\ all' = AllOn(now)
  /\ UNCHANGED <<row, box, lock>>

(* slot_checkBox_all_channel_on_clicked checks or unchecks every box.      *)
ClickAll ==
  /\ Change
  /\ all' = ~all
  /\ SetWaves([c \in DOMAIN config.entries |->
                 IF c \in Rows THEN [config.entries[c] EXCEPT !.on = ~all]
                               ELSE config.entries[c]])
  /\ UNCHANGED <<row, box, lock>>

(* What ConfigStore does apart from opening the window.                    *)
Store ==
  /\ StoreNext
  /\ ~(phase = "starting" /\ phase' = "running" /\ program = "modem" /\ Usable)
  /\ UNCHANGED tableVars

TableNext ==
  \/ OpenWindow \/ ToggleLock \/ ClickAll
  \/ \E r \in Rows : ClickCell(r) \/ ToggleChannel(r)
  \/ \E x \in Freqs : FinishFreq(x)
  \/ \E rate \in Rates : ChooseRate(rate)
  \/ \E type \in Types : ChooseType(type)

Next == Store \/ TableNext
Spec == Init /\ [][Next]_vars

-----------------------------------------------------------------------------
(* No two channels of a usable configuration have one carrier frequency,   *)
(* whatever rounding and cutting off stand between the value typed, the    *)
(* value shown and the value kept (udp_modem_widget.cpp:312-330), and the  *)
(* packages' sample rate, channel 0's, is every channel's                  *)
(* (udp_modem_worker.cpp:208, 371-379 of the window).                      *)
WavesAgree == Used => Agree(config.entries)

(* The controls show what the selected row has, but for the frequency,     *)
(* which the lock may round; the box for all is checked when all are.      *)
ControlsShowTheRow ==
  Used =>
    /\ box.rate = config.entries[row].rate
    /\ box.type = config.entries[row].type
    /\ all = AllOn(config.entries)

(* Selecting a row changes nothing, although it calls the slots that write *)
(* settings, and a channel's box switches that channel only: "avoids being *)
(* entered again here, which leads to bugs" (udp_modem_widget.cpp:241).    *)
(* Whatever else happens while the window is open, no frequency and no     *)
(* type changes but the selected row's.                                    *)
ChangesStayLocal ==
  [][/\ (\E r \in Rows : ClickCell(r)) => UNCHANGED config
     /\ \A c, d \in Rows : ToggleChannel(c) /\ c # d =>
          config'.entries[d] = config.entries[d]
     /\ Used /\ Used' => \A c \in Rows \ {row} :
          /\ config'.entries[c].freq = config.entries[c].freq
          /\ config'.entries[c].type = config.entries[c].type]_vars
=============================================================================
