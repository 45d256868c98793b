----------------------------- MODULE ConfigStore -----------------------------
(***************************************************************************)
(* The settings of the two programs and the JSON file they are kept in:    *)
(* VLFReceiverConfig of the receiver, udp_wave_config of the transmitter.  *)
(* Both load at the start, make the file when there is none, and save in a *)
(* destructor.  Saving truncates the file, then writes it.                 *)
(*                                                                         *)
(* A configuration has a head (the receiver's device_config, without the   *)
(* date, which RecordClock has; the transmitter's addresses, format and    *)
(* noise) and entries (ch_config_vec; channels and wave_config_vec).       *)
(* A file that is no JSON object is torn.                                  *)
(***************************************************************************)
EXTENDS Integers, Sequences

CONSTANTS
  Programs, \* a subset of {"receiver", "modem"}
  Default,  \* of a program: what createDefaultConfig makes
  Blank,    \* of a program: the object before anything is loaded
  Needed,   \* of a program: the entries it uses, whatever the file has
  Edits,    \* of a program: what the user writes into the file by hand
  Heads

VARIABLES
  program, \* never changes
  file,
  config,  \* the object's
  phase,   \* "off", "creating", "starting", "running", "leaving", "saving"
  alive,   \* the thread that sets the head runs: the receiver's, the window's
  doc,     \* what saveConfig writes, absent until it is made
  open,    \* the file is open for writing
  wanted,  \* history: the entries last set, by the user or by default
  ended    \* history: how the program ended, "" while it runs

fileVars  == <<file, doc, open>>
storeVars == <<program, file, config, phase, alive, doc, open, wanted,
               ended>>

Absent == [is |-> "absent"]
Torn == [is |-> "torn"]
FileOf(c) == [is |-> "whole", has |-> c]
Whole == file.is = "whole"

(* What happened may have lost the entries that were set.                  *)
Lost == [known |-> FALSE]
Wanted(entries) == [known |-> TRUE, entries |-> entries]

Usable == Len(config.entries) >= Needed[program]

(* Some of the entries are in no file.                                     *)
Unsaved == ~Whole \/ (Whole /\ file.has.entries # config.entries)

StoreInit ==
  /\ program \in Programs
  /\ file = Absent /\ config = Blank[program]
  /\ phase = "off" /\ alive = FALSE /\ doc = Absent /\ open = FALSE
  /\ wanted = Wanted(Default[program].entries) /\ ended = "edited"

-----------------------------------------------------------------------------
(* loadConfig.  Without a file the defaults are taken and saved.           *)
Create ==
  /\ phase = "off" /\ file.is = "absent"
  /\ config' = Default[program]
  /\ phase' = "creating" /\ ended' = ""
  /\ wanted' = Wanted(Default[program].entries)
  /\ UNCHANGED <<program, fileVars, alive>>

(* Mutant: the entries are added to what the object had.                   *)
LoadBehind ==
  /\ phase = "off" /\ Whole
  /\ config' = [file.has EXCEPT !.entries = Blank[program].entries \o @]
  /\ phase' = "starting" /\ ended' = ""
  /\ UNCHANGED <<program, fileVars, alive, wanted>>

(* The vectors are cleared and filled with as many entries as there are.   *)
Load ==
  /\ phase = "off" /\ Whole
  /\ config' = file.has
  /\ phase' = "starting" /\ ended' = ""
  /\ UNCHANGED <<program, fileVars, alive, wanted>>

(* The file cannot be opened, or is torn: false is returned, nobody looks. *)
LoadNothing ==
  /\ phase = "off" /\ file.is # "absent"
  /\ config' = Blank[program]
  /\ phase' = "starting" /\ ended' = ""
  /\ wanted' = Lost
  /\ UNCHANGED <<program, fileVars, alive>>

(* The entries are indexed, as many as are needed.  With fewer the         *)
(* behaviour is undefined: the program goes on with garbage or dies, which *)
(* is a Crash.                                                             *)
Use ==
  /\ phase = "starting"
  /\ phase' = "running" /\ alive' = TRUE
  /\ UNCHANGED <<program, fileVars, config, wanted, ended>>

(* A status package's, by the receiver's thread, or the user's.            *)
ChangeHead(h) ==
  /\ alive
  /\ config' = [head |-> h, entries |-> config.entries]
  /\ UNCHANGED <<program, fileVars, phase, alive, wanted, ended>>

-----------------------------------------------------------------------------
(* Mutant: the receiver saves while its thread still runs.                 *)
ExitAtOnce ==
  /\ phase = "running"
  /\ phase' = "saving"
  /\ UNCHANGED <<program, fileVars, config, alive, wanted, ended>>

(* The destructor: the receiver ends its threads before it saves, the      *)
(* transmitter saves before it waits for its worker, which only reads.     *)
Exit ==
  /\ phase = "running"
  /\ phase' = IF program = "receiver" THEN "leaving" ELSE "saving"
  /\ alive' = (program = "receiver")
  /\ UNCHANGED <<program, fileVars, config, wanted, ended>>

(* The receiver's thread has ended.                                        *)
Joined ==
  /\ phase = "leaving"
  /\ phase' = "saving" /\ alive' = FALSE
  /\ UNCHANGED <<program, fileVars, config, wanted, ended>>

(* Where a save leads.                                                     *)
Behind == IF phase = "creating" THEN "starting" ELSE "off"

(* saveConfig: the document is made of the configuration of the moment.    *)
Compose ==
  /\ phase \in {"creating", "saving"} /\ doc = Absent
  /\ doc' = FileOf(config)
  /\ UNCHANGED <<program, file, config, phase, alive, open, wanted, ended>>

(* The open truncates the file, or fails.                                  *)
OpenForWriting ==
  /\ doc # Absent /\ ~open
  /\ \/ /\ file' = Torn /\ open' = TRUE
        /\ UNCHANGED <<phase, doc, wanted, ended>>
     \/ /\ phase' = Behind /\ doc' = Absent
        /\ wanted' = IF phase = "saving" /\ Unsaved THEN Lost ELSE wanted
        /\ ended' = IF phase = "saving" THEN "unsaved" ELSE ended
        /\ UNCHANGED <<file, open>>
  /\ UNCHANGED <<program, config, alive>>

(* The write succeeds or leaves a part; nobody looks.  What a session has  *)
(* saved at its end is what the next one should find, even if something    *)
(* was lost before.                                                        *)
WriteOut ==
  /\ open
  /\ open' = FALSE /\ phase' = Behind /\ doc' = Absent
  /\ \/ /\ file' = doc
        /\ wanted' = IF phase = "saving" THEN Wanted(config.entries) ELSE wanted
        /\ ended' = IF phase = "saving" THEN "saved" ELSE ended
     \/ /\ wanted' = IF phase = "saving" THEN Lost ELSE wanted
        /\ ended' = IF phase = "saving" THEN "unsaved" ELSE ended
        /\ UNCHANGED file
  /\ UNCHANGED <<program, config, alive>>

-----------------------------------------------------------------------------
(* The program or the machine stops.                                       *)
Crash ==
  /\ phase # "off"
  /\ phase' = "off" /\ alive' = FALSE /\ doc' = Absent /\ open' = FALSE
  /\ ended' = "crashed"
  /\ config' = Blank[program]
  /\ wanted' = IF open \/ (phase # "creating" /\ Unsaved) THEN Lost ELSE wanted
  /\ UNCHANGED <<program, file>>

(* The user replaces the file, the only way to set a receiver's channels.  *)
EditFile(c) ==
  /\ ~open
  /\ file' = FileOf(c)
  /\ IF phase = "off" THEN wanted' = Wanted(c.entries) /\ ended' = "edited"
                      ELSE wanted' = Lost /\ UNCHANGED ended
  /\ UNCHANGED <<program, config, phase, alive, doc, open>>

DeleteFile ==
  /\ phase = "off" /\ file.is # "absent"
  /\ file' = Absent /\ ended' = "edited"
  /\ UNCHANGED <<program, config, phase, alive, doc, open, wanted>>

StoreNext ==
  \/ Create \/ Load \/ LoadNothing \/ Use \/ Exit \/ Joined \/ Compose
  \/ OpenForWriting \/ WriteOut \/ Crash \/ DeleteFile
  \/ \E h \in Heads : ChangeHead(h)
  \/ \E c \in Edits[program] : EditFile(c)

-----------------------------------------------------------------------------
(* The entries in use and in the file are those last set, through any      *)
(* number of sessions and crashes, unless the last save is cut short or    *)
(* fails, settings were not saved yet, the file cannot be read, or the     *)
(* user writes it under the running program.  A loss ends with the next    *)
(* save: from then on the sessions agree again, about what was saved; and  *)
(* a save that fails at the start costs the running program nothing        *)
(* (VLFReceiverConfig.cpp:8-14, 56, 111-117, udp_wave_config.cpp:90, 129,  *)
(* 145).                                                                   *)
SettingsKept ==
  wanted.known =>
    /\ phase \in {"creating", "starting", "running", "leaving", "saving"}
         => config.entries = wanted.entries
    /\ phase = "off" =>
         file.is = "absent" \/ (Whole /\ file.has.entries = wanted.entries)

(* What was saved is the last there was: no status package comes behind    *)
(* the save (mainwindow.cpp:106-121).                                      *)
SavedIsLast ==
  phase = "off" /\ ended = "saved" => Whole /\ file.has = config
=============================================================================
