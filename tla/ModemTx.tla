------------------------------- MODULE ModemTx -------------------------------
(***************************************************************************)
(* The transmitter simulator: the window with its timers and settings, the *)
(* worker's thread with its posted ticks, and one channel's signal, which  *)
(* goes on from tick to tick although everything a tick works with is made *)
(* anew (udp_modem_widget.cpp:87-139, udp_modem_worker.cpp:130-312).       *)
(*                                                                         *)
(* The window changes settings while the worker uses them.  A tick reads   *)
(* most of them once, in BeginTick, but whether a channel is on and its    *)
(* type for every package.                                                 *)
(***************************************************************************)
EXTENDS Integers, Sequences

CONSTANTS
  Settings, \* what a channel may be set to, see SettingsAssumption
  PackSize, \* UDP_SAMPLE_SIZE
  MaxQueue  \* bound: events posted to the worker at a time

(* Of a setting: channel on or not, wave_type, the lengths in samples of   *)
(* init_delay, a frame (FRAME_SIZE symbols) and wave_internal, and the     *)
(* packages of a tick at its sample rate.  The spin boxes of the delay and *)
(* of wave_internal begin at 0; the rates are chosen from lists, with at   *)
(* least 640 samples to a symbol.                                          *)
ASSUME SettingsAssumption ==
  /\ Settings \subseteq
       [on : BOOLEAN, type : {"FSK", "MSK"}, delay : Nat,
        len : Nat \ {0}, gap : Nat, packages : Nat]
  /\ PackSize \in Nat \ {0} /\ MaxQueue \in Nat

VARIABLES
  gui,        \* "open", then "exiting" and "closed" in the destructor
  running,    \* both timers run; Start is enabled when they do not
  settings,   \* the channel's m_config
  atStart,    \* the single shot of the constructor has not fired yet
  queue,      \* events posted to the worker
  worker,     \* "loop", "package", "sample" or "finished"
  read,       \* a tick's copy of the settings
  generator,  \* type of the tick's generator, "none" if there is none
  place,      \* idx_sample_cnt of the generator
  idxPackage, \* idx_package
  idxSample,  \* i of chx_generate_one_package
  isSig,      \* is_sig_ch: the initial delay is over
  txSample,   \* tx_sample_ch
  air         \* history: the frame or the silence on the air, so far

windowVars == <<gui, running, settings>>
tickVars   == <<read, generator, place, idxPackage, idxSample>>
signalVars == <<isSig, txSample, air>>
vars == <<windowVars, atStart, queue, worker, tickVars, signalVars>>

(* Nothing counted: silence whose length says nothing.                     *)
Unmeasured == [signal |-> FALSE, count |-> 0, steady |-> FALSE]

Init ==
  /\ gui = "open" /\ running = FALSE /\ settings \in Settings
  /\ atStart = TRUE /\ queue = <<>>
  /\ worker = "loop" /\ read = settings
  /\ generator = "none" /\ place = 0 /\ idxPackage = 0 /\ idxSample = 0
  /\ isSig = FALSE /\ txSample = 0
  /\ air = Unmeasured

-----------------------------------------------------------------------------
(* The window.                                                             *)
Start ==
  /\ gui = "open" /\ ~running
  /\ running' = TRUE
  /\ UNCHANGED <<gui, settings, atStart, queue, worker, tickVars, signalVars>>

Stop ==
  /\ gui = "open" /\ running
  /\ running' = FALSE
  /\ UNCHANGED <<gui, settings, atStart, queue, worker, tickVars, signalVars>>

(* The slots of the channel's check box and wave parameters.               *)
Change(s) ==
  /\ gui = "open" /\ s # settings
  /\ settings' = s
  /\ air' = [air EXCEPT !.steady = FALSE]
  /\ UNCHANGED <<gui, running, atStart, queue, worker, tickVars, isSig,
                 txSample>>

(* Mutant: the timers of a stopped transmission go on.                     *)
TimeoutAlways(event) ==
  /\ gui = "open" /\ Len(queue) < MaxQueue
  /\ queue' = Append(queue, event)
  /\ UNCHANGED <<windowVars, atStart, worker, tickVars, signalVars>>

(* bussiness_tx_timer and status_tx_timer: queued calls of the worker.     *)
Timeout(event) ==
  /\ gui = "open" /\ running /\ Len(queue) < MaxQueue
  /\ queue' = Append(queue, event)
  /\ UNCHANGED <<windowVars, atStart, worker, tickVars, signalVars>>

(* The destructor saves the settings and asks the worker to leave.         *)
Exit ==
  /\ gui = "open"
  /\ gui' = "exiting"
  /\ UNCHANGED <<running, settings, atStart, queue, worker, tickVars,
                 signalVars>>

(* It waits for the worker and deletes m_config.                           *)
Delete ==
  /\ gui = "exiting" /\ worker = "finished"
  /\ gui' = "closed"
  /\ UNCHANGED <<running, settings, atStart, queue, worker, tickVars,
                 signalVars>>

-----------------------------------------------------------------------------
(* The worker.  udp_tx_status, called by the constructor's single shot and *)
(* by a timer, touches nothing of a transmission.                          *)
FirstStatus ==
  /\ worker = "loop" /\ atStart
  /\ atStart' = FALSE
  /\ UNCHANGED <<windowVars, queue, worker, tickVars, signalVars>>

TakeStatus ==
  /\ worker = "loop" /\ queue # <<>> /\ Head(queue) = "status"
  /\ queue' = Tail(queue)
  /\ UNCHANGED <<windowVars, atStart, worker, tickVars, signalVars>>

(* Mutant: the signal begins again with every tick.                        *)
BeginTickAnew ==
  /\ worker = "loop" /\ queue # <<>> /\ Head(queue) = "business"
  /\ queue' = Tail(queue)
  /\ worker' = "package" /\ idxPackage' = 0
  /\ read' = settings
  /\ generator' = IF settings.on THEN settings.type ELSE "none"
  /\ place' = 0 /\ txSample' = 0
  /\ UNCHANGED <<windowVars, atStart, idxSample, isSig, air>>

(* Mutant: only one type of generator is made.                             *)
BeginTickFskOnly ==
  /\ worker = "loop" /\ queue # <<>> /\ Head(queue) = "business"
  /\ queue' = Tail(queue)
  /\ worker' = "package" /\ idxPackage' = 0
  /\ read' = settings
  /\ generator' = IF settings.on /\ settings.type = "FSK" THEN "FSK" ELSE "none"
  /\ place' = 0
  /\ UNCHANGED <<windowVars, atStart, idxSample, signalVars>>

(* udp_tx_business up to its loop: the settings are read, the generator is *)
(* made and given a frame.                                                 *)
BeginTick ==
  /\ worker = "loop" /\ queue # <<>> /\ Head(queue) = "business"
  /\ queue' = Tail(queue)
  /\ worker' = "package" /\ idxPackage' = 0
  /\ read' = settings
  /\ generator' = IF settings.on THEN settings.type ELSE "none"
  /\ place' = 0
  /\ UNCHANGED <<windowVars, atStart, idxSample, signalVars>>

(* The next package of the tick; on and type are those of the moment.      *)
Generate ==
  /\ worker = "package" /\ idxPackage < read.packages
  /\ settings.on /\ generator = settings.type
  /\ worker' = "sample" /\ idxSample' = 0
  /\ UNCHANGED <<windowVars, atStart, queue, read, generator, place,
                 idxPackage, signalVars>>

(* There is no generator of the type: sig_ch keeps the last package's      *)
(* samples, and they are sent again.                                       *)
Repeat ==
  /\ worker = "package" /\ idxPackage < read.packages
  /\ settings.on /\ generator # settings.type
  /\ idxPackage' = idxPackage + 1
  /\ air' = Unmeasured
  /\ UNCHANGED <<windowVars, atStart, queue, worker, read, generator, place,
                 idxSample, isSig, txSample>>

Clear ==
  /\ worker = "package" /\ idxPackage < read.packages
  /\ ~settings.on
  /\ idxPackage' = idxPackage + 1
  /\ air' = Unmeasured
  /\ UNCHANGED <<windowVars, atStart, queue, worker, read, generator, place,
                 idxSample, isSig, txSample>>

(* The sample at hand is part of a frame.                                  *)
InFrame == isSig /\ txSample < read.len

(* A frame begins with the sample, which without a gap may follow another  *)
(* frame, or a silence does.                                               *)
StretchBegins == air.signal # InFrame \/ (InFrame /\ txSample = 0)

(* The history after it.  A stretch of signal is worth measuring when it   *)
(* is one from its frame's beginning on and the settings are as read.      *)
NextAir ==
  IF ~StretchBegins THEN [air EXCEPT !.count = @ + 1]
  ELSE [signal |-> InFrame, count |-> 1,
        steady |-> IF InFrame THEN txSample = 0 /\ settings = read
                              ELSE air.steady]

(* tx_sample_chx after it: the delay is counted once, then frame and gap.  *)
NextTx ==
  IF isSig THEN (txSample + 1) % (read.len + read.gap)
  ELSE IF txSample + 1 >= read.delay THEN 0 ELSE txSample + 1

(* A sample of chx_generate_one_package_bfsk or _msk; the last one of a    *)
(* package is followed by the next package.                                *)
Sample ==
  /\ worker = "sample"
  /\ isSig' = (isSig \/ txSample + 1 >= read.delay)
  /\ txSample' = NextTx
  /\ place' = IF InFrame THEN (place + 1) % read.len ELSE place
  /\ air' = NextAir
  /\ IF idxSample + 1 < PackSize
       THEN idxSample' = idxSample + 1 /\ UNCHANGED <<worker, idxPackage>>
       ELSE /\ idxSample' = 0 /\ worker' = "package"
            /\ idxPackage' = idxPackage + 1
  /\ UNCHANGED <<windowVars, atStart, queue, read, generator>>

(* The generators are destroyed.                                           *)
EndTick ==
  /\ worker = "package" /\ idxPackage >= read.packages
  /\ worker' = "loop" /\ generator' = "none"
  /\ UNCHANGED <<windowVars, atStart, queue, read, place, idxPackage,
                 idxSample, signalVars>>

(* Mutant: the worker looks at a flag of its own, behind a tick.           *)
FinishBehindTick ==
  /\ worker = "package" /\ idxPackage >= read.packages /\ gui = "exiting"
  /\ worker' = "finished"
  /\ UNCHANGED <<windowVars, atStart, queue, tickVars, signalVars>>

(* The event loop ends.  The events that it was delivering when exit() was *)
(* called are handled before, which may be any number of the posted ones;  *)
(* the others are gone.                                                    *)
Finish ==
  /\ worker = "loop" /\ gui = "exiting"
  /\ worker' = "finished"
  /\ UNCHANGED <<windowVars, atStart, queue, tickVars, signalVars>>

Window ==
  \/ Start \/ Stop \/ Exit \/ Delete
  \/ \E s \in Settings : Change(s)
  \/ \E event \in {"business", "status"} : Timeout(event)

Worker ==
  \/ FirstStatus \/ TakeStatus \/ BeginTick \/ Generate \/ Repeat \/ Clear
  \/ Sample \/ EndTick \/ Finish

Next == Window \/ Worker

(* The worker's thread runs, and the destructor goes on once it may.       *)
Spec == Init /\ [][Next]_vars /\ WF_vars(Worker) /\ WF_vars(Delete)

-----------------------------------------------------------------------------
TypeOK ==
  /\ gui \in {"open", "exiting", "closed"}
  /\ {running, atStart, isSig} \subseteq BOOLEAN
  /\ settings \in Settings /\ read \in Settings
  /\ queue \in Seq({"business", "status"}) /\ Len(queue) <= MaxQueue
  /\ worker \in {"loop", "package", "sample", "finished"}
  /\ generator \in {"none", "FSK", "MSK"}
  /\ place \in Nat /\ (worker = "sample" => place < read.len)
  /\ idxPackage \in Nat /\ idxSample \in 0 .. PackSize - 1
  /\ txSample \in Nat
  /\ air \in [signal : BOOLEAN, count : Nat, steady : BOOLEAN]

(* A frame that began with the settings of its tick is as long as a frame  *)
(* when the next stretch begins, and the silence behind it as long as the  *)
(* gap, unless a setting is changed meanwhile; with a gap of 0 frame       *)
(* follows frame.  So it is across packages, ticks, Stop and Start, each   *)
(* of which begins anew with everything but is_sig_ch and tx_sample_ch     *)
(* (udp_modem_worker.cpp:168-191, 346-364).                                *)
FramesAndGapsAreWhole ==
  [][air.steady /\ ((Sample /\ StretchBegins) \/ Repeat \/ Clear)
       => air.count = IF air.signal THEN read.len ELSE read.gap]_vars

(* Samples are sent a second time only in a tick during which the window   *)
(* has switched the channel on or changed its type: a later tick has the   *)
(* generator that its packages ask for (udp_modem_worker.cpp:184, 264-273).*)
RepeatsOnlyWhenChanged ==
  [][Repeat => settings.on # read.on \/ settings.type # read.type]_vars

(* After Stop the worker falls silent, unless Start is pressed again: Stop *)
(* never has the effect of Start, which the comment in                     *)
(* udp_modem_worker.cpp:134-139 is about.                                  *)
StopSilences ==
  ~running ~> running \/ worker = "finished" \/ (worker = "loop" /\ queue = <<>>)

(* Closing the window ends the program, and the settings outlive the       *)
(* worker's use of them (udp_modem_widget.cpp:130-136).                    *)
CloseEnds ==
  /\ gui = "exiting" ~> gui = "closed"
  /\ [](gui = "closed" => worker = "finished")

(* What fsk_vlf.h:14 and 34 say: a frame is put in once, its samples are   *)
(* taken in several calls.  The n-th sample of a frame on the air is then  *)
(* the n-th of the generator's frame.                                      *)
FrameIsOneFrame ==
  worker = "sample" /\ InFrame /\ air.steady /\ air.signal => place = txSample
=============================================================================
