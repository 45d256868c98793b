---------------------------- MODULE ModemProofs ----------------------------
(***************************************************************************)
(* Theorems about the transmitter, for any settings with a delay, a gap or *)
(* none, and frames of at least a sample, any size of a package and any    *)
(* number of posted ticks.  The length of a stretch on the air is known    *)
(* from the place in the frame alone (Measured), as long as the settings   *)
(* are those that the tick has read: that is what steady means.            *)
(***************************************************************************)
EXTENDS ModemTx, SequenceTheorems, TLAPS

Event == {"business", "status"}

LEMMA SettingFields ==
  ASSUME NEW s \in Settings
  PROVE  /\ s.on \in BOOLEAN /\ s.type \in {"FSK", "MSK"} /\ s.delay \in Nat
         /\ s.len \in Nat \ {0} /\ s.gap \in Nat /\ s.packages \in Nat
BY SettingsAssumption

LEMMA Sizes == PackSize \in Nat \ {0} /\ MaxQueue \in Nat
BY SettingsAssumption

(* The rest of the division that brings a count around.                    *)
LEMMA CountAround ==
  ASSUME NEW a \in Nat, NEW n \in Nat \ {0}
  PROVE  /\ a % n \in Nat /\ a % n < n
         /\ a < n => a % n = a
         /\ a = n => a % n = 0
OBVIOUS

-----------------------------------------------------------------------------
(* A tick has the generator of the settings it has read, and is inside its *)
(* frame.                                                                  *)
TickInv ==
  worker \in {"package", "sample"} =>
    /\ generator = IF read.on THEN read.type ELSE "none"
    /\ place < read.len
    /\ worker = "sample" => read.on

(* Nothing uses the settings when they are deleted.                        *)
ClosedInv == gui = "closed" => worker = "finished"

(* What is measured belongs to the settings as read, and txSample says how *)
(* long it is: from 0 on in a frame, from read.len on in a gap, and 0 when *)
(* the gap is over, or the frame when there is no gap.                     *)
Measured ==
  air.steady =>
    /\ isSig /\ settings = read /\ settings.on
    /\ IF air.signal
         THEN /\ air.count \in 1 .. read.len
              /\ txSample = IF air.count = read.len + read.gap
                              THEN 0 ELSE air.count
         ELSE /\ air.count \in 1 .. read.gap
              /\ txSample = IF air.count = read.gap
                              THEN 0 ELSE read.len + air.count

ModemInv == TypeOK /\ TickInv /\ ClosedInv /\ Measured

LEMMA Initially == Init => ModemInv
<1> SUFFICES ASSUME Init PROVE ModemInv
  OBVIOUS
<1>1. /\ gui = "open" /\ worker = "loop" /\ air = Unmeasured
      /\ air.steady = FALSE /\ air \in [signal : BOOLEAN, count : Nat, steady : BOOLEAN]
  BY DEF Init, Unmeasured
<1>2. queue \in Seq(Event) /\ Len(queue) = 0
  BY EmptySeq DEF Init
<1>3. /\ queue \in Seq({"business", "status"}) /\ Len(queue) <= MaxQueue
      /\ place \in Nat /\ idxPackage \in Nat /\ txSample \in Nat
      /\ idxSample \in 0 .. PackSize - 1
  BY <1>2, Sizes DEF Init, Event
<1>4. TypeOK
  BY <1>1, <1>3 DEF Init, TypeOK
<1> QED
  BY <1>1, <1>4 DEF ModemInv, TickInv, ClosedInv, Measured

(* What a step of the window that changes no setting leaves alone.         *)
LEMMA AirKept ==
  ASSUME ModemInv, UNCHANGED <<settings, read, isSig, txSample, air>>
  PROVE  Measured'
BY DEF ModemInv, Measured

LEMMA WindowKeeps ==
  ASSUME ModemInv, Window
  PROVE  ModemInv'
<1> USE DEF ModemInv
<1>1. CASE Start \/ Stop
  <2>1. /\ running' \in BOOLEAN
        /\ UNCHANGED <<gui, settings, atStart, queue, worker, tickVars,
                       signalVars>>
    BY <1>1 DEF Start, Stop
  <2> QED
    BY <2>1, AirKept DEF TypeOK, TickInv, ClosedInv, tickVars, signalVars
<1>2. ASSUME NEW s \in Settings, Change(s) PROVE ModemInv'
  <2>1. /\ settings' = s /\ air' = [air EXCEPT !.steady = FALSE]
        /\ UNCHANGED <<gui, running, atStart, queue, worker, tickVars, isSig,
                       txSample>>
    BY <1>2 DEF Change
  <2>2. air'.steady = FALSE
        /\ air' \in [signal : BOOLEAN, count : Nat, steady : BOOLEAN]
    BY <2>1 DEF TypeOK
  <2> QED
    BY <2>1, <2>2 DEF TypeOK, TickInv, ClosedInv, Measured, tickVars
<1>3. ASSUME NEW e \in Event, Timeout(e) PROVE ModemInv'
  <2>1. /\ gui = "open" /\ Len(queue) < MaxQueue /\ queue' = Append(queue, e)
        /\ UNCHANGED <<gui, running, settings, atStart, worker, tickVars,
                       signalVars>>
    BY <1>3 DEF Timeout, windowVars
  <2>2. queue' \in Seq(Event) /\ Len(queue') <= MaxQueue
    <3>1. queue \in Seq(Event)
      BY DEF TypeOK, Event
    <3>2. Append(queue, e) \in Seq(Event) /\ Len(Append(queue, e)) = Len(queue) + 1
          /\ Len(queue) \in Nat
      BY <3>1, AppendProperties, LenProperties
    <3> QED
      BY <2>1, <3>2, Sizes
  <2> QED
    BY <2>1, <2>2, AirKept DEF TypeOK, TickInv, ClosedInv, tickVars,
                              signalVars, Event
<1>4. CASE Exit
  <2>1. /\ gui' = "exiting"
        /\ UNCHANGED <<running, settings, atStart, queue, worker, tickVars,
                       signalVars>>
    BY <1>4 DEF Exit
  <2> QED
    BY <2>1, AirKept DEF TypeOK, TickInv, ClosedInv, tickVars, signalVars
<1>5. CASE Delete
  <2>1. /\ gui' = "closed" /\ worker = "finished"
        /\ UNCHANGED <<running, settings, atStart, queue, worker, tickVars,
                       signalVars>>
    BY <1>5 DEF Delete
  <2> QED
    BY <2>1, AirKept DEF TypeOK, TickInv, ClosedInv, tickVars, signalVars
<1> QED
  BY <1>1, <1>2, <1>3, <1>4, <1>5 DEF Window, Event

(* An event is taken.                                                      *)
LEMMA QueueTaken ==
  ASSUME TypeOK, queue # <<>>, queue' = Tail(queue)
  PROVE  queue' \in Seq(Event) /\ Len(queue') <= MaxQueue
<1>1. queue \in Seq(Event) /\ Len(queue) <= MaxQueue
  BY DEF TypeOK, Event
<1>2. Tail(queue) \in Seq(Event) /\ Len(Tail(queue)) = Len(queue) - 1
      /\ Len(queue) \in Nat
  BY <1>1, HeadTailProperties, LenProperties
<1> QED
  BY <1>1, <1>2, Sizes

(* A package that is not generated.                                        *)
LEMMA PackageSkipped ==
  ASSUME ModemInv, worker = "package", idxPackage' = idxPackage + 1,
         air' = Unmeasured,
         UNCHANGED <<windowVars, atStart, queue, worker, read, generator,
                     place, idxSample, isSig, txSample>>
  PROVE  ModemInv'
<1>1. /\ air'.steady = FALSE
      /\ air' \in [signal : BOOLEAN, count : Nat, steady : BOOLEAN]
  BY DEF Unmeasured
<1>2. idxPackage' \in Nat
  BY DEF ModemInv, TypeOK
<1> QED
  BY <1>1, <1>2 DEF ModemInv, TypeOK, TickInv, ClosedInv, Measured, windowVars

LEMMA BeginTickKeeps ==
  ASSUME ModemInv, BeginTick
  PROVE  ModemInv'
<1>1. /\ worker = "loop" /\ queue # <<>>
      /\ queue' = Tail(queue) /\ worker' = "package" /\ idxPackage' = 0
      /\ read' = settings /\ place' = 0
      /\ generator' = IF settings.on THEN settings.type ELSE "none"
      /\ UNCHANGED <<windowVars, atStart, idxSample, signalVars>>
  BY DEF BeginTick
<1>2. queue' \in Seq(Event) /\ Len(queue') <= MaxQueue
  BY <1>1, QueueTaken DEF ModemInv
<1>3. settings \in Settings
  BY DEF ModemInv, TypeOK
<1>4. settings.type \in {"FSK", "MSK"} /\ settings.len \in Nat \ {0}
  BY <1>3, SettingFields
<1>5. TypeOK'
  BY <1>1, <1>2, <1>3, <1>4
     DEF ModemInv, TypeOK, windowVars, signalVars, Event
<1>6. TickInv' /\ ClosedInv'
  BY <1>1, <1>4 DEF ModemInv, TickInv, ClosedInv, windowVars
<1>7. Measured'
  BY <1>1 DEF ModemInv, Measured, windowVars, signalVars
<1> QED
  BY <1>5, <1>6, <1>7 DEF ModemInv

(* The lengths of the stretch at hand after a sample.                      *)
LEMMA SampleMeasured ==
  ASSUME ModemInv, worker = "sample", txSample' = NextTx, air' = NextAir,
         isSig' = (isSig \/ txSample + 1 >= read.delay),
         UNCHANGED <<settings, read>>
  PROVE  Measured'
<1> DEFINE len == read.len
           gap == read.gap
           period == len + gap
           tx == (txSample + 1) % period
<1>1. /\ read \in Settings /\ txSample \in Nat /\ read.on
      /\ air \in [signal : BOOLEAN, count : Nat, steady : BOOLEAN]
  BY DEF ModemInv, TypeOK, TickInv
<1>2. len \in Nat \ {0} /\ gap \in Nat
  BY <1>1, SettingFields
<1>3. period \in Nat \ {0}
  BY <1>2
<1>4. /\ txSample + 1 < period => tx = txSample + 1
      /\ txSample + 1 = period => tx = 0
  BY <1>1, <1>3, CountAround
<1>5. isSig => txSample' = tx /\ isSig'
  BY DEF NextTx
<1>6. air.steady =>
        /\ isSig /\ settings = read /\ settings.on
        /\ air.signal => /\ air.count \in 1 .. len
                         /\ txSample = IF air.count = period THEN 0 ELSE air.count
        /\ ~air.signal => /\ air.count \in 1 .. gap
                          /\ txSample = IF air.count = gap
                                          THEN 0 ELSE len + air.count
  BY DEF ModemInv, Measured
<1>7. /\ InFrame <=> isSig /\ txSample < len
      /\ InFrame \in BOOLEAN
  BY DEF InFrame, ModemInv, TypeOK
<1>8. StretchBegins <=> air.signal # InFrame \/ (InFrame /\ txSample = 0)
  BY DEF StretchBegins
<1> DEFINE MeasuredNext ==
      /\ isSig' /\ settings' = read' /\ settings'.on
      /\ air'.signal => /\ air'.count \in 1 .. len
                        /\ txSample' = IF air'.count = period
                                         THEN 0 ELSE air'.count
      /\ ~air'.signal => /\ air'.count \in 1 .. gap
                         /\ txSample' = IF air'.count = gap
                                          THEN 0 ELSE len + air'.count
<1>9. SUFFICES ASSUME air'.steady PROVE MeasuredNext
  BY DEF Measured
<1> HIDE DEF tx, period, len, gap
<1>10. CASE ~StretchBegins
  <2>1. air' = [air EXCEPT !.count = @ + 1]
    BY <1>10 DEF NextAir
  <2>2. /\ air'.signal = air.signal /\ air'.count = air.count + 1
        /\ air.steady
    BY <1>1, <1>9, <2>1
  <2>3. isSig /\ settings = read /\ settings.on /\ txSample' = tx
    BY <1>5, <1>6, <2>2
  <2>4. CASE air.signal
    <3>1. txSample < len /\ txSample # 0
      BY <1>7, <1>8, <1>10, <2>4
    <3>2. air.count = txSample /\ air.count \in 1 .. len
      BY <1>6, <2>2, <2>4, <3>1
    <3>3. tx = IF txSample + 1 = period THEN 0 ELSE txSample + 1
      BY <1>1, <1>2, <1>4, <3>1 DEF period
    <3> QED
      BY <1>1, <1>2, <1>5, <2>2, <2>3, <2>4, <3>1, <3>2, <3>3
  <2>5. CASE ~air.signal
    <3>1. /\ ~(txSample < len) /\ air.count \in 1 .. gap
          /\ txSample = IF air.count = gap THEN 0 ELSE len + air.count
      BY <1>6, <1>7, <1>8, <1>10, <2>2, <2>5
    <3>2. air.count < gap /\ txSample = len + air.count
      BY <1>2, <3>1
    <3>3. tx = IF air.count + 1 = gap THEN 0 ELSE len + (air.count + 1)
      BY <1>1, <1>2, <1>4, <3>1, <3>2 DEF period
    <3> QED
      BY <1>1, <1>2, <1>5, <2>2, <2>3, <2>5, <3>2, <3>3
  <2> QED
    BY <2>4, <2>5
<1>11. CASE StretchBegins
  <2>1. air' = [signal |-> InFrame, count |-> 1,
                steady |-> IF InFrame THEN txSample = 0 /\ settings = read
                                      ELSE air.steady]
    BY <1>11 DEF NextAir
  <2>2. CASE InFrame
    <3>1. air'.signal /\ air'.count = 1 /\ txSample = 0 /\ settings = read
      <4>1. /\ air'.signal = InFrame /\ air'.count = 1
            /\ air'.steady = (txSample = 0 /\ settings = read)
        BY <2>1, <2>2
      <4> QED
        BY <1>9, <2>2, <4>1
    <3>2. isSig
      BY <1>7, <2>2
    <3>3. tx = IF 1 = period THEN 0 ELSE 1
      BY <1>2, <1>4, <3>1 DEF period
    <3> QED
      BY <1>1, <1>2, <1>5, <3>1, <3>2, <3>3
  <2>3. CASE ~InFrame
    <3>1. ~air'.signal /\ air'.count = 1 /\ air.steady /\ air.signal
      <4>1. /\ air'.signal = InFrame /\ air'.count = 1
            /\ air'.steady = air.steady
        BY <2>1, <2>3
      <4>2. air.signal \in BOOLEAN
        BY <1>1
      <4> QED
        BY <1>7, <1>8, <1>9, <1>11, <2>3, <4>1, <4>2
    <3>2. isSig /\ settings = read /\ settings.on /\ ~(txSample < len)
      BY <1>6, <1>7, <2>3, <3>1
    <3>3. txSample = len /\ gap # 0
      <4>1. /\ air.count \in 1 .. len
            /\ txSample = IF air.count = period THEN 0 ELSE air.count
        BY <1>6, <3>1
      <4> QED
        BY <1>2, <3>2, <4>1 DEF period
    <3>4. tx = IF 1 = gap THEN 0 ELSE len + 1
      BY <1>2, <1>4, <3>3 DEF period
    <3> QED
      BY <1>2, <1>5, <3>1, <3>2, <3>3, <3>4
  <2> QED
    BY <2>2, <2>3
<1> QED
  BY <1>10, <1>11

LEMMA SampleKeeps ==
  ASSUME ModemInv, Sample
  PROVE  ModemInv'
<1>1. /\ worker = "sample" /\ txSample' = NextTx /\ air' = NextAir
      /\ isSig' = (isSig \/ txSample + 1 >= read.delay)
      /\ place' = IF InFrame THEN (place + 1) % read.len ELSE place
      /\ \/ /\ idxSample + 1 < PackSize /\ idxSample' = idxSample + 1
            /\ UNCHANGED <<worker, idxPackage>>
         \/ /\ idxSample' = 0 /\ worker' = "package"
            /\ idxPackage' = idxPackage + 1
      /\ UNCHANGED <<windowVars, atStart, queue, read, generator>>
  BY DEF Sample
<1>2. /\ read \in Settings /\ settings \in Settings /\ read.on
      /\ txSample \in Nat /\ place \in Nat /\ place < read.len
      /\ idxSample \in 0 .. PackSize - 1 /\ idxPackage \in Nat
      /\ isSig \in BOOLEAN
      /\ generator = IF read.on THEN read.type ELSE "none"
      /\ air \in [signal : BOOLEAN, count : Nat, steady : BOOLEAN]
  BY <1>1 DEF ModemInv, TypeOK, TickInv
<1>3. /\ read.len \in Nat \ {0} /\ read.gap \in Nat /\ read.delay \in Nat
  BY <1>2, SettingFields
<1>4. NextTx \in Nat
  <2> DEFINE period == read.len + read.gap
  <2>1. period \in Nat \ {0} /\ txSample + 1 \in Nat
    BY <1>2, <1>3
  <2> HIDE DEF period
  <2>2. (txSample + 1) % period \in Nat
    BY <2>1, CountAround
  <2> QED
    BY <2>1, <2>2 DEF NextTx, period
<1>5. place' \in Nat /\ place' < read.len
  <2>1. /\ (place + 1) % read.len \in Nat /\ (place + 1) % read.len < read.len
    BY <1>2, <1>3, CountAround
  <2> QED
    BY <1>1, <1>2, <2>1
<1>6. NextAir \in [signal : BOOLEAN, count : Nat, steady : BOOLEAN]
  <2>1. InFrame \in BOOLEAN
    BY <1>2 DEF InFrame
  <2>2. /\ [air EXCEPT !.count = @ + 1]
             \in [signal : BOOLEAN, count : Nat, steady : BOOLEAN]
        /\ \A b \in BOOLEAN : [signal |-> InFrame, count |-> 1, steady |-> b]
             \in [signal : BOOLEAN, count : Nat, steady : BOOLEAN]
    BY <1>2, <2>1
  <2>3. (IF InFrame THEN txSample = 0 /\ settings = read ELSE air.steady)
          \in BOOLEAN
    BY <1>2
  <2> QED
    BY <2>2, <2>3 DEF NextAir
<1>7. idxSample' \in 0 .. PackSize - 1 /\ idxPackage' \in Nat
  BY <1>1, <1>2, Sizes
<1>8. worker' \in {"package", "sample"} /\ isSig' \in BOOLEAN
  BY <1>1, <1>2
<1>9. TypeOK'
  BY <1>1, <1>2, <1>4, <1>5, <1>6, <1>7, <1>8 DEF ModemInv, TypeOK, windowVars
<1>10. TickInv' /\ ClosedInv'
  BY <1>1, <1>2, <1>5, <1>8 DEF ModemInv, TickInv, ClosedInv, windowVars
<1>11. Measured'
  BY <1>1, SampleMeasured DEF windowVars
<1> QED
  BY <1>9, <1>10, <1>11 DEF ModemInv

LEMMA WorkerKeeps ==
  ASSUME ModemInv, Worker
  PROVE  ModemInv'
<1>1. CASE FirstStatus
  <2>1. atStart' = FALSE
        /\ UNCHANGED <<windowVars, queue, worker, tickVars, signalVars>>
    BY <1>1 DEF FirstStatus
  <2> QED
    BY <2>1, AirKept DEF ModemInv, TypeOK, TickInv, ClosedInv, windowVars,
                         tickVars, signalVars
<1>2. CASE TakeStatus
  <2>1. /\ queue # <<>> /\ queue' = Tail(queue)
        /\ UNCHANGED <<windowVars, atStart, worker, tickVars, signalVars>>
    BY <1>2 DEF TakeStatus
  <2>2. queue' \in Seq(Event) /\ Len(queue') <= MaxQueue
    BY <2>1, QueueTaken DEF ModemInv
  <2> QED
    BY <2>1, <2>2, AirKept DEF ModemInv, TypeOK, TickInv, ClosedInv,
                               windowVars, tickVars, signalVars, Event
<1>3. CASE Generate
  <2>1. /\ worker = "package" /\ settings.on /\ generator = settings.type
        /\ worker' = "sample" /\ idxSample' = 0
        /\ UNCHANGED <<windowVars, atStart, queue, read, generator, place,
                       idxPackage, signalVars>>
    BY <1>3 DEF Generate
  <2>2. settings.type # "none"
    BY SettingFields DEF ModemInv, TypeOK
  <2>3. read.on
    BY <2>1, <2>2 DEF ModemInv, TickInv
  <2>4. idxSample' \in 0 .. PackSize - 1
    BY <2>1, Sizes
  <2> QED
    BY <2>1, <2>3, <2>4, AirKept DEF ModemInv, TypeOK, TickInv, ClosedInv,
                                     windowVars, signalVars
<1>4. CASE Repeat \/ Clear
  BY <1>4, PackageSkipped DEF Repeat, Clear
<1>5. CASE EndTick
  <2>1. /\ worker = "package" /\ worker' = "loop" /\ generator' = "none"
        /\ UNCHANGED <<windowVars, atStart, queue, read, place, idxPackage,
                       idxSample, signalVars>>
    BY <1>5 DEF EndTick
  <2> QED
    BY <2>1, AirKept DEF ModemInv, TypeOK, TickInv, ClosedInv, windowVars,
                         signalVars
<1>6. CASE Finish
  <2>1. /\ worker' = "finished"
        /\ UNCHANGED <<windowVars, atStart, queue, tickVars, signalVars>>
    BY <1>6 DEF Finish
  <2> QED
    BY <2>1, AirKept DEF ModemInv, TypeOK, TickInv, ClosedInv, windowVars,
                         tickVars, signalVars
<1> QED
  BY <1>1, <1>2, <1>3, <1>4, <1>5, <1>6, BeginTickKeeps, SampleKeeps
     DEF Worker

LEMMA Induction == ModemInv /\ [Next]_vars => ModemInv'
<1>1. ASSUME ModemInv, UNCHANGED vars PROVE ModemInv'
  BY <1>1, AirKept DEF ModemInv, TypeOK, TickInv, ClosedInv, vars, windowVars,
                       tickVars, signalVars
<1> QED
  BY <1>1, WindowKeeps, WorkerKeeps DEF Next

-----------------------------------------------------------------------------
(* The transmitter's state is well formed, a tick has its generator, and   *)
(* the stretch on the air is as long as the place in the frame says.       *)
THEOREM ModemInvariant == Spec => []ModemInv
BY Initially, Induction, PTL DEF Spec

(* FramesAndGapsAreWhole: what goes on the air while no setting changes    *)
(* are whole frames and whole gaps, or frame behind frame where the gap is *)
(* 0, over packages, ticks, Stop and Start.                                *)
THEOREM OnlyWholeFrames == Spec => FramesAndGapsAreWhole
<1> DEFINE Whole ==
      air.steady /\ ((Sample /\ StretchBegins) \/ Repeat \/ Clear)
        => air.count = IF air.signal THEN read.len ELSE read.gap
<1>1. ASSUME ModemInv, StretchBegins, air.steady
      PROVE  air.count = IF air.signal THEN read.len ELSE read.gap
  <2>1. read \in Settings /\ txSample \in Nat /\ air.signal \in BOOLEAN
    BY <1>1 DEF ModemInv, TypeOK
  <2>2. read.len \in Nat \ {0} /\ read.gap \in Nat
    BY <2>1, SettingFields
  <2>3. /\ isSig
        /\ air.signal => /\ air.count \in 1 .. read.len
                         /\ txSample = IF air.count = read.len + read.gap
                                         THEN 0 ELSE air.count
        /\ ~air.signal => /\ air.count \in 1 .. read.gap
                          /\ txSample = IF air.count = read.gap
                                          THEN 0 ELSE read.len + air.count
    BY <1>1 DEF ModemInv, Measured
  <2>4. InFrame <=> txSample < read.len
    BY <2>3 DEF InFrame
  <2>5. air.signal # InFrame \/ (InFrame /\ txSample = 0)
    BY <1>1 DEF StretchBegins
  <2>6. CASE air.signal
    <3>1. CASE InFrame
      BY <2>2, <2>3, <2>5, <2>6, <3>1
    <3>2. CASE ~InFrame
      BY <2>1, <2>2, <2>3, <2>4, <2>6, <3>2
    <3> QED
      BY <3>1, <3>2
  <2>7. CASE ~air.signal
    <3>1. InFrame
      BY <2>1, <2>5, <2>7 DEF InFrame
    <3> QED
      BY <2>1, <2>2, <2>3, <2>4, <2>7, <3>1
  <2> QED
    BY <2>6, <2>7
<1>2. ASSUME ModemInv, Repeat \/ Clear, air.steady PROVE FALSE
  <2>1. settings = read /\ settings.on /\ worker = "package"
    BY <1>2 DEF ModemInv, Measured, Repeat, Clear
  <2>2. generator = IF read.on THEN read.type ELSE "none"
    BY <1>2, <2>1 DEF ModemInv, TickInv
  <2>3. generator = settings.type
    BY <2>1, <2>2
  <2> QED
    BY <1>2, <2>1, <2>3 DEF Repeat, Clear
<1>3. ModemInv /\ [Next]_vars => [Whole]_vars
  BY <1>1, <1>2
<1> QED
  BY <1>3, ModemInvariant, PTL DEF Spec, FramesAndGapsAreWhole

(* RepeatsOnlyWhenChanged: a package is sent a second time only when the   *)
(* window has switched the channel on or changed its type since the tick   *)
(* began.                                                                  *)
THEOREM RepeatsFollowChanges == Spec => RepeatsOnlyWhenChanged
<1> DEFINE Follows ==
      Repeat => settings.on # read.on \/ settings.type # read.type
<1>1. ASSUME ModemInv, Repeat
      PROVE  settings.on # read.on \/ settings.type # read.type
  <2>1. /\ settings.on /\ generator # settings.type
        /\ generator = IF read.on THEN read.type ELSE "none"
    BY <1>1 DEF Repeat, ModemInv, TickInv
  <2> QED
    BY <2>1
<1>2. ModemInv /\ [Next]_vars => [Follows]_vars
  BY <1>1
<1> QED
  BY <1>2, ModemInvariant, PTL DEF Spec, RepeatsOnlyWhenChanged

(* The part of CloseEnds that is a safety property: the settings are not   *)
(* deleted before the worker has finished with them.                       *)
THEOREM SettingsOutliveWorker ==
  Spec => [](gui = "closed" => worker = "finished")
<1>1. ModemInv => ClosedInv
  BY DEF ModemInv
<1> QED
  BY <1>1, ModemInvariant, PTL DEF ClosedInv
=============================================================================
