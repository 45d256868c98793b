# vlf: specifications and proofs

TLA+ specifications of the VLF receiver (`src/src/app`) and of its transmitter
simulator (`src/src/udp_modem`). All paths below are relative to
`src/src`; `vlfchannel.cpp` and the like are in `app/`.

## 1. The system

`vlf_rx` receives UDP datagrams from a receiver front end: *status packages*
(device settings) and *business packages* (256 samples of one channel). A
receiver thread sorts them; one thread per channel splits the samples into 334
narrow sub-channels and looks for signals in each; the GUI thread shows spectra.
`udp_mod` plays the front end: it sends status packages on one timer and
business packages with modulated samples on another.

| component | state | operations | talks to |
|---|---|---|---|
| `MainWindow` (`mainwindow.cpp`) | the threads, the receiver, the channels | constructor: create, configure, start; destructor: exit and wait, receiver first | all |
| Receiver (`vlfabstractreceiver.cpp`, `VLFUdpReceiver.cpp`) | the socket, `m_config` (device settings) | `startReceiving`, `slot_receiver_readyRead`, `process_package`, `set_vlf_config` | channels: queue and queued signals |
| Package queue (`readerwriterqueue/`) | a ring of blocks of slots, two threads' copies of its indices | `try_enqueue` (receiver), `try_dequeue` (channel) | lock-free, one producer, one consumer |
| Circular buffer (`liquid/src/buffer`) | ring, read and write index, a tail for reads across the end | `push`, `read`, `release` | the sample path |
| `VLFChannel`, acceptance (`vlfchannel.cpp:155-205`) | `d_info`, `ch_info`, `last_channel_params`, `last_udp_idx` | device, config and business slots | |
| `VLFChannel`, file clock (`208-272`) and `BufferedWriter.h` | `current_datetime`, `last_datetime`, file name, `m_buffer` | date and name per package, `setDir`, `setFile`, `write` | file system |
| `VLFChannel`, sample path (`275-418`, `540-543`) | circular buffers `chlza_inbuf`, `chlzb_inbuf`, `fft_inbuf`, `ch_inbuf` | push, two channelizer stages, window release | plotter: signals |
| `VLFChannel`, detection (`421-536`), `findmid.c` | `subch_energy`, `subch_flag`, `subch_state` | energies, noise by `quickselect`, flag and state | |
| `VLFReceiverConfig`, `udp_wave_config` | settings, JSON file | load, default, save in the destructor | receiver; transmitter's window |
| `FreqPlotter`, `RangeSlider` | FFT size, average ring, ranges, frame timer; slider values | `plot_freq`, `set_*`, mouse | channels, GUI |
| `udp_mod` worker and widget | package index, timers, posted ticks, place in the frame; selected row, controls, frequency lock | status tick, business tick, start, stop; row, frequency, rate, type, on and off | network, configuration |
| modulators `fsk_vlf.c`, `msk_vlf.c` | position in the frame | `modulate` | |

Vendored (liquid-dsp, FFTW, QCustomPlot, moodycamel) and generated code
(`fdacoefs.h`) is outside, except where the program's correctness rests on how
it uses it: the package queue and liquid's circular buffer.

What is hard here, and what correctness means:

- *Two queues to one channel.* Packages travel in `m_queue`, device settings and
  the announcements of packages as Qt events. The slot takes one package per
  event, so events and packages must match one to one, and a package must meet
  the settings it came under.
- *Start and stop.* The receiver uses channels through raw pointers, from its
  own thread; the destructor stops four threads with two calls each.
- *Counts that must agree.* Five levels of buffers with sizes 256, 8, 80, 512,
  65536, whose refusals nobody looks at, and a running index over 334 vectors.
- *Order inside one loop.* The detection judges sub-channels against neighbours
  that are partly from this window and partly from the last.
- *Package order on the wire.* Indices wrap at 2^32; late, duplicated and lost
  packages; a restarted sender.
- *Files and dates.* A date that must change at midnight from a time of day
  alone; file names in steps of ten seconds; a writer whose buffer must not
  outlive the file it was filled for.
- *A queue without a lock.* Each thread decides on an old copy of the other's
  index, and an element that opens a new block is published by two stores.
- *Settings that outlive the program.* A file is truncated before it is written,
  nobody looks whether loading or saving worked, and controls that show a
  setting write it back when they change.

## 2. Plan

Built, each model with the proofs about it:

1. `Dispatch`: the threads and the two queues (the core); `DispatchProofs`.
2. `Channelizer`: the sample path with the program's own sizes.
3. `SignalDetect`: the detection, and `QuickSelect`, the selection behind its
   noise; `SignalDetectProofs`.
4. `UdpOrder`: the sender's index, the network, the late-package filter;
   `UdpOrderProofs`.
5. `RecordClock`: date, file name and directory per package; `BufferedWriter`:
   from the name to the file. `ChannelProofs` is about 2 and 5.
6. `FreqPlotter`, which implements `SlidingAverage`; `RangeSlider`; `PlotWindow`
   composes the two as the receiver's window does; `PlotProofs`.
7. `ModemTx`: the transmitter's timers, ticks, settings and signal;
   `ModemProofs`.
8. `Fifo`, implemented by `ReaderWriterQueue` and by `CBuffer`; `SampleStream`
   composes the two: the chain that `Dispatch` takes for a sequence and
   `Channelizer` for a number; `SampleStreamProofs`.
9. `ConfigStore`: both programs' settings and their file; `WaveTable` composes
   it with the transmitter's controls; `ConfigStoreProofs`.

Every safety property and every refinement that a run checks is proved. Left,
in this order:

10. One theorem for the whole way of a package: `UdpOrder`'s filter, `Dispatch`
    and `SampleStream` rest on each other's results, each as a theorem of its own
    module; their composition is argued in the text only.
11. In `ModemTx` more than one channel per tick.

## 3. Modules and their correspondence to the code

### Dispatch

Actors and their program positions:

- GUI thread: `main` and the loop index `k`. `SetVlfConfig` is the last part of
  the constructor before the threads start, `StartChannel` and `StartReceiver`
  its loop and last lines; `ExitReceiver`, `JoinReceiver`, `ExitChannel`,
  `JoinChannel`, `Close` are the statements of the destructor. A `wait()` is an
  action enabled once the thread has finished.
- Receiver thread: `recvPc`. `loop` is its event loop, `drain` the loop of
  `slot_receiver_readyRead`, `emit` the point in `process_package` between
  `try_enqueue` and the signal. These are two steps because the channel's thread
  runs in between. So it is with a status package: `ReceiveStatus` keeps the
  settings, and in `notify` the emit posts them to one channel after the other
  (`NotifyChannel`). `StartReceiving` may fail to bind; nobody tries again.
- Channel threads: `chThread[c]`, one action per slot. A slot runs to its end
  on its thread; what it does with a package's samples touches only that
  thread's state and is modelled in `Channelizer` and `SignalDetect`.
- Network: `Arrive` delivers any datagram of `Traffic`, or loses it when the
  socket is not bound or full.

`events[c]` is the posted-event queue of the channel's thread: Qt delivers
queued signals of one sender thread to one receiver in posting order.
`queue[c]` is `m_queue`, a FIFO (`ReaderWriterQueue` is the queue itself):
`try_enqueue` never allocates and fails when full.
A queued package, a business event and an event's `dev`
carry history (settings at the time, number of the package), used by the
properties only.

What is abstracted: the fields of a package the filters do not read, the
decoding of a status package (a member of `Devices`), and the index `idx_ch`
of a business package, which is taken to name a channel that exists: the code
does not check it.

### Channelizer

A circular buffer is its number of samples (`CBuffer` is the buffer itself);
`Pushed` is liquid's refusal. The
actions follow the slot from line 275: `Unpack`, `PlotIf`, `AnalyseFirst` (one
turn of the loop), `AnalyseSecond` (one turn for one of the five buffers),
`Measure` (step 4, with the release). `OutBins` lists the outputs each second
stage keeps, in push order, and `Unit` the frequency of an output, so that
`unit[i]` says what sub-channel `i` really carries. The second-stage loops for
buffers 0, 1 to 3 and 4 are three loops in the code, one action here.

### SignalDetect

`Measure` is the arrival of one window for every sub-channel (that they arrive
together is `Channelizer`'s `InStep`), `Judge` one turn of the detection's
loop. Energies are whole steps of `StepDb` decibels; noise is the energy of a
fixed rank, 133 of 334 in the code; `LevelSnr` is the rounded-up third of the
excess. `standing` and `windows` are history.

### QuickSelect

`findmid.c` step by step on the copy of the energies: `Partition`, a `Scan` per
turn of its loop, `Place` for the pivot, `Compare` for the recursion, which is a
tail call and a loop here. `RankSelected` is the definition of a rank that
`SignalDetect` uses for its noise (`HasRank`). A NaN is left out.

### UdpOrder

`Send` is one package of `udp_tx_business` (a tick sends several, one after
another), with the skipped index 0 and the wrap at `Modulus`. The network is a
set of packages: any of them arrives next, arriving may leave a copy, any may be
lost, and none arrives after `Delay` later ones were sent (`Delay` packages
later it is gone). `Outage` bounds how far the sender runs ahead of everything
that has arrived. These two are properties of the environment. `Restart`
is the transmitter program started again: its index begins anew, the
receiver keeps `last_udp_idx`. `Receive` is the filter at the head of the
business slot, `Late` its condition, with unsigned numbers. A package's number
`no`, `high`, `newest`, `start` and `dropped` are history.

### RecordClock

A point in time is a number of seconds. `SetDate` is the date from a status
package, `Package(t)` the part of the business slot from line 206 to 255:
the time is set, the directory is made from the date, the first
package with a date sets `last_datetime` (`Start`), and `NewLast` and `NewDate`
bring file and date up to it. Division is C++'s, towards zero. What the time
loses on its way (`toUInt` reads the fraction's four binary bytes as decimal
digits) is taken as lost. Whether something is written is decided behind an
`if (0)` and is left out.

### BufferedWriter

One action per method of the class, for any caller: `SetDir` (which may fail to
make the directory), `SetFile` (flush, close, open, each of which may fail),
`Write` (cut off at the buffer's size, flushed when full), and `Reopen` for the
destructor and the next run, which appends. Bytes are numbered; `owner` and
`failed` are history. The program calls `setDir` and `setFile` for every package
and `write` never, so the writer is modelled by itself.

### FreqPlotter and SlidingAverage

`FreqPlotter` has one action per setter that the GUI calls and `PlotFreq` for a
frame. A frame is one level for all its bins, the ring `avg_buffer` an array of
levels, `sum` what is left of `sum_vector` when the loop has subtracted and
added. A frame that comes too soon after the last one changes nothing, so time
is left out. `SpectrumReads` and `WaterfallReads` are the indices the drawing
loops use; waterfall columns are spread over the range with `lround`.
`SlidingAverage` is a window of the last frames, their sum and a length;
`FreqPlotter` implements it with the used part of the ring as the window.
A change of size or mode turns the frames in it into zeros.

### RangeSlider and PlotWindow

`RangeSlider` has the mouse's three events and the change of the widget's width.
Values and pixels are integers and rounded where the code rounds; `delta` is the
grip on the handle; `PressSets` and `DragSets` are the value an event sets, which
the listeners are told. `PlotWindow` composes the slider with the wideband
plotter as `mainwindow.cpp:15-73` connects them: `Follow` turns a value into a
bin of the FFT size of the moment, and the plotter refuses an empty range
without telling the slider.

### ModemTx

The window's actions are `Start`, `Stop`, `Change` (any slot that changes the
channel's settings), `Timeout` (a timer posts a call to the worker), `Exit` and
`Delete` (the destructor before and after its `wait()`). The worker takes
posted calls in order (those of the batch that is being delivered when `exit()`
is called are still handled, hence any number of them before `Finish`):
`BeginTick` is `udp_tx_business` up to its loop, then each
package is one of `Generate`, `Repeat` and `Clear`, `Generate` is followed by a
`Sample` for each sample, `EndTick` and `Finish` end a tick and the thread.
One channel is modelled: channels share a tick and nothing else, except that the
first one's sample rate gives the number of packages. A setting holds lengths in
samples, as the tick computes them; delay and gap may be 0, which their spin
boxes allow, and with a gap of 0 one frame follows the other (`StretchBegins`).
A frame has samples: rates and symbol rates are chosen from lists. `BeginTick`
reads a setting in one step; since the window changes its parts one by one, every mixture a slower read could see is a
setting of its own. What a package's two look-ups of on and type see in between
is what they see when the channel is off for a moment. `air` is history: whether
the last sample was signal, for how many samples, and whether the stretch is
worth measuring.

### Fifo, ReaderWriterQueue, CBuffer and SampleStream

`Fifo` is a sequence and what was taken last. `ReaderWriterQueue` is
`try_enqueue` and `try_dequeue` access by access: a step makes at most one
access to what the other thread writes, and the fences are taken to give the
order written. `FindRoom` to `AdvanceTail` are the producer, `Look` to
`ReturnSlot` the consumer; `ShapeFor` is the constructor's choice of blocks.
`Items` maps it to `Fifo`: elements are numbered, so its items are the numbers
above `taken`. `had` and `found`, the lengths a call began with, are history.
`CBuffer` is liquid's ring with its longer array: `Read` copies the ring's
beginning behind its end when a window crosses it (`ArrayToRead`). `Contents`
maps it to `Fifo`. `SampleStream` runs the receiver's `Enqueue` against the
channel's slot: take a package, push its samples, and while there is a whole
block read it, process it, release it. Packages not in `Passing` are those the
slot drops (closed, short, other parameters, late); which ones is `Dispatch`'s
and `UdpOrder`'s. `stream` is history: the samples of the others. Out of its
properties follow what `Dispatch` and `Channelizer` take for granted.

### ConfigStore and WaveTable

`ConfigStore` is a session of either program over its file: `Create`, `Load` or
`LoadNothing`, `Use` of the entries (undefined when there are too few), the end
(`Exit`, `Joined`), and a save in three steps: `Compose` makes the document of
the configuration of the moment (`doc`), `OpenForWriting` truncates the file, and
`WriteOut` writes the document. `Crash` is possible at each of them, `EditFile` is
the user's editor, the only way to set a receiver's channels. `wanted` (the
entries last set, known unless something happened that loses them, and known
again when a session has saved what it had) and `ended` are history.
`WaveTable` adds the transmitter's controls: `SelectRow` is
`slot_tableWidget_cell_clicked` with the slots its assignments call, `FinishFreq`
the frequency's way from the value typed over the grid (`Snapped`) and the cut
to Hz (`Hz`) to the comparison with the other channels. A change of the rate is
written into the table for every wave of the configuration; with more waves than
rows (`HasItems`) the code uses a null pointer there, and what follows is a
`Crash`.

## 4. Runs

| run | question | instance | states |
|---|---|---|---|
| `Dispatch` | safety of every interleaving from constructor to destructor; are packages taken, does closing end the program | 2 channels (one not open), queue 2, socket 2, 4 datagrams out of 6 | 449 989 |
| `Channelizer` | are samples lost, misplaced or out of step | the real sizes, 1300 packages | 57 201 |
| `SignalDetect` | who is reported when; does quickselect find the rank | 4 sub-channels, 33 vectors of 3 energies, 5 windows; arrays of 5 with 3 values, any rank | 2 347 701 |
| `UdpOrder` | which packages pass the filter out of order, which are lost | 16 indices, window 4, delay 2, outage 9, 34 packages, 2 restarts | 2 479 027 |
| `RecordClock` | in which file and directory is a package recorded; in which file does a byte end | days of 24 s, files of 4 s, 3 dates and the invalid one; 2 directories, 2 names, a buffer of 3, 5 bytes | 733 880 |
| `Midnight` | does the date go up at midnight | the clock of `RecordClock`; violated | |
| `Plot` | is the sum shown that of the last frames, is the shown range valid, are its bins there, do the slider's handles pass each other | ring of 3, frames of 5 bins, 9 sizes, 3 modes, bounds -7 .. 7; slider 0 .. 6, handles of 3 pixels, widths 12 and 17 | 157 914 |
| `PlotTwice` | is a frame that passes the check long enough | `Plot`'s window with size 10; violated | |
| `ModemTx` | lengths on the air, effect of Stop and of closing | 5 settings, one without a gap, packages of 2 samples, ticks of 1 or 2, 2 posted ticks | 164 472 |
| `ModemFrame` | is a frame on the air one frame | 1 setting, a frame longer than a tick; violated | |
| `SampleStream` | are queue and circular buffer FIFOs, does the reader get the stream | 11 packages of 2 samples, 3 of them dropped, one block of 4 slots or five of 2, a ring of 5, reads of 3 | 660 383 |
| `ConfigStore` | which settings survive, do controls, table and file agree | 2 channels, 3 frequencies, 2 rates, 2 types, 3 changes a session, 2 or 3 files by hand | 1 639 001 |

Bounds and why they are enough. `Dispatch`: a queue of two that runs full and
empties, a socket buffer that overflows, two status changes between packages,
two channels so that the destructor's loop has a channel running and one
finished; four datagrams suffice to fill both queues and to change the settings
in between; one index suffices, as the filter is `UdpOrder`'s. The proofs cover
every other size. `Channelizer`: nothing is scaled;
the state repeats after 1280 packages, which is also the first full window, and
the wideband buffer first fills at package 256. `SignalDetect`: two edges and
two inner sub-channels; the thresholds 15, 10, 5 are scaled to 5, 3, 1 so that
five windows contain a silence, a report and its end; of the energy vectors
those are taken in which at least two of the four are quiet, because noise is a
low rank. Arrays of five have pivots at both ends and in the middle of the part
that is left, with and without equal elements; the proof covers every other size. `UdpOrder`: indices wrap after 15 packages, so 34 wrap twice, with or
without the restarts in between; the outage is the largest `OrderAssumption`
allows (with one more the run fails), and the bounds of the properties are tight.
`RecordClock`: a day of two minutes of three files has every position of a
package in its minute, file and day; three dates allow the next day, a leap over
a day and dates set back. The writer's buffer is filled exactly and with a
remainder, and every file is left and come back to. `Plot`: sizes of both
parities below, at and above the one that fits the frame, ranges beyond both
ends; a widget with fewer and one with more pixels than values. A behaviour of
`Plot`, `SignalDetect` and `RecordClock` is driven by one of two (`driver`): the
plotter by any caller or by the window, which adds the two state spaces
instead of multiplying them; the detection and the selection, the clock and the
writer share no state. `ModemTx`: frames and
gaps begin and end at every place of a package and of a tick; the settings
differ in type, delay, lengths and packages of a tick, and one is off.
`SampleStream`: one block, the program's case, and more blocks than two, each
with the fewest slots, so that blocks are opened, left and come back to; eleven
packages go twice around either ring, and the sixteen samples of the eight that
are not dropped begin blocks at every place of theirs; one package is dropped by
itself and two in a row. `ConfigStore`: two channels for every comparison of one
with another; a frequency that is cut off to another's, on and off the grid; files with as
many entries as needed, with fewer and with more.

`MaxSent`, `MaxPackages`, `MaxWindows`, `MaxBytes` and `MaxChanges` are the bounds
on counters. They let a
run stop, hence `CHECK_DEADLOCK FALSE`; the program also stops by itself in
`Dispatch` (`main = "closed"`).

`MaxRestarts` bounds restarts of the sender, `MaxQueue` the posted ticks.

Fairness (`Dispatch`): weak fairness of the GUI thread's own steps, of the
receiver's and of each channel's. They are threads of their own with nothing to
starve them, each step enabled until it is taken. Closing the window and the
arrival of datagrams are not fair. `ShutdownEnds` holds because traffic is
finite: the drain loop of `slot_receiver_readyRead` asks for pending datagrams
only and never for the exit flag, so with a front end that sends faster than
the receiver reads, `recv_thread->wait()` would not return. What `ShutdownEnds`
checks is therefore the order of exits and waits, for a front end that pauses;
the endless loop is beyond it.

Fairness (`ModemTx`): weak fairness of the worker's thread, which is never
blocked, and of the destructor's last step. The timers and the user are not
fair. After Stop no tick is posted any more and the worker works off those that
are; after `exit()` it finishes the tick at hand and at most those that are
posted already.

## 5. Proofs

The assumptions are named `ASSUME`s of the modules, evaluated by the runs; where
one is more than a type, it is said below what in the code it comes from.

`DispatchProofs`, for any number of channels, capacity, traffic and package
filter (`DispatchAssumption`, `TrafficAssumption`): type correctness and all
safety properties of the run `Dispatch`. Their invariants are not inductive: that
a package has an event says nothing about the order of the events. The
inductive invariant `IInv` is

- `PhaseInv`: which threads can be in which state at each point of the GUI
  thread's program;
- for each channel that is not destroyed, with `ev` its posted events:
  `Linked` (its business events announce, in order, exactly the packages
  `taken + 1 .. taken + Len(queue)`, less the one being announced), `Chained`
  (each event carries the settings reached by following the device events
  before it, from `d_info` to the receiver's, or, by `Leads`, to any while the
  receiver's are still to be posted to this channel), `Stamped` (an event and the
  package it announces carry the same settings), `ConfigAhead` (a channel that
  is not configured has its configuration event before any business event).

Each is a lemma per operation on a sequence (`AppendLinked`, `TakeLinked`, ...),
then a step lemma per thread.
`NoLostWakeup` and `NoIdleWakeup` are the two halves of `Linked`: no package
without an event and no event without a package.

`SampleStreamProofs`, for a ring of any number of blocks and slots, any number of
elements and any interleaving of the two threads' accesses: `SlotsAreExclusive`,
`BlocksAsAsserted`, `FailsOnlyAtALimit` and `QueueIsFifo`. The inductive invariant
`QueueInv` is `BlocksInv` (only the blocks from the front block to the tail block
hold anything, those between are full, and of those only the front block may be
empty),
`DataInv` (what lies between front and tail of these blocks is numbered on from
`taken` without a gap, up to `sent`), `CopyInv` (a copy of the other thread's
index lies between the own index and the real one, going round the ring: an old
copy makes a thread refuse too early and never too late), and `ProducerInv` and
`ConsumerInv` (what a thread has found out on its way is still true when it
acts on it, although the other one went on). `QueueIsFifo` is the refinement,
step by step: the producer's publishing store is `Put`, the consumer's move is
`Take`, every other access is invisible. `QueueAssumption` is what the
constructor does (`readerwriterqueue.h`): a block of at least two slots, and
enough blocks for the size it was asked for.

The same module, for packages, blocks, reads and rings of any size that satisfy
`StreamAssumption`: `BlocksAreTheStream` and `BufferIsFifo`. `ChainInv` adds to
`QueueInv` the ring's indices and that the buffer holds the samples that follow
those that were read: `read + num` samples are the whole `stream`, or all of it
but what is still to be pushed of its last package. `StreamIs` says that the
stream is the samples of the packages that are not dropped, in order, for any
`Passing`. Hence the buffer never refuses a sample if it has room for a package behind
less than a block, which is the assumption and holds for the program's sizes
(`vlfchannel.cpp:92`). `ChainRunsQueue` takes the queue's theorems over to the
chain.

`ChannelProofs`, for any sizes that satisfy `SizesAssumption`: `NoSampleLost`,
`InStep` and `FrequencyOfSubchannel`. Everything in the sample path follows from
four numbers (`Flow`): a number `u` of samples that each second stage's
buffer has, a number `s` of vectors in each window, a number `w` of windows that
each sub-channel has completed, and, inside the second stage's loop, a number
`d` of stages that are already drained. What is received is what these account
for. `SizesAssumption` asks that the first buffer holds a package behind what is
less than a read, and that a package makes the second stage read once at most;
both hold for the program's sizes (`vlfchannel.cpp:92-109`). The 80 of the second stage is fixed in it because the lists of
outputs in the code (`vlfchannel.cpp:350-418`) are for 80.

It is also about `RecordClock`, for any length of a file, minute and day that
divide each other (`ClockAssumption`): `NameIsNear`, `DirectoryOfTheDay` and
`FilesAdvance`. The invariant is that the file's time stays on the grid of
steps and less than a step from the package's time, also where the package sets
it to an earlier day. And about `BufferedWriter`, for any buffer, paths and
lengths of writes: `BytesReachTheirFile`. The invariant `FilesHold`: each file,
followed by the buffer when it is the open one, is the list in ascending order
of the bytes written for that file that did not fail.

`SignalDetectProofs`, for any number of sub-channels, energies, thresholds and
neighbour range: the properties of the detection. `NoAdjacentSignals` needs
`Hysteresis` (a sub-channel that is not reported is below the upper threshold, so
it can only become reported by collecting points, which needs silent
neighbours); `ReportedOnceDebtIsPaid` needs `DebtInv`, a lower bound on every
flag: at least one point per window of standing out, at most one lost per window.

`SignalDetectProofs` too, for arrays of any size and any numbers:
`RankSelected`. The inductive invariant `SelectInv` is `Permuted` (there is a bijection between the
elements and those that were passed), `Apart` (nothing below `low` is greater
and nothing above `high` smaller than what is between, and the rank is between),
`Scanned` and `Parted` (what the loop has done, where the pivot is) and `Found`.
`FoundHasRank` turns the order of positions into the two cardinalities of
`RankSelected` with an injection for each.

`UdpOrderProofs`, for any range of indices, window, delay and outage that satisfy
`OrderAssumption` (an outage, a delay and the window together are smaller than
the range of the indices): all properties of the run. The filter sees only
indices, the properties are about numbers of packages, and the inductive
invariant says how the two belong together: `SenderInv` (the next index follows
from the packages sent since the indices started), `FlightInv` (what is under
way is recent, and its index is that of its number), `OrderInv` (once something
sent more than a delay after the start was processed, the last index is the
highest package's), `RecentInv` (without a restart the last index belongs to a
package at most a delay behind the newest, which the wrap needs), `CostInv` (each
package dropped after a restart has used up one index of the window below the
last). The step of `Receive` is proved one conjunct at a time; `BehindIsLate` and
`NewestIsFresh` are the state-level content of the two action properties.

`PlotProofs`, for any FFT sizes, frame length, bounds, widths and order of calls:
`RangeInFft`, `ShownBinsAreData` and `HandlesMeet`, of the plotter under any
caller and of the window. `RangeInFft` is proved for the three modes the program
uses (`"upper" \notin Modes`; see section 6 for the fourth), `ShownBinsAreData` for
sizes whose half is not the length of a frame: the run `PlotTwice` shows that it
fails there. The invariants are nearly the properties; the work is arithmetic:
by how much each division rounds, in either direction.

It ends with `SumsLastFrames`, that `FreqPlotter` implements `SlidingAverage`, for
any capacity of the ring, levels and lengths of the average. `AverageInv` says
that the sums are those of the frames in the ring. A list of partial sums of the
frames (`Sums`) turns the loop's subtractions into a difference of two of its
members and gives the list of the window without its oldest frames
(`SumsShift`); `RingShifts` is the same of the ring's indices, `LatestIs` of the
abstract window. That a recursive sum has a value at all, and that it is the
list's, needs induction: `NatSet` is the induction principle for a set of natural
numbers, obtained from the library's theorem on minimal elements of
well-founded relations. Levels are integers; floating-point rounding, by which
the running sums of the code drift, is outside the model.

`ModemProofs`, for any delay and gap, 0 among them, frames of at least a sample,
and any size of a package, of a tick and of the posted ticks
(`SettingsAssumption`): `FramesAndGapsAreWhole` and `RepeatsOnlyWhenChanged`, and
`SettingsOutliveWorker`: the settings are deleted only after the worker's thread
has finished. The invariant `Measured` ties the length of the stretch on the
air to `txSample`, as long as the settings the tick has read are still those of
the window.

`ConfigStoreProofs`, for any configurations, channels and number of changes, and
for the window's actions as well: `SettingsKept` and `SavedIsLast`. Neither is
inductive: `StoreInv` adds what the file may hold on the way (absent until the
first save opens it, torn while it is open, with the entries that were set
before they are used), that the document of a save is that of the configuration,
which no longer changes then, and that the thread that changes the head is alive
only while the program runs or leaves. `SettingsKept` excepts what the code gives
away: a crash between truncating and writing, and a save at the end that fails,
lose what only that session had. It checks how far that goes: nothing else loses
settings, and the next good save ends the loss. For the transmitter's window also `WavesAgree`,
`ControlsShowTheRow` and `ChangesStayLocal`: `TableInv` says that the configuration
and a whole file are well made (as many rows as channels, one rate, no carrier
frequency twice). `FileAssumption` asks this of the default and of what the
user's editor may write (section 6 says what the code does when it is not
so); `TableAssumption` that every frequency has a nearest one on the grid.
`ChangesStayLocal` is about every step of an open window: clicks, entries of
frequency, rate and type, the lock and the boxes, and the store's own steps.

Only model-checked: the liveness properties `EveryPackageTaken` and `ShutdownEnds`
of `Dispatch`, `StopSilences` and `CloseEnds` of `ModemTx` (under fairness, out of
the prover's reach), and the violations of `Midnight`, `PlotTwice` and
`ModemFrame`, which are single behaviours. Type invariants are stated in most
modules and proved as part of the inductive invariants; no run checks them by
themselves.

## 6. Observations on the code

- `vlfchannel.cpp:513`: `std::min(subch_flag[i] - 1, 0)` makes the flag negative
  without a limit and ends a report at the first quiet window, so `NO_SIG_THD`
  never matters. `ReportedOnceDebtIsPaid` states what follows: after n quiet
  windows a weak signal needs up to n windows more to be reported.
- `vlfchannel.cpp:570-578`: the comparisons for the first and last sub-channel
  have no effect.
- `vlfabstractreceiver.cpp:59-61`: `idx_ch` is not compared with the number of
  channels.
- `VLFUdpReceiver.cpp:14-25`: see fairness above.

- `vlfchannel.cpp:239-250`: the correction at midnight never happens (run
  `Midnight`). When a package's time passes midnight, its point in time still
  has the old date, `last_datetime` goes back to the first file of the old day,
  and until the next status package the new day's packages are recorded
  under the old day. When a status package sets the date back shortly
  before, the same lines move the date to a day no status package named.
- `vlfchannel.cpp:553-560`: a second that rounds to a full minute becomes the
  beginning of the same minute, a minute too early; `NameIsNear` holds all the
  same because the package that sets it brings it up to its own time.
- `freqplotter.cpp:299-310`: see run `PlotTwice`. The program's frames have 4097
  bins; with 8194 or 8195 in the FFT size box they pass the check, and the
  waterfall reads bin 4097 of 4097 as soon as the range does not begin at 0.
- `freqplotter.cpp:503`: the comment says at most 100 frames per second; the
  interval of 100 ms it sets for a higher rate means 10.
- `udp_modem_worker.cpp:168-191, 304-307`: see run `ModemFrame`.
- `udp_modem_worker.cpp:336`: a channel whose type is changed or which is switched
  on while a tick runs repeats its last samples until the next tick
  (`RepeatsOnlyWhenChanged`). `wave_type` is a `QString` the two threads share
  without a lock.
- `udp_modem_widget.cpp:99`: a tick at 192 kHz sends 48 packages
  (`udp_modem_worker.cpp:207`), the comment says 96.
- `udp_modem_worker.cpp:346`: a delay of 0 is one sample of silence; the delay is
  obeyed once in the program's life, not after every Start.
- `udp_wave_config.cpp:40-62`: when the file cannot be read the vectors stay empty
  and `init()` indexes them.
- `freqplotter.cpp:580-606`: mode `HALF_UPPER` shows bins that `sum_vector`,
  which begins at 0, does not have; with an FFT size of 2 its range is empty. No
  plotter of the program uses that mode and no run does.
- `freqplotter.cpp:344`: after a change of size the sum begins at zero but is
  divided by the number of frames in the ring, old ones included, so the average
  starts too low for as many frames. `SlidingAverage`'s `Silence` says so.
- `RangeSlider.cpp:179-181`: the left handle's half of an odd side (11) is rounded
  twice, so that it can pass the right handle by a pixel's worth (`HandlesMeet`
  has `PixelWorth` for it).
- `mainwindow.cpp:58`, `freqplotter.cpp:430`: after a change of the FFT size, or when
  the plotter refuses a bound because the range would be empty, the slider and
  the plotter show different ranges until a handle moves.
- `BufferedWriter.h:87-98`: a write that crosses the buffer's end loses its tail
  although the buffer is flushed right after; packages of 1024 bytes never cross
  the end of 262144. `writeInt32` and `writeFloat` (125-143) write past the buffer
  and overtake what is in it. The results of `open` and `write` are ignored, and
  a failed flush empties the buffer all the same.
- `VLFReceiverConfig.cpp:31-37`: a torn file loads nothing and the object's zeros
  are saved over it at the end. `udp_wave_config.cpp:41-56`: a torn file leaves the
  vectors empty, and every start indexes them.
- `VLFReceiverConfig.cpp:111`: a file edited while the program runs is overwritten
  at its end.
- `vlfabstractreceiver.cpp:86-96`: the vector of channels in the file is indexed up
  to the number of channels; a file with fewer is not noticed.
- `udp_modem_widget.cpp:267-296`: selecting a row does not refresh the combo box of
  the symbol rate.
- `udp_modem_widget.cpp:315`: `(int)(kHz * 1000)` loses 1 Hz for 277 of the
  frequencies with three decimals (16002 Hz is the first), none of them on the
  locked grid of 0.3 kHz. Entering and leaving the locked spin box rewrites a
  frequency that is not on the grid.
- `udp_modem_widget.cpp:378`: with more waves in a file edited by hand than the
  table has rows, a change of the rate, which selecting a row may be, uses a null
  item (`HasItems`).
- `VLFUdpReceiver.cpp:39-43`: when the port is taken the receiver says so in the
  log and runs on without ever hearing anything.
- `udp_modem_widget.cpp:371-381`: one combo box sets the rate of all channels; in a
  file edited by hand the rates may differ, and then selecting a row sets all of
  them.
- `vlfchannel.cpp:199`: without a restart but with a wrap of the indices,
  packages from before the wrap pass the filter again behind those after it, for
  as long as they are under way (`OrderExceptAfterStart`).

## 7. Not modelled

The components marked `not_modelled` in `PROJECT.json`, each with its reason; of
those marked `partly` what their note says: the circular buffer's `write` and
`pop` and the queue's allocating `enqueue`, `peek`, `pop` and `size`, which the
program does not call; `writeInt32` and `writeFloat` of the writer; settings that a
slot of their own copies without a condition; the plotter's decibel range, frame
rate, axes and labels; what start, repeat and record time would decide if the
recording were not switched off; memory orders weaker than the queue's
fences give; `findMedian`, which nobody calls; NaN energies; the
filters, transforms and drawing; wording of log output; widgets' layout.
