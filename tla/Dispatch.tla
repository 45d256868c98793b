------------------------------ MODULE Dispatch ------------------------------
(***************************************************************************)
(* The thread structure of vlf_rx.  MainWindow creates one receiver thread *)
(* and one thread per channel; the receiver reads datagrams, forwards the  *)
(* business packages to the channel's single-producer single-consumer      *)
(* queue and posts one Qt event per forwarded package; every channel       *)
(* handles its posted events in order and takes one package per business   *)
(* event; the window's destructor stops the receiver first and then the    *)
(* channels, one by one.                                                   *)
(*                                                                         *)
(* Two queues lead from the receiver to a channel: m_queue (the packages)  *)
(* and the event queue of the channel's thread (device, config and         *)
(* business events).  The properties are about their agreement.            *)
(***************************************************************************)
EXTENDS Integers, Sequences

CONSTANTS
  NumChannels,   \* CHANNEL_COUNT
  QueueCap,      \* packages m_queue holds without allocating (1023)
  SockCap,       \* datagrams the socket buffer holds
  Window,        \* 1 << 10: the distance under which an older index is late
  Devices,       \* device settings (VLFDeviceConfig)
  Unset,         \* the settings before set_vlf_config
  Startup,       \* the settings set_vlf_config sends
  Params,        \* the 16 parameter bytes of a channel or of a package
  ZeroParams,    \* last_channel_params before the first configuration
  ChannelParams, \* what slot_channel_info_update serialises for a channel
  OpenState,     \* open_state in the configuration of a channel
  Indices,       \* udp package indices
  Traffic,       \* the datagrams the network delivers
  MaxSent        \* bound: datagrams that reach the host in one behaviour

Channels == 0 .. NumChannels - 1

ASSUME DispatchAssumption ==
  /\ NumChannels \in Nat \ {0}
  /\ QueueCap \in Nat \ {0}
  /\ SockCap \in Nat \ {0}
  /\ Window \in Nat
  /\ Unset \in Devices /\ Startup \in Devices
  /\ ZeroParams \in Params
  /\ ChannelParams \in [Channels -> Params]
  /\ OpenState \in [Channels -> BOOLEAN]
  /\ Indices \subseteq Nat
  /\ MaxSent \in Nat

(* The bytes of a business package that the filters read; full: it has all *)
(* of its 1076 bytes.                                                      *)
Package == [idx : Indices, par : Params, full : BOOLEAN]

(* What process_package tells apart: a status package, a business package  *)
(* for a channel, and a datagram it ignores.                               *)
Datagram ==
  [kind : {"status"}, dev : Devices]
    \cup [kind : {"business"}, ch : Channels, pkg : Package]
    \cup [kind : {"other"}]

ASSUME TrafficAssumption == Traffic \subseteq Datagram

(* A posted event.  dev is the argument of a device event and history for  *)
(* the others: the receiver's settings when the event was posted.  no is   *)
(* history: which of the channel's packages a business event announces.    *)
Event == [kind : {"device", "config", "business"}, dev : Devices, no : Nat]

(* A queued package with, as history, the receiver's settings when it came. *)
Queued == [pkg : Package, dev : Devices]

VARIABLES
  main,       \* where the GUI thread is in MainWindow's constructor or destructor
  k,          \* its loop index over the channels
  recvPc,     \* where the receiver's thread is
  recvQuit,   \* recv_thread->exit() was called
  bound,      \* the socket: "no", "yes" or, when the bind failed, "failed"
  socket,     \* datagrams the kernel holds for the socket
  target,     \* the channel to post the next event to ("notify", "emit")
  device,     \* m_config->device_config
  chThread,   \* state of every channel's thread
  events,     \* posted events of every channel
  queue,      \* m_queue of every channel
  taken,      \* history: how many packages a channel has dequeued
  d_info,     \* device settings of every channel
  configured, \* slot_channel_info_update has run, ch_info is the file's
  params,     \* last_channel_params
  last,       \* last_udp_idx
  sent        \* datagrams that reached the host (for the bound only)

mainVars    == <<main, k, recvQuit>>
recvVars    == <<recvPc, bound, socket, target, device>>
channelVars == <<d_info, configured, params, last, taken>>
vars == <<mainVars, recvVars, chThread, events, queue, channelVars, sent>>

Init ==
  /\ main = "config" /\ k = 0
  /\ recvPc = "created" /\ recvQuit = FALSE
  /\ bound = "no" /\ socket = <<>> /\ target = 0
  /\ device = Unset
  /\ chThread = [c \in Channels |-> "created"]
  /\ events = [c \in Channels |-> <<>>]
  /\ queue = [c \in Channels |-> <<>>]
  /\ taken = [c \in Channels |-> 0]
  /\ d_info = [c \in Channels |-> Unset]
  /\ configured = [c \in Channels |-> FALSE]
  /\ params = [c \in Channels |-> ZeroParams]
  /\ last = [c \in Channels |-> 0]
  /\ sent = 0

-----------------------------------------------------------------------------
(* GUI thread: the end of MainWindow's constructor, and its destructor.    *)

(* set_vlf_config, before any thread runs: device, then channel settings.  *)
SetVlfConfig ==
  /\ main = "config"
  /\ main' = "startCh" /\ k' = 0
  /\ device' = Startup
  /\ events' = [c \in Channels |->
       Append(Append(events[c], [kind |-> "device", dev |-> Startup, no |-> 0]),
              [kind |-> "config", dev |-> Startup, no |-> 0])]
  /\ UNCHANGED <<recvQuit, recvPc, bound, socket, target, chThread, queue,
                 channelVars, sent>>

StartChannel ==
  /\ main = "startCh" /\ k < NumChannels
  /\ chThread' = [chThread EXCEPT ![k] = "running"]
  /\ k' = k + 1
  /\ UNCHANGED <<main, recvQuit, recvVars, events, queue, channelVars, sent>>

StartReceiver ==
  /\ main = "startCh" /\ k = NumChannels
  /\ main' = "run" /\ recvPc' = "loop"
  /\ UNCHANGED <<k, recvQuit, bound, socket, target, device, chThread, events,
                 queue, channelVars, sent>>

(* The window is closed; the destructor calls recv_thread->exit().         *)
ExitReceiver ==
  /\ main = "run"
  /\ main' = "waitRecv" /\ recvQuit' = TRUE
  /\ UNCHANGED <<k, recvVars, chThread, events, queue, channelVars, sent>>

(* Mutant: exit() without wait().                                          *)
ReceiverAsked == recvQuit
ReceiverStopped == recvPc = "finished"

(* recv_thread->wait() returns.                                            *)
JoinReceiver ==
  /\ main = "waitRecv" /\ ReceiverStopped
  /\ main' = "exitCh" /\ k' = 0
  /\ UNCHANGED <<recvQuit, recvVars, chThread, events, queue, channelVars, sent>>

(* Mutant: wait() before exit().                                           *)
WaitChannelFirst ==
  /\ main = "exitCh" /\ k < NumChannels
  /\ main' = "waitCh"
  /\ UNCHANGED <<k, recvQuit, recvVars, chThread, events, queue, channelVars,
                 sent>>

ExitChannel ==
  /\ main = "exitCh" /\ k < NumChannels
  /\ main' = "waitCh"
  /\ chThread' = [chThread EXCEPT ![k] = "quit"]
  /\ UNCHANGED <<k, recvQuit, recvVars, events, queue, channelVars, sent>>

JoinChannel ==
  /\ main = "waitCh" /\ chThread[k] = "finished"
  /\ main' = "exitCh" /\ k' = k + 1
  /\ UNCHANGED <<recvQuit, recvVars, chThread, events, queue, channelVars, sent>>

Close ==
  /\ main = "exitCh" /\ k = NumChannels
  /\ main' = "closed"
  /\ UNCHANGED <<k, recvQuit, recvVars, chThread, events, queue, channelVars,
                 sent>>

MainStep ==
  \/ SetVlfConfig \/ StartChannel \/ StartReceiver
  \/ JoinReceiver \/ ExitChannel \/ JoinChannel \/ Close

-----------------------------------------------------------------------------
(* Receiver thread.                                                        *)

(* startReceiving, posted once, by the constructor's single-shot timer.  A *)
(* bind that fails is not tried again: the program runs and hears nothing. *)
StartReceiving ==
  /\ recvPc = "loop" /\ bound = "no"
  /\ bound' \in {"yes", "failed"}
  /\ UNCHANGED <<mainVars, recvPc, socket, target, device, chThread, events,
                 queue, channelVars, sent>>

(* The event loop calls slot_receiver_readyRead.                           *)
ReadyRead ==
  /\ recvPc = "loop" /\ socket # <<>>
  /\ recvPc' = "drain"
  /\ UNCHANGED <<mainVars, bound, socket, target, device, chThread, events,
                 queue, channelVars, sent>>

(* Mutant: the receiver writes the channels' settings itself.              *)
ReceiveStatusDirectly ==
  /\ recvPc = "drain" /\ socket # <<>> /\ Head(socket).kind = "status"
  /\ socket' = Tail(socket)
  /\ device' = Head(socket).dev
  /\ d_info' = [c \in Channels |-> device']
  /\ UNCHANGED <<mainVars, recvPc, bound, target, chThread, events, queue,
                 configured, params, last, taken, sent>>

(* Mutant: only the first channel is connected to the device signal.       *)
ReceiveStatusForFirst ==
  /\ recvPc = "drain" /\ socket # <<>> /\ Head(socket).kind = "status"
  /\ socket' = Tail(socket)
  /\ device' = Head(socket).dev
  /\ events' = [events EXCEPT ![0] =
       Append(@, [kind |-> "device", dev |-> device', no |-> 0])]
  /\ UNCHANGED <<mainVars, recvPc, bound, target, chThread, queue, channelVars,
                 sent>>

(* A status package: its settings are kept, field by field; no other       *)
(* thread reads them there before this one has ended.                      *)
ReceiveStatus ==
  /\ recvPc = "drain" /\ socket # <<>> /\ Head(socket).kind = "status"
  /\ socket' = Tail(socket)
  /\ device' = Head(socket).dev
  /\ recvPc' = "notify" /\ target' = 0
  /\ UNCHANGED <<mainVars, bound, chThread, events, queue, channelVars, sent>>

(* The emit posts a copy of them to one connected channel after the other. *)
NotifyChannel ==
  /\ recvPc = "notify"
  /\ events' = [events EXCEPT ![target] =
       Append(@, [kind |-> "device", dev |-> device, no |-> 0])]
  /\ \/ /\ target + 1 < NumChannels
        /\ target' = target + 1 /\ UNCHANGED recvPc
     \/ /\ target + 1 = NumChannels
        /\ recvPc' = "drain" /\ UNCHANGED target
  /\ UNCHANGED <<mainVars, bound, socket, device, chThread, queue, channelVars,
                 sent>>

(* Mutant: the result of try_enqueue is ignored.                           *)
ReceiveBusinessUnchecked ==
  /\ recvPc = "drain" /\ socket # <<>> /\ Head(socket).kind = "business"
  /\ socket' = Tail(socket)
  /\ LET c == Head(socket).ch
         p == [pkg |-> Head(socket).pkg, dev |-> device]
     IN  /\ queue' = IF Len(queue[c]) < QueueCap
                       THEN [queue EXCEPT ![c] = Append(@, p)] ELSE queue
         /\ recvPc' = "emit" /\ target' = c
  /\ UNCHANGED <<mainVars, bound, device, chThread, events, channelVars, sent>>

(* A business package: try_enqueue it in its channel's queue.  With room,  *)
(* the event still has to be posted; without, the package is gone.         *)
ReceiveBusiness ==
  /\ recvPc = "drain" /\ socket # <<>> /\ Head(socket).kind = "business"
  /\ socket' = Tail(socket)
  /\ LET c == Head(socket).ch
         p == [pkg |-> Head(socket).pkg, dev |-> device]
     IN  \/ /\ Len(queue[c]) < QueueCap
            /\ queue' = [queue EXCEPT ![c] = Append(@, p)]
            /\ recvPc' = "emit" /\ target' = c
         \/ /\ Len(queue[c]) >= QueueCap
            /\ UNCHANGED <<queue, recvPc, target>>
  /\ UNCHANGED <<mainVars, bound, device, chThread, events, channelVars, sent>>

ReceiveOther ==
  /\ recvPc = "drain" /\ socket # <<>> /\ Head(socket).kind = "other"
  /\ socket' = Tail(socket)
  /\ UNCHANGED <<mainVars, recvPc, bound, target, device, chThread, events,
                 queue, channelVars, sent>>

(* Mutant: the event is posted only for a queue that was empty.            *)
EmitBusinessWhenEmpty ==
  /\ recvPc = "emit"
  /\ recvPc' = "drain"
  /\ events' = IF Len(queue[target]) > 1 THEN events
       ELSE [events EXCEPT ![target] = Append(@,
              [kind |-> "business", dev |-> device,
               no |-> taken[target] + Len(queue[target])])]
  /\ UNCHANGED <<mainVars, bound, socket, target, device, chThread, queue,
                 channelVars, sent>>

(* m_sender[idx_ch]->emit_signal_business_package_enqueued().              *)
EmitBusiness ==
  /\ recvPc = "emit"
  /\ recvPc' = "drain"
  /\ events' = [events EXCEPT ![target] = Append(@,
       [kind |-> "business", dev |-> device,
        no |-> taken[target] + Len(queue[target])])]
  /\ UNCHANGED <<mainVars, bound, socket, target, device, chThread, queue,
                 channelVars, sent>>

(* No datagram is pending: slot_receiver_readyRead returns.                *)
ReadDone ==
  /\ recvPc = "drain" /\ socket = <<>>
  /\ recvPc' = "loop"
  /\ UNCHANGED <<mainVars, bound, socket, target, device, chThread, events,
                 queue, channelVars, sent>>

(* Only the event loop looks at the exit flag; finish() destroys the       *)
(* receiver and its socket.                                                *)
FinishReceiver ==
  /\ recvPc = "loop" /\ recvQuit
  /\ recvPc' = "finished" /\ bound' = "no" /\ socket' = <<>>
  /\ UNCHANGED <<mainVars, target, device, chThread, events, queue, channelVars,
                 sent>>

ReceiverStep ==
  \/ StartReceiving \/ ReadyRead \/ ReceiveStatus \/ NotifyChannel
  \/ ReceiveBusiness \/ ReceiveOther \/ EmitBusiness \/ ReadDone \/ FinishReceiver

-----------------------------------------------------------------------------
(* Channel threads.                                                        *)

Runs(c) == chThread[c] \in {"running", "quit"}
Handles(c, kind) == Runs(c) /\ events[c] # <<>> /\ Head(events[c]).kind = kind

HandleDevice(c) ==
  /\ Handles(c, "device")
  /\ events' = [events EXCEPT ![c] = Tail(@)]
  /\ d_info' = [d_info EXCEPT ![c] = Head(events[c]).dev]
  /\ UNCHANGED <<mainVars, recvVars, chThread, queue, configured, params, last,
                 taken, sent>>

HandleConfig(c) ==
  /\ Handles(c, "config")
  /\ events' = [events EXCEPT ![c] = Tail(@)]
  /\ configured' = [configured EXCEPT ![c] = TRUE]
  /\ params' = [params EXCEPT ![c] = ChannelParams[c]]
  /\ last' = [last EXCEPT ![c] = 0]
  /\ UNCHANGED <<mainVars, recvVars, chThread, queue, d_info, taken, sent>>

(* ch_info.open_state: true until the configuration arrives.               *)
Open(c) == configured[c] => OpenState[c]

(* The package came late: an index at or shortly before the last one.      *)
Late(idx, lastIdx) == idx <= lastIdx /\ lastIdx - idx < Window

Processes(c, pkg) ==
  Open(c) /\ pkg.full /\ pkg.par = params[c] /\ ~Late(pkg.idx, last[c])

(* slot_business_package_enqueued up to line 203; what it then does with   *)
(* the samples is state of the channel alone.                              *)
HandleBusiness(c) ==
  /\ Handles(c, "business")
  /\ events' = [events EXCEPT ![c] = Tail(@)]
  /\ \/ /\ queue[c] = <<>>
        /\ UNCHANGED <<queue, taken, last>>
     \/ /\ queue[c] # <<>>
        /\ queue' = [queue EXCEPT ![c] = Tail(@)]
        /\ taken' = [taken EXCEPT ![c] = @ + 1]
        /\ last' = IF Processes(c, Head(queue[c]).pkg)
                     THEN [last EXCEPT ![c] = Head(queue[c]).pkg.idx]
                     ELSE last
  /\ UNCHANGED <<mainVars, recvVars, chThread, d_info, configured, params, sent>>

(* The event loop sees the exit flag; finish() runs deleteLater of the     *)
(* channel: its queue and the events still posted to it are gone.          *)
FinishChannel(c) ==
  /\ chThread[c] = "quit"
  /\ chThread' = [chThread EXCEPT ![c] = "finished"]
  /\ events' = [events EXCEPT ![c] = <<>>]
  /\ queue' = [queue EXCEPT ![c] = <<>>]
  /\ UNCHANGED <<mainVars, recvVars, channelVars, sent>>

ChannelStep(c) ==
  HandleDevice(c) \/ HandleConfig(c) \/ HandleBusiness(c) \/ FinishChannel(c)

-----------------------------------------------------------------------------
(* The network: a datagram reaches the host; it is lost when no socket is  *)
(* bound or the socket's buffer is full.                                   *)
Arrive(d) ==
  /\ sent < MaxSent
  /\ sent' = sent + 1
  /\ IF bound = "yes" /\ Len(socket) < SockCap
       THEN socket' = Append(socket, d)
       ELSE UNCHANGED socket
  /\ UNCHANGED <<mainVars, recvPc, bound, target, device, chThread, events,
                 queue, channelVars>>

Next ==
  \/ MainStep \/ ExitReceiver
  \/ ReceiverStep
  \/ \E c \in Channels : ChannelStep(c)
  \/ \E d \in Traffic : Arrive(d)

(* Every thread keeps running; the user need not close the window and the  *)
(* network need not deliver.                                               *)
Fairness ==
  /\ WF_vars(MainStep)
  /\ WF_vars(ReceiverStep)
  /\ \A c \in Channels : WF_vars(ChannelStep(c))

Spec == Init /\ [][Next]_vars /\ Fairness

-----------------------------------------------------------------------------
TypeOK ==
  /\ main \in {"config", "startCh", "run", "waitRecv", "exitCh", "waitCh",
               "closed"}
  /\ k \in 0 .. NumChannels
  /\ main = "waitCh" => k \in Channels
  /\ recvPc \in {"created", "loop", "drain", "notify", "emit", "finished"}
  /\ recvQuit \in BOOLEAN /\ bound \in {"no", "yes", "failed"}
  /\ socket \in Seq(Datagram)
  /\ target \in Channels
  /\ device \in Devices
  /\ chThread \in [Channels -> {"created", "running", "quit", "finished"}]
  /\ events \in [Channels -> Seq(Event)]
  /\ queue \in [Channels -> Seq(Queued)]
  /\ taken \in [Channels -> Nat]
  /\ d_info \in [Channels -> Devices]
  /\ configured \in [Channels -> BOOLEAN]
  /\ params \in [Channels -> Params]
  /\ last \in [Channels -> Nat]
  /\ sent \in Nat

(* The receiver is inside process_package's second half for channel c.     *)
Announcing(c) == recvPc = "emit" /\ target = c
Business(c) == {i \in DOMAIN events[c] : events[c][i].kind = "business"}

(* No lost wake-up (vlfabstractreceiver.cpp:61-63, vlfchannel.cpp:180-185): *)
(* a queued package has a business event on its way to the channel, of its *)
(* own, or the receiver is about to post it.  The slot takes one package   *)
(* per event, so one event too few leaves a package in the queue for ever. *)
NoLostWakeup ==
  \A c \in Channels : \A n \in 1 .. Len(queue[c]) :
    \/ \E i \in Business(c) : events[c][i].no = taken[c] + n
    \/ Announcing(c) /\ n = Len(queue[c])

(* Conversely every business event finds its package: the early return of  *)
(* vlfchannel.cpp:183-185 is never taken.                                  *)
NoIdleWakeup ==
  \A c \in Channels : \A i \in Business(c) :
    events[c][i].no \in taken[c] + 1 .. taken[c] + Len(queue[c])

(* While the receiver can reach the channels, in process_package, none of  *)
(* them is destroyed (mainwindow.cpp:106).                                 *)
NoUseAfterDestroy ==
  recvPc \in {"loop", "drain", "notify", "emit"} =>
    \A c \in Channels : chThread[c] # "finished"

(* A package is processed under exactly the device settings, the date of   *)
(* its file among them, that the receiver held when the package came,      *)
(* although settings and packages reach the channel through two different  *)
(* queues (vlfabstractreceiver.cpp:52, 61-62; vlfchannel.cpp:155, 180), and*)
(* under its channel's configuration (mainwindow.cpp:91-97): before, it    *)
(* would be judged by the constructor's ch_info and last_channel_params.   *)
PackageMeetsItsSettings ==
  \A c \in Channels : Handles(c, "business") =>
    /\ configured[c]
    /\ queue[c] # <<>> => d_info[c] = Head(queue[c]).dev

(* The receiver has new settings and has not posted them to channel c yet. *)
ToNotify(c) == recvPc = "notify" /\ target <= c

(* No channel is left behind: once its events are handled, it holds the    *)
(* receiver's settings, unless these are just being sent out and are not   *)
(* yet on their way to it.                                                 *)
SettingsAgree ==
  \A c \in Channels :
    Runs(c) /\ events[c] = <<>> /\ ~ToNotify(c) => d_info[c] = device

(* A forwarded package is taken from the queue, or its channel is closed.  *)
EveryPackageTaken ==
  \A c \in Channels : queue[c] # <<>> ~> queue[c] = <<>>

(* The destructor's waits return: closing the window ends the program.     *)
ShutdownEnds == main = "waitRecv" ~> main = "closed"
=============================================================================
