----------------------------- MODULE Discovery -------------------------------
(***************************************************************************)
(* The discover command and the node controllers.                          *)
(*                                                                         *)
(* discover makes the DirectPVNode objects those of the CSI nodes, sets    *)
(* Refresh on the selected ones, and watches until each has its devices.   *)
(* The controller of a node probes the host when it starts and on an event *)
(* of its object with Refresh, and only then reads and updates the object: *)
(* a Refresh that comes in between is answered with the older probe.       *)
(*                                                                         *)
(* An Update is refused if the object has changed since it was read, and   *)
(* the whole function is tried again.  Where nothing but the update that   *)
(* gets through matters, reading and updating are one step.                *)
(***************************************************************************)
EXTENDS DeviceProbe, Sequences, SequencesExt

CONSTANTS
  NodeOrder,    \* the nodes, in the order they are listed
  Hosts,        \* states a host may be in: its devices and its mounts
  FirstHost,    \* the one each is in at first
  Running,      \* sets of nodes that may be running then
  Drives,       \* DirectPVDrive objects
  Selections,   \* sets of nodes asked for; the empty one stands for all
  NoObject,
  MaxEvents,    \* bound: changes of hosts and CSI nodes, stops and failures
  MaxCommands   \* bound: discoveries

Nodes == ToSet(NodeOrder)

ASSUME DiscoveryAssumption ==
  /\ IsInjective(NodeOrder) /\ \A s \in Selections \cup Running : s \subseteq Nodes
  /\ FirstHost \in Hosts /\ MaxEvents \in Nat /\ MaxCommands \in Nat

VARIABLES
  host,      \* devices of each node
  csiNodes,  \* nodes the kubelet registered the driver on
  node,      \* DirectPVNode objects
  pending,   \* nodes with an event with Refresh in the work queue
  ctl,       \* node controllers: where Sync is, and what it probed
  cmd,       \* the discover command
  unread,    \* whether the node the command read has changed since
  watchCh,   \* events the watch has not handed over yet
  answers,   \* per node, what a probe since the command began may have shown
  late,      \* nodes whose Sync had probed when Refresh was set
  events, commands

vars == <<host, csiNodes, node, pending, ctl, cmd, unread, watchCh, answers, late, events,
          commands>>

NoCommand == [pc |-> "idle", asked |-> {}, csi |-> {}, todo |-> <<>>, names |-> <<>>,
              devices |-> << >>]
IdleController == [pc |-> "idle", devices |-> {}]

NewNode(devices, refresh) == [devices |-> devices, refresh |-> refresh]
Exists(n) == node[n] # NoObject

\* probeDevices of the node controller, in the state the host is in; Drives are in reach.
NodeDevices(h) == {ToNodeDevice(dev, Drives, TRUE) : dev \in probe(h.devices, h.mounts)}

\* Some nodes are running, the driver is being installed on the others.
Init ==
  /\ host = [n \in Nodes |-> FirstHost]
  /\ csiNodes = Nodes
  /\ \E running \in Running :
       /\ node = [n \in Nodes |-> IF n \in running THEN NewNode(NodeDevices(FirstHost), FALSE)
                                  ELSE NoObject]
       /\ ctl = [n \in Nodes |-> IF n \in running THEN IdleController
                                 ELSE [IdleController EXCEPT !.pc = "down"]]
  /\ pending = {}
  /\ cmd = NoCommand /\ unread = FALSE /\ watchCh = <<>>
  /\ answers = [n \in Nodes |-> {}] /\ late = {}
  /\ events = 0 /\ commands = 0

Event == events < MaxEvents /\ events' = events + 1

hostVars == <<host, csiNodes>>
ghostVars == <<answers, late>>
countVars == <<events, commands>>

-----------------------------------------------------------------------------
(* The API server *)

\* The informer starts after the first Sync, and stops with the process.
Listening(n) == ctl[n].pc \in {"idle", "probed"}

\* Of the resource versions the model keeps whether the node the command read is unchanged.
\* An update with Refresh puts an event in the queue of the node's controller, if its
\* informer runs; one without may take the place of an event that is still there.
Store(n, o) ==
  /\ node' = [node EXCEPT ![n] = o]
  /\ unread' = (unread \/ (cmd.pc = "update" /\ n = Head(cmd.todo)))
  /\ watchCh' = IF cmd.pc = "watch" /\ n \in cmd.asked
                THEN Append(watchCh, [type |-> "changed", node |-> n, refresh |-> o.refresh,
                                      devices |-> o.devices])
                ELSE watchCh
  /\ IF o.refresh /\ Listening(n) THEN pending' = pending \cup {n}
     ELSE pending' \in {pending, pending \ {n}}

Delete(n) ==
  /\ node' = [node EXCEPT ![n] = NoObject]
  /\ unread' = (unread \/ (cmd.pc = "update" /\ n = Head(cmd.todo)))
  /\ watchCh' = IF cmd.pc = "watch" /\ n \in cmd.asked
                THEN Append(watchCh, [type |-> "deleted", node |-> n, refresh |-> FALSE,
                                      devices |-> {}])
                ELSE watchCh
  /\ pending' = pending \ {n}

-----------------------------------------------------------------------------
(* The node controller *)

controllerFrame == <<hostVars, cmd, ghostVars, commands>>

\* The process starts with Sync, whose probe is the first step.
StartController(n) ==
  /\ ctl[n].pc = "down" /\ ~UdevFails(host[n].devices)
  /\ ctl' = [ctl EXCEPT ![n] = [pc |-> "starting", devices |-> NodeDevices(host[n])]]
  /\ UNCHANGED <<node, unread, pending, watchCh, events, controllerFrame>>

StopController(n) ==
  /\ Event /\ ctl[n].pc # "down"
  /\ ctl' = [ctl EXCEPT ![n] = [IdleController EXCEPT !.pc = "down"]]
  /\ pending' = pending \ {n}
  /\ UNCHANGED <<node, unread, watchCh, controllerFrame>>

\* Handle: the probe of Sync for an event with Refresh.  If it fails the event is put back.
Handle(n) ==
  /\ ctl[n].pc = "idle" /\ n \in pending /\ ~UdevFails(host[n].devices)
  /\ ctl' = [ctl EXCEPT ![n] = [pc |-> "probed", devices |-> NodeDevices(host[n])]]
  /\ pending' = pending \ {n}
  /\ UNCHANGED <<node, unread, watchCh, events, controllerFrame>>

\* After the first Sync the informer starts.
Synced(n) == [IdleController EXCEPT !.pc = IF ctl[n].pc = "starting" THEN "synced" ELSE "idle"]

\* Faulty variant of Sync: Refresh is not reset.
Sync_noReset(n) ==
  /\ ctl[n].pc \in {"starting", "probed"}
  /\ Store(n, IF Exists(n) THEN [node[n] EXCEPT !.devices = ctl[n].devices]
              ELSE NewNode(ctl[n].devices, FALSE))
  /\ ctl' = [ctl EXCEPT ![n] = Synced(n)]
  /\ UNCHANGED <<events, controllerFrame>>

\* The rest of Sync: the object is created, or gets the devices and loses Refresh.
Sync(n) ==
  /\ ctl[n].pc \in {"starting", "probed"}
  /\ Store(n, IF Exists(n)
              THEN [node[n] EXCEPT !.refresh = FALSE, !.devices = ctl[n].devices]
              ELSE NewNode(ctl[n].devices, FALSE))
  /\ ctl' = [ctl EXCEPT ![n] = Synced(n)]
  /\ UNCHANGED <<events, controllerFrame>>

\* Sync fails: at the start the process ends, else the event is handled again.
SyncFails(n) ==
  /\ Event /\ ctl[n].pc \in {"starting", "probed"}
  /\ ctl' = [ctl EXCEPT ![n] = [IdleController EXCEPT
                                  !.pc = IF ctl[n].pc = "starting" THEN "down" ELSE "idle"]]
  /\ pending' = IF ctl[n].pc = "probed" THEN pending \cup {n} ELSE pending
  /\ UNCHANGED <<node, unread, watchCh, controllerFrame>>

\* StartController: the informer lists the object.  Its resyncs later on bring nothing new:
\* an event with Refresh stays in the queue until it is handled.
ListObject(n) ==
  /\ ctl[n].pc = "synced"
  /\ ctl' = [ctl EXCEPT ![n] = IdleController]
  /\ pending' = IF Exists(n) /\ node[n].refresh THEN pending \cup {n} ELSE pending
  /\ UNCHANGED <<node, unread, watchCh, events, controllerFrame>>

-----------------------------------------------------------------------------
(* SyncNodes *)

commandFrame == <<hostVars, ctl>>

Fail == cmd' = [NoCommand EXCEPT !.pc = "failed"]

\* discoverMain, RefreshNodes and SyncNodes: the CSI nodes are read.
Discover(asked) ==
  /\ cmd.pc \in {"idle", "done", "failed"} /\ commands < MaxCommands
  /\ commands' = commands + 1
  /\ cmd' = [NoCommand EXCEPT !.pc = "sync", !.asked = asked, !.csi = csiNodes]
  /\ answers' = [n \in Nodes |-> {NodeDevices(host[n])}] /\ late' = {}
  /\ watchCh' = <<>>
  /\ UNCHANGED <<node, unread, pending, events, commandFrame>>

\* The nodes are listed: what is missing is created, then what is too much is deleted.
ListNodes ==
  LET listed == {n \in Nodes : Exists(n)}
      missing == SelectSeq(NodeOrder, LAMBDA n : n \in cmd.csi \ listed)
      extra == SelectSeq(NodeOrder, LAMBDA n : n \in listed \ cmd.csi)
  IN  /\ cmd.pc = "sync"
      /\ cmd' = [cmd EXCEPT !.pc = "adjust", !.todo = missing \o extra]
      /\ UNCHANGED <<node, unread, pending, watchCh, ghostVars, countVars, commandFrame>>

\* One of them; an object that has come or gone in between is an error.
AdjustNode ==
  LET n == Head(cmd.todo)
      next == [cmd EXCEPT !.todo = Tail(@)]
  IN  /\ cmd.pc = "adjust" /\ cmd.todo # <<>>
      /\ CASE n \in cmd.csi /\ ~Exists(n) -> Store(n, NewNode({}, TRUE)) /\ cmd' = next
           [] n \notin cmd.csi /\ Exists(n) -> Delete(n) /\ cmd' = next
           [] OTHER -> Fail /\ UNCHANGED <<node, unread, pending, watchCh>>
      /\ UNCHANGED <<ghostVars, countVars, commandFrame>>

-----------------------------------------------------------------------------
(* RefreshNodes *)

\* The selected nodes are listed; it is an error if nodes were asked for and none is there.
SelectNodes ==
  LET found == SelectSeq(NodeOrder, LAMBDA n : Exists(n) /\ (cmd.asked = {} \/ n \in cmd.asked))
  IN  /\ cmd.pc = "adjust" /\ cmd.todo = <<>>
      /\ IF cmd.asked # {} /\ found = <<>> THEN Fail
         ELSE cmd' = [cmd EXCEPT !.pc = "get", !.todo = found]
      /\ UNCHANGED <<node, unread, pending, watchCh, ghostVars, countVars, commandFrame>>

\* The first half of updateFunc: the node is read and its name sent.
GetNode ==
  LET n == Head(cmd.todo)
  IN  /\ cmd.pc = "get" /\ cmd.todo # <<>>
      /\ IF Exists(n) THEN cmd' = [cmd EXCEPT !.pc = "update", !.names = Append(@, n)] ELSE Fail
      /\ unread' = FALSE
      /\ UNCHANGED <<node, pending, watchCh, ghostVars, countVars, commandFrame>>

\* The second half: Refresh is set.  If the node was changed since it was read, all of
\* updateFunc is done again; if it was deleted, that is an error.
RefreshNode ==
  LET n == Head(cmd.todo)
  IN  /\ cmd.pc = "update"
      /\ \/ /\ Exists(n) /\ ~unread
            /\ Store(n, [node[n] EXCEPT !.refresh = TRUE])
            /\ cmd' = [cmd EXCEPT !.pc = "get", !.todo = Tail(@)]
            /\ late' = IF ctl[n].pc \in {"starting", "probed"} THEN late \cup {n} ELSE late
         \/ /\ ~Exists(n) \/ unread
            /\ IF Exists(n) THEN cmd' = [cmd EXCEPT !.pc = "get"] ELSE Fail
            /\ UNCHANGED <<node, unread, pending, watchCh, late>>
      /\ UNCHANGED <<answers, countVars, commandFrame>>

-----------------------------------------------------------------------------
(* discoverDevices *)

\* Watch: the nodes there are come first, as if they had just been added.
StartWatch ==
  LET watched == IF cmd.names = <<>> THEN Nodes ELSE ToSet(cmd.names)
      there == SelectSeq(NodeOrder, LAMBDA n : n \in watched /\ Exists(n))
  IN  /\ cmd.pc = "get" /\ cmd.todo = <<>>
      /\ cmd' = [cmd EXCEPT !.pc = "watch", !.asked = watched]
      /\ watchCh' = [i \in DOMAIN there |->
                       [type |-> "changed", node |-> there[i], refresh |-> node[there[i]].refresh,
                        devices |-> node[there[i]].devices]]
      /\ UNCHANGED <<node, unread, pending, ghostVars, countVars, commandFrame>>

\* Faulty variant of TakeEvent: the devices of a node are taken whether it is refreshed or not.
TakeEvent_eager ==
  LET e == Head(watchCh)
      devices == (e.node :> e.devices) @@ cmd.devices
  IN  /\ cmd.pc = "watch" /\ watchCh # <<>>
      /\ watchCh' = Tail(watchCh)
      /\ cmd' = [cmd EXCEPT !.devices = devices,
                            !.pc = IF Cardinality(DOMAIN devices) >= Len(cmd.names) THEN "done" ELSE @]
      /\ UNCHANGED <<node, unread, pending, ghostVars, countVars, commandFrame>>

\* An event: the devices of a node that has been refreshed.  The command ends when there are
\* as many nodes as names were sent, and on a node that was deleted.
TakeEvent ==
  LET e == Head(watchCh)
      devices == IF e.type = "changed" /\ ~e.refresh THEN (e.node :> e.devices) @@ cmd.devices
                 ELSE cmd.devices
      all == Cardinality(DOMAIN devices) >= Len(cmd.names)
  IN  /\ cmd.pc = "watch" /\ watchCh # <<>>
      /\ watchCh' = Tail(watchCh)
      /\ cmd' = [cmd EXCEPT !.devices = devices,
                            !.pc = IF e.type = "deleted" \/ all THEN "done" ELSE @]
      /\ UNCHANGED <<node, unread, pending, ghostVars, countVars, commandFrame>>

\* The channel of the watch is closed by the API server: the command ends with what it has.
WatchEnds ==
  /\ Event /\ cmd.pc = "watch"
  /\ cmd' = [cmd EXCEPT !.pc = "done"]
  /\ UNCHANGED <<node, unread, pending, watchCh, ghostVars, commands, commandFrame>>

\* The timeout, the administrator, or a call that fails
CommandFails ==
  /\ Event /\ cmd.pc \notin {"idle", "done", "failed"}
  /\ Fail
  /\ UNCHANGED <<node, unread, pending, watchCh, ghostVars, commands, commandFrame>>

-----------------------------------------------------------------------------
(* Surroundings *)

\* Devices are plugged, unplugged, formatted, mounted.
ChangeHost(n) ==
  /\ Event
  /\ \E h \in Hosts \ {host[n]} :
       /\ host' = [host EXCEPT ![n] = h]
       /\ answers' = [answers EXCEPT ![n] = @ \cup {NodeDevices(h)}]
  /\ UNCHANGED <<csiNodes, node, unread, pending, ctl, cmd, watchCh, late, commands>>

\* The driver is registered on a node, or the node goes.
ChangeNodes(n) ==
  /\ Event
  /\ csiNodes' = IF n \in csiNodes THEN csiNodes \ {n} ELSE csiNodes \cup {n}
  /\ UNCHANGED <<host, node, unread, pending, ctl, cmd, watchCh, ghostVars, commands>>

\* SyncNodes of another administrator's discover deletes a node that went.
OtherDiscover(n) ==
  /\ n \notin csiNodes /\ Exists(n) /\ Delete(n)
  /\ UNCHANGED <<hostVars, ctl, cmd, ghostVars, countVars>>

ControllerStep(n) == StartController(n) \/ Handle(n) \/ Sync(n) \/ ListObject(n)
CommandStep ==
  ListNodes \/ AdjustNode \/ SelectNodes \/ GetNode \/ RefreshNode \/ StartWatch \/ TakeEvent

Next ==
  \/ \E asked \in Selections : Discover(asked)
  \/ CommandStep \/ WatchEnds \/ CommandFails
  \/ \E n \in Nodes : ControllerStep(n) \/ StopController(n) \/ SyncFails(n) \/ ChangeHost(n)
                        \/ ChangeNodes(n) \/ OtherDiscover(n)

\* Processes that are up go on, and the kubelet starts a controller that ended.  Nothing is
\* assumed of the timeout.
Fairness == WF_vars(CommandStep) /\ \A n \in Nodes : WF_vars(ControllerStep(n))
Spec == Init /\ [][Next]_vars /\ Fairness

-----------------------------------------------------------------------------
(* Properties *)

Duplicated == Len(cmd.names) > Cardinality(ToSet(cmd.names))

\* What discover shows of a node it asked was the case at some time since it began, although
\* every node has devices from earlier, unless the node's controller had probed, and not yet
\* updated, when Refresh was set.  (If there was no node to ask it watches all there may be.)
DiscoveryIsCurrent ==
  cmd.pc = "done" =>
    \A n \in DOMAIN cmd.devices \cap ToSet(cmd.names) : cmd.devices[n] \in answers[n] \/ n \in late

\* discover ends without waiting for its timeout, whatever order its own updates, the
\* controllers' and their restarts come in, unless a probe cannot succeed, a node is deleted
\* before the watch starts, or a conflict made RefreshNodes send a name twice: in both cases
\* discoverDevices waits for more nodes than there are.
DiscoveryEnds ==
  cmd.pc = "watch"
    ~> (cmd.pc # "watch" \/ Duplicated \/ cmd.names = <<>>
          \/ \E n \in cmd.asked : ~Exists(n) \/ UdevFails(host[n].devices))
=============================================================================
