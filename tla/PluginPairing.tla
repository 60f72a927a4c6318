----------------------------- MODULE PluginPairing -----------------------------
(***************************************************************************)
(* Which class a device shows, and which device a ClassIsland plugin        *)
(* follows.  A plugin starts pairing with a token; the viewer, a device     *)
(* bound to a class, confirms it, and the plugin's row copies the class.    *)
(* Devices are bound, moved, made management devices and revoked at any     *)
(* time, in requests of several statements, and a copy may go stale; polls  *)
(* of the plugin and heartbeats of the viewer bring it up to date, each     *)
(* reading the rows first and writing what it read afterwards.              *)
(*                                                                          *)
(* A class stands for the pair of a grade and a class that exist; a request *)
(* refused by what it read changes nothing and just ends.                   *)
(***************************************************************************)
EXTENDS Naturals

CONSTANTS
  Viewers,         \* devices
  Rooms,           \* classes
  NoRoom,
  NoViewer,
  Plugins,
  NoPlugin,
  Binders,         \* binding requests that may run at once
  Polls,           \* requests about plugins that may run at once
  MaxBindings,     \* binding requests in all
  MaxPairings,     \* pairings started
  MaxBinderFaults  \* binding requests that die on the way

ASSUME PairingAssumption ==
  /\ {MaxBindings, MaxPairings, MaxBinderFaults} \subseteq Nat
  /\ NoRoom \notin Rooms /\ NoViewer \notin Viewers /\ NoPlugin \notin Plugins

VARIABLES
  viewer,     \* device_instances; one without a row has no class either
  plugin,     \* classisland_plugin_instances; token 0 is NULL
  binder,     \* binding requests
  poll,       \* pairing, status and heartbeat requests
  bindings, pairings, binderFaults,
  contested   \* history: classes two requests were about to take at the same time

pairVars == <<viewer, plugin, binder, poll, bindings, pairings, binderFaults, contested>>

NoBinder == [pc |-> "idle", dev |-> NoViewer, room |-> NoRoom, old |-> NoViewer]
NoPoll == [pc |-> "idle", plug |-> NoPlugin, dev |-> NoViewer, room |-> NoRoom]

AnyViewer == Viewers \cup {NoViewer}
AnyRoom == Rooms \cup {NoRoom}

ViewerRows == [room : AnyRoom, revoked : BOOLEAN, management : BOOLEAN]
Requests == [pc : {"idle", "clear", "revoke", "own", "copy", "setup", "unpair", "manage",
                   "dismiss", "drop"},
             dev : AnyViewer, room : AnyRoom, old : AnyViewer]

PairTypeOK ==
  /\ viewer \in [Viewers -> ViewerRows]
  /\ plugin \in [Plugins -> [dev : AnyViewer, room : AnyRoom, paired : BOOLEAN,
                             token : 0..MaxPairings]]
  /\ binder \in [Binders -> Requests]
  /\ poll \in [Polls -> [pc : {"idle", "pair", "confirm", "look", "unpair", "follow"},
                         plug : Plugins \cup {NoPlugin}, dev : AnyViewer, room : AnyRoom]]
  /\ bindings \in 0..MaxBindings
  /\ pairings \in 0..MaxPairings
  /\ binderFaults \in 0..MaxBinderFaults
  /\ contested \subseteq Rooms

PairInit ==
  /\ viewer = [d \in Viewers |-> [room |-> NoRoom, revoked |-> FALSE, management |-> FALSE]]
  /\ plugin = [p \in Plugins |-> [dev |-> NoViewer, room |-> NoRoom, paired |-> FALSE, token |-> 0]]
  /\ binder = [b \in Binders |-> NoBinder]
  /\ poll = [q \in Polls |-> NoPoll]
  /\ bindings = 0
  /\ pairings = 0
  /\ binderFaults = 0
  /\ contested = {}

Valid(d) == ~viewer[d].revoked /\ ~viewer[d].management /\ viewer[d].room # NoRoom
Occupants(room, d) == {e \in Viewers \ {d} : viewer[e].room = room /\ ~viewer[e].revoked}

(* paired=FALSE, grade_id='', class_id=''. *)
Apart(row) == [row EXCEPT !.paired = FALSE, !.room = NoRoom]
Unpaired(devs) ==
  [p \in Plugins |-> IF plugin[p].dev \in devs \ {NoViewer} THEN Apart(plugin[p]) ELSE plugin[p]]

(* The paired plugins of a device take over its class. *)
Copied(d, room) ==
  [p \in Plugins |-> IF plugin[p].dev = d /\ plugin[p].paired
                     THEN [plugin[p] EXCEPT !.room = room] ELSE plugin[p]]

Dismissed(row) == [room |-> NoRoom, revoked |-> TRUE, management |-> row.management]
Revoked == [room |-> NoRoom, revoked |-> TRUE, management |-> FALSE]
BoundTo(room) == [room |-> room, revoked |-> FALSE, management |-> FALSE]
Managing == [room |-> NoRoom, revoked |-> FALSE, management |-> TRUE]

BinderAt(b, pc) == binder[b].pc = pc
BinderTo(b, pc) == binder' = [binder EXCEPT ![b].pc = pc]
BinderDone(b) == binder' = [binder EXCEPT ![b] = NoBinder]
----------------------------------------------------------------------------
Request(pc, d, room, old) == [pc |-> pc, dev |-> d, room |-> room, old |-> old]

(* A request that has looked at the holders of a class and is yet to take it. *)
Claims(b, room) ==
  binder[b].room = room /\ binder[b].pc \in {"clear", "revoke", "own", "setup"}

NewBinder(b, request) ==
  /\ BinderAt(b, "idle")
  /\ bindings < MaxBindings
  /\ bindings' = bindings + 1
  /\ binder' = [binder EXCEPT ![b] = request]
  /\ contested' = contested \cup
       {room \in Rooms : room = request.room /\ \E c \in Binders \ {b} : Claims(c, room)}
  /\ UNCHANGED <<viewer, plugin, poll, pairings, binderFaults>>

(* A device binds itself to a class, or an administrator makes it the       *)
(* terminal of a class: whoever holds the class is to be replaced.  (When   *)
(* that was not asked for, the request ends here.)                          *)
BindDevice(b, d, room) ==
  NewBinder(b, Request(IF Occupants(room, d) = {} THEN "own" ELSE "clear", d, room, NoViewer))

(* handleManagedDeviceSetup reads the one holder of the class it replaces.  *)
SetUpDevice(b, d, room) ==
  LET held == Occupants(room, d)
  IN \E old \in IF held = {} THEN {NoViewer} ELSE held :
       NewBinder(b, Request("setup", d, room, old))

(* A management device takes no class, but a class that the request names   *)
(* loses its holder all the same.                                           *)
SetUpManagement(b, d) ==
  \E old \in {NoViewer} \cup UNION {Occupants(room, d) : room \in Rooms} :
    NewBinder(b, Request("setup", d, NoRoom, old))

(* handleDeviceRoleUpdate and handleDeviceRevoke. *)
MakeManagement(b, d) == NewBinder(b, Request("unpair", d, NoRoom, NoViewer))
RevokeDevice(b, d) == NewBinder(b, Request("dismiss", d, NoRoom, NoViewer))
RevokePlugins(b) == NewBinder(b, Request("drop", NoViewer, NoRoom, NoViewer))

(* Binding: the plugins of the holders, then the holders, *)
ClearPlugins(b) ==
  /\ BinderAt(b, "clear")
  /\ plugin' = Unpaired(Occupants(binder[b].room, binder[b].dev))
  /\ BinderTo(b, "revoke")
  /\ UNCHANGED viewer

RevokeHolders(b) ==
  /\ BinderAt(b, "revoke")
  /\ viewer' = [d \in Viewers |-> IF d \in Occupants(binder[b].room, binder[b].dev)
                                  THEN Dismissed(viewer[d]) ELSE viewer[d]]
  /\ BinderTo(b, "own")
  /\ UNCHANGED plugin

(* Mutant: a class is taken before its holder is revoked. *)
TakeRoomFirst(b) ==
  /\ binder[b].pc \in {"clear", "own"}
  /\ viewer' = [viewer EXCEPT ![binder[b].dev] = BoundTo(binder[b].room)]
  /\ BinderTo(b, "copy")
  /\ UNCHANGED plugin

(* then the device itself and its own plugins. *)
TakeRoom(b) ==
  /\ BinderAt(b, "own")
  /\ viewer' = [viewer EXCEPT ![binder[b].dev] = BoundTo(binder[b].room)]
  /\ BinderTo(b, "copy")
  /\ UNCHANGED plugin

CopyRoom(b) ==
  /\ BinderAt(b, "copy")
  /\ plugin' = Copied(binder[b].dev, binder[b].room)
  /\ BinderDone(b)
  /\ UNCHANGED viewer

(* The one transaction of a managed setup. *)
CommitSetup(b) ==
  LET d == binder[b].dev
      old == binder[b].old
      room == binder[b].room
      cleared == Unpaired(IF room = NoRoom THEN {old, d} ELSE {old})
  IN /\ BinderAt(b, "setup")
     /\ viewer' = [e \in Viewers |->
          IF e = d THEN IF room = NoRoom THEN Managing ELSE BoundTo(room)
          ELSE IF e = old THEN Dismissed(viewer[e]) ELSE viewer[e]]
     /\ plugin' = [p \in Plugins |->
          IF cleared[p].dev = d /\ cleared[p].paired
          THEN [cleared[p] EXCEPT !.room = room] ELSE cleared[p]]
     /\ BinderDone(b)

UnpairOwn(b) ==
  /\ BinderAt(b, "unpair")
  /\ plugin' = Unpaired({binder[b].dev})
  /\ BinderTo(b, "manage")
  /\ UNCHANGED viewer

BecomeManagement(b) ==
  /\ BinderAt(b, "manage")
  /\ viewer' = [viewer EXCEPT ![binder[b].dev] = Managing]
  /\ BinderDone(b)
  /\ UNCHANGED plugin

DismissDevice(b) ==
  /\ BinderAt(b, "dismiss")
  /\ viewer' = [viewer EXCEPT ![binder[b].dev] = Revoked]
  /\ BinderTo(b, "drop")
  /\ UNCHANGED plugin

(* The device's plugins, and those the request names. *)
DropPlugins(b) ==
  /\ BinderAt(b, "drop")
  /\ \E named \in SUBSET Plugins :
       plugin' = [p \in Plugins |-> IF p \in named THEN Apart(plugin[p])
                                   ELSE Unpaired({binder[b].dev})[p]]
  /\ BinderDone(b)
  /\ UNCHANGED viewer

BinderStep(b) ==
  /\ \/ ClearPlugins(b) \/ RevokeHolders(b) \/ TakeRoom(b) \/ CopyRoom(b)
     \/ CommitSetup(b) \/ UnpairOwn(b) \/ BecomeManagement(b)
     \/ DismissDevice(b) \/ DropPlugins(b)
  /\ UNCHANGED <<poll, bindings, pairings, binderFaults, contested>>

BinderDies(b) ==
  /\ ~BinderAt(b, "idle")
  /\ binderFaults < MaxBinderFaults
  /\ binderFaults' = binderFaults + 1
  /\ BinderDone(b)
  /\ UNCHANGED <<viewer, plugin, poll, bindings, pairings, contested>>
----------------------------------------------------------------------------
(* handlePluginPairStart: the token of a new attempt replaces the last.     *)
PairStart(p) ==
  /\ pairings < MaxPairings
  /\ pairings' = pairings + 1
  /\ plugin' = [plugin EXCEPT ![p].token = pairings + 1, ![p].paired = FALSE]
  /\ UNCHANGED <<viewer, binder, poll, bindings, binderFaults, contested>>

PollTo(q, request) ==
  /\ poll' = [poll EXCEPT ![q] = request]
  /\ UNCHANGED <<viewer, plugin, binder, bindings, pairings, binderFaults, contested>>

(* handlePluginPairConfirm reads the plugin of the token, *)
PairConfirm(q, p, d) ==
  /\ poll[q].pc = "idle"
  /\ plugin[p].token # 0
  /\ PollTo(q, [pc |-> "pair", plug |-> p, dev |-> d, room |-> NoRoom])

(* then the device, and writes both by the plugin's id.                     *)
PairDevice(q) ==
  /\ poll[q].pc = "pair"
  /\ LET d == poll[q].dev
     IN PollTo(q, IF Valid(d) THEN [poll[q] EXCEPT !.pc = "confirm", !.room = viewer[d].room]
                  ELSE NoPoll)

(* Mutant: a poll only ever unpairs. *)
PairStatusUnpairs(q, p) ==
  LET d == plugin[p].dev
  IN /\ poll[q].pc = "idle"
     /\ plugin[p].paired
     /\ ~Valid(d) /\ PollTo(q, [NoPoll EXCEPT !.pc = "unpair", !.plug = p])

(* handlePluginPairStatusOrBootstrap reads plugin and device in one query;  *)
(* there is something to write when the pairing is no longer valid or the   *)
(* class has changed.                                                       *)
PairStatus(q, p) ==
  LET d == plugin[p].dev
  IN /\ poll[q].pc = "idle"
     /\ plugin[p].paired
     /\ \/ ~Valid(d) /\ PollTo(q, [NoPoll EXCEPT !.pc = "unpair", !.plug = p])
        \/ /\ Valid(d) /\ plugin[p].room # viewer[d].room
           /\ PollTo(q, [NoPoll EXCEPT !.pc = "follow", !.plug = p, !.room = viewer[d].room])

(* handlePluginViewerHeartbeat reads the plugin, then the device it names.  *)
ViewerHeartbeat(q, p) ==
  /\ poll[q].pc = "idle"
  /\ plugin[p].paired
  /\ PollTo(q, [NoPoll EXCEPT !.pc = "look", !.plug = p, !.dev = plugin[p].dev])

LookUpViewer(q) ==
  /\ poll[q].pc = "look"
  /\ LET d == poll[q].dev
     IN PollTo(q, IF Valid(d) THEN [poll[q] EXCEPT !.pc = "follow", !.room = viewer[d].room]
                  ELSE [poll[q] EXCEPT !.pc = "unpair"])

(* The writes. *)
WritePlugin(q) ==
  LET p == poll[q].plug
      row == plugin[p]
  IN /\ poll[q].pc \in {"confirm", "follow", "unpair"}
     /\ plugin' = [plugin EXCEPT ![p] =
          CASE poll[q].pc = "confirm" ->
                 [dev |-> poll[q].dev, room |-> poll[q].room, paired |-> TRUE, token |-> 0]
            [] poll[q].pc = "follow" -> [row EXCEPT !.room = poll[q].room]
            [] OTHER -> Apart(row)]
     /\ poll' = [poll EXCEPT ![q] = NoPoll]
     /\ UNCHANGED <<viewer, binder, bindings, pairings, binderFaults, contested>>

PollStep(q) == PairDevice(q) \/ LookUpViewer(q) \/ WritePlugin(q)

PairNext ==
  \/ \E b \in Binders, d \in Viewers :
       \/ MakeManagement(b, d) \/ RevokeDevice(b, d) \/ SetUpManagement(b, d)
       \/ \E room \in Rooms : BindDevice(b, d, room) \/ SetUpDevice(b, d, room)
  \/ \E b \in Binders : RevokePlugins(b) \/ BinderStep(b) \/ BinderDies(b)
  \/ \E p \in Plugins : PairStart(p)
  \/ \E q \in Polls, p \in Plugins :
       \/ PairStatus(q, p) \/ ViewerHeartbeat(q, p)
       \/ \E d \in Viewers : PairConfirm(q, p, d)
  \/ \E q \in Polls : PollStep(q)

PairSpec == PairInit /\ [][PairNext]_pairVars
----------------------------------------------------------------------------
(* A class has one device, although it is taken in several statements and a *)
(* request may die after any of them, other requests move and revoke the    *)
(* same devices, and polls copy classes: unless two requests were about to  *)
(* take that very class at the same time.                                   *)
RoomHeldOnce ==
  \A d, e \in Viewers :
    d # e /\ viewer[d].room \in Rooms \ contested => viewer[d].room # viewer[e].room

(* A class has one device, whoever asks for it and when. *)
OneDevicePerClass ==
  \A d, e \in Viewers :
    d # e /\ viewer[d].room # NoRoom => viewer[d].room # viewer[e].room

(* When devices are no longer moved, a plugin that counts as paired follows *)
(* the class of a valid viewer, whatever stale values requests wrote last.  *)
Follows(p) ==
  plugin[p].paired =>
    /\ plugin[p].dev # NoViewer
    /\ Valid(plugin[p].dev)
    /\ plugin[p].room = viewer[plugin[p].dev].room

PairingsSettle == <>[](\A p \in Plugins : Follows(p))
============================================================================
