# TLA+ models of the chart plotter

This directory holds TLA+ specifications of parts of the chart plotter in
`src/` (OpenCPN, in a macOS tree), the TLC configurations that check them on
small instances, and proofs checked by TLAPS. Every definition is translated
from the C++ source; `PROJECT.json` names the lines each one stands for.

## 1. The system and its parts

| part | source (`src/src/`) | state | operations | hard because |
|---|---|---|---|---|
| SENC builds | `SencManager.cpp`, `Osenc.cpp` | `ticket_list`, ticket states, worker threads, one static mutex | schedule, start, finish, DONE/STARTED events | threads, posted events, exceptions, slots |
| chart cache, S-57 charts | `chartdb.cpp`, `s57chart.cpp` | cached chart objects, placeholder or loaded | open, purge, load | a chart may die while its ticket lives |
| frame | `chart1.cpp` | events in flight, the one-second timer | `OnSENCEvtThread`, `ParseAllENC`, `OnFrameTimer1` | handlers that pump events |
| routes and marks | `routeman.cpp`, `Route.cpp`, `RoutePoint.cpp` | lists of routes and points, flags, the active leg | draw, edit, delete, activate, follow | shared points behind plain pointers, flags that must agree with lists |
| route commands | `chcanv.cpp`, `canvasMenu.cpp`, `routemanagerdialog.cpp` | the route being drawn, the point being dragged | mouse, menu and dialog handlers | modal questions between test and use |
| undo | `undo.cpp`, handlers of `chcanv.cpp` and `canvasMenu.cpp` | a stack that owns deleted points | before/after/cancel, undo, redo | raw pointers in stack, lists and route; ownership changes with the position in the stack |
| saved objects | `NavObjectCollection.cpp`, `navutil.cpp` | `navobj.xml`, a journal of changes | save, journal, replay | crash between two writes |
| AIS | `AIS_Decoder.cpp`, `AISTargetAlertDialog.cpp` | targets, a pending distress call, alert states, the alert dialog | report, call, age, alert, acknowledge | two timers, the dialog and the sound each change part of one state |
| sound | `OcpnWxSound.cpp` | the callback, a playing thread | play, end | the thread clears the callback after calling it |
| data streams | `datastream.cpp`, `OCP_DataStreamInput_Thread.cpp` | port or socket, reader thread, run flag, output queue, timers | open, read, write, reconnect, close | a handshake by flags, a bounded wait, a static variable shared by threads |
| multiplexer | `multiplexer.cpp` | list of streams, posted sentences | start, clear, forward, upload | handlers that wait on the main thread |
| texture jobs | `glTextureManager.cpp` | lists of waiting and running jobs | schedule, start, finish | as the SENC builds |
| selection, quilting, rendering, tides, settings, plugins, tracks | see `PROJECT.json` | | | mostly functions of their input, or thin layers over libraries |

Everything but worker threads runs on the main thread. Threads talk to it by
posted events; components of the main thread call each other directly and share
objects by plain pointers. The hazards this leads to, each with its line and the
properties that cover it, are listed in `PROJECT.json`.

What makes each part correct:

* SENC builds: one build per cell, at most `m_max_jobs` at a time, no idle slot,
  no use of a deleted ticket, no pointer to a dead chart, every job ends, a
  request is refused only for the sake of a build that is to come, or whose
  worker threw.
* Charts: a chart whose file was built is loaded.
* Routes: what is being followed is never pulled away, no route shows a freed
  point, flags agree with lists, no mark is lost, a followed route ends.
* Saved objects: whenever the program dies, the next start shows what the user
  left, unless he did what the change set cannot tell.
* Streams: a stream outlives its reader and leaves none behind; the main thread
  comes back; a link known to be broken is on its way to being mended.
* AIS: a distress call is posted and stands; every alert is shown until it is
  answered, and alerts again when its cause comes back; the sound repeats.
* Undo: the stack frees nothing in use and puts nothing freed back; undo and
  redo are each other's inverse.

## 2. Modules

| module | what it is |
|---|---|
| `JobPool` | abstract: a bounded pool of slots filled in order of arrival |
| `SencBuild` | background construction of SENC files, with charts, cache, worker threads, events and the frame |
| `MCSencBuild` | its instances for TLC |
| `SencBuildProofs` | inductive invariant and theorems about `SencBuild`, that refused requests are answered, and that it implements `JobPool` |
| `RouteNav` | routes, the points they share, and the following of one of them |
| `MCRouteNav` | its instances for TLC |
| `RouteNavProofs` | inductive invariant and theorems about `RouteNav` |
| `NavObjectStore` | marks and routes on file: the saved document, the change set, crashes and the replay |
| `NavObjectStoreProofs` | inductive invariant and theorems about `NavObjectStore`, and what its calls and loops do |
| `NavPictureProofs` | what the document and the change set tell of what the user sees |
| `NavRecoveryProofs` | that a start after a crash gives it back |
| `DataStream` | serial and network streams, their reader threads, timers and events, and the multiplexer on the main thread |
| `MCDataStream` | its instances for TLC |
| `DataStreamProofs` | inductive invariant and theorems about `DataStream` |
| `AisAlert` | AIS targets, distress calls, the alert dialog and its sound |
| `MCAisAlert` | its instances for TLC |
| `AisAlertProofs` | inductive invariant and theorems about `AisAlert` |
| `UndoStack` | the undo stack, and the handlers of a canvas that record, undo and invalidate |
| `MCUndoStack` | its instances for TLC |
| `UndoStackProofs` | inductive invariant and theorems about `UndoStack`, and that undo and redo are each other's inverse |

`Habits` in a module names what the surroundings can do that the code does not
cope with; an instance says which of them it lets happen. What each one breaks
is told with the module.

Definitions whose names end in `_Mutant` are variants with a plausible bug. They
belong to no specification; they stand in for the definition that follows them
to show that a property notices.

### SencBuild

A ticket is named by the chart object that made it (`FindOrCreateSenc` runs once
per object), and a chart that is closed and opened again is a new object of the
same path (`PathOf`). The state:

| variable | code |
|---|---|
| `chart` | the object: not made, in the cache as a placeholder, in the cache and loaded, destroyed |
| `ticket` | `m_status`, and whether the ticket was refused or deleted |
| `linked` | `m_chart` of the ticket is not NULL |
| `list` | `ticket_list` |
| `builder` | where each worker thread (or `ParseAllENC`, as `MAIN`) is |
| `sencLock` | the mutex that `Osenc::lockCR` locks |
| `senc` | the SENC file of each cell: missing, out of date, current |
| `mgrQ`, `frameQ` | events posted to the manager, and by it to the frame |
| `reloading` | `OnSENCEvtThread` is inside `ReloadAllVP`, before `delete event.m_ticket` |
| `parsing`, `todo` | `ParseAllENC` |

The step of a worker is cut where another thread can see a difference: the
posting of an event, taking and giving up the mutex, the rename of the finished
file. The build itself is one abstract stretch that may tessellate any number of
times. `createSenc200` has some twenty returns; they are three outcomes, told
apart by what `Entry` makes of them (`DoneType`) and by whether the file was
replaced. Handlers on the main thread are single steps, except that
`ReloadAllVP` may open and purge charts in the middle of `OnSENCEvtThread`, and
`ParseAllENC` runs the event loop between two cells.

`SencBuild` implements `JobPool` with `running` the listed tickets that are
started and `waiting` the list from its first pending ticket on
(`ImplementsJobPool`).

What `PostInit` does to a chart that was destroyed is undefined; the model says
nothing of it and states instead that it should not happen
(`FinishedChartsAlive`, which the code violates, section 5). A build that ends
without a file and without the one error code that counts is reported as done,
and the frame loads the chart all the same (`DoneType`); no property is about
that. Exceptions (`CanThrow`) are on in the two runs about safety. One of them
leaves a dead job in the list, and later requests for the cell are refused for its
sake; `RefusalReliesOnLiveJob` says that this is the only way to be refused for
nothing.

### RouteNav

All of it is on the main thread, and what interleaves are commands and the
timer. The handlers are nested calls that rewrite the same objects
(`DestroyWaypoint` calls `RemovePoint`, which calls `DeactivateRoute` ...), so
each is an operator from one state of the objects to the next, and `nav` is the
record of that state:

| field | code |
|---|---|
| `life` | a point: not made, in `m_pWayPointList`, out of it ("retired", kept by the undo stack), freed |
| `inRoute`, `isolated`, `shared`, `actPts` | `m_bIsInRoute`, `m_bIsolatedMark`, `m_bsharedMark`, `m_bIsActive` |
| `listed`, `pts`, `temp`, `actRts`, `rtePoint` | `pRouteList`; `pRoutePointList`, `m_bDeleteOnArrival`, `m_bRtIsActive`, `m_pRouteActivePoint` of a route |
| `route`, `point`, `begin`, `virtual` | `pActiveRoute`, `pActivePoint`, `pActiveRouteSegmentBeginPoint`, whether `pRouteActivatePoint` exists |

`leg` is `m_arrival_test` and whether `m_arrival_min` has been measured since it
was reset; `mouse` is the route being drawn; `asked` is the drag that waits for
an answer; `wiping` is `DeleteAllWaypoints` at work. Positions are abstracted to
what the arrival test makes of them (`Fixes`); which point is the best one to
start at, and which points lie near each other, is any.

The guards are the conditions under which the menus and dialogs offer a command.
With none of the habits, all properties hold. With "switch" (activating a route
in the dialog while another is active) the flags of the old route stay set, so
`FlagsFollow` allows that one step; the rest holds. With "ponder" (time passes
while the question of a drag is open) the active point can be freed and
`ActiveRouteIntact` fails. With "loop" (a point twice in one route, which
`chcanv.cpp:8795` allows on purpose) `RoutePointsAlive` fails (section 5), and `RouteEnds` fails, since `GetIndexOf` finds the first occurrence:
a closed polygon has no end.

A followed route ends in two ways, and each has a property of its own: the ship
enters the circle of every point (`RouteEnds`), or it passes every point by and
the third fix in a row that moves away counts as an arrival
(`PassedPointsCount`). The count and the minimum it is compared with survive from
command to command, which is what the second one is about.

Not in the model: splitting, joining and appending routes, layers, MOB routes
(never arrived at), anchor watch points (spared by `DeleteAllWaypoints`), plugins
that take over the autopilot, and the answers to a drag that join two routes.

### NavObjectStore

`navobj.xml` holds the marks and routes of the last save, `navobj.xml.changes` a
record of each change since. `LoadNavObjects` reads the first and replays the
second, which exists with content only after a crash.

| variable | code |
|---|---|
| `nav` | the objects in memory: `m_pWayPointList` with the flags of each point, the point lists of `pRouteList`, and whether a route has a colour, style or description of its own (`look`) |
| `file` | `navobj.xml`, or `Torn` while `SaveFile` has truncated it |
| `log` | the records `AddWP` and `AddRoute` have written |
| `phase` | running, inside the two steps of `UpdateNavObj`, after a replay that is not saved yet, or dead |
| `made` | GUIDs given out; a bound, and what makes GUIDs unique |
| `lossy` | a ghost: what happened since the last save that a replay does not give back |
| `strays` | the objects in `m_pWayPointList` that a replay left flagged in-route and that no listed route has |

A point has one attribute besides its flags, `pos`, which stands for those that
`UpdateRouteA` copies (position, name, icon, description). Each edit changes
memory and writes its records in one step, since nothing can run in between but
a crash, and the records of one command are flushed one after the other within
it; a crash between two records of one command is not modelled.

`ApplyChanges`, `UpdateRouteA` and the loading of the document go through their
records in turn (`InTurn`) with the same operators that the edits use (`DropRoute`,
`DestroyWaypoint`, `AddPoint`), as in the code. Where the code goes through a set of
routes, as `DestroyWaypoint` and `DeleteAllRoutes` do, `RemovePoint` and
`DropRoutes` take the set at once: a flag changes when the last route of the
point is done, whichever that is. That the records use the same operators matters: every route record puts objects of
its own into the waypoint list before it looks for existing ones, and they stay
there, so that `WaypointExists` may later find the wrong one.

`Recoverable` compares what the user sees (`View`) in memory with what a start
would make of the two files, in every state in which the process may die: after
any edit, and between the save and the removal of the change set, where the old
records are replayed over the new document. `lossy` lists all it excludes, and
none of it could be left out:

* "taken": a point taken out of its only route (section 5);
* "restyled": any record of a route with a look, which the replay drops;
* "wiped": `DeleteAllRoutes` tells the change set nothing;
* "orphaned": after a route record with a point and an update of the mark
  it became, the next record of it finds the object left by the first: the mark
  doubles, or a deleted one comes back;
* "torn", "applied": a crash inside `SaveFile`, or after the change set is
  removed and before its result is saved;
* "damaged": a session that began with two objects of one GUID, or with a route
  through an object that is not listed, as an earlier loss can leave them;
* "reused": a point that a replay left over was taken into a route or deleted.

The left-over points are the other effect of a replay. `GPXLoadRoute1`
(`NavObjectCollection.cpp:583-607`) puts a new object into the waypoint list for
every point of a route record and flags it in-route; `UpdateRouteA` then uses the
first object of each GUID, and nobody takes the others out again. They are no
mark and in no route, no file has them, and they stay until the program ends.
`Restored` is what a start shows of a `Replayed` world, and `LeftOver` the rest of
it, which `Start` keeps in `strays`. The user meets them in two ways: a point drawn
near one takes it into a route as a shared point (`DrawThroughStrays`), and the
list of marks shows those that are shared and deletes them (`DeleteStray`).
`PointsBelong` says of them that they stay as they are but for these two.

An edit is modelled only while `lossy` is empty; then comes a save or a crash.
`m_bdirty`, on which the save at the end of a track depends, is never
initialised, so `StartSave` may or may not happen at any time. Two marks of one
name and position are not modelled (`LoadMark` would drop one), nor a point twice
in one route, tracks, layers, plugins and undo. A left-over object cannot be
dragged, since nothing made it selectable; that the properties dialog moves one
that is shared, and that the other look-ups of a nearby point (pasting, extending
a route, dropping a point on another) find one, is not modelled. The arrival radius, range rings and
visibility of a point that survives a replay as part of another route keep
their old values; `pos` does not stand for them.

### DataStream

A stream is an object of `Ids`; its id is used again only after nothing refers
to the old object. A serial stream has a reader thread, whose steps (`pc`) are
cut where it reads or writes something shared: the run flag, the active flag,
the queue, the port, and the static count `retries`, which each thread reads
(`seen`) and stores in two steps. A network stream is driven by socket events
(`evq`), `m_socket_timer` and the watchdog, on the main thread.

| variable | code |
|---|---|
| `obj` | constructed, off the list but not freed, freed |
| `flag`, `active`, `sec` | `m_Thread_run_flag`, `m_bsec_thread_active`, `m_pSecondary_Thread` |
| `port`, `plugged`, `outq` | the serial port, the device, the length of `out_que` |
| `retries`, `seen` | the static count of failed attempts; a thread's copy of it |
| `sock`, `evq`, `timer`, `dogTimer`, `dog` | socket state, posted events, the two timers, `m_dog_value` |
| `muxq` | posted stream events |
| `main` | what the main thread is in the middle of: waiting in `Close`, clearing the list, an upload |

`Close` waits up to 10 seconds, which is modelled as waiting for the reader's
end, or, with "hang", giving up. Counts above their limit are one value (`More`).
Five habits: "resume" (on in the run) restarts all streams after a suspend.
"early" closes a stream whose thread has not reported itself, and breaks
`NoOrphanReader` and `OwnerOutlivesReader`. "hang" lets a device call outlast
the wait, with the same effect. "stale" lets a write fail while the connection
event is pending, after which an output-only client never reconnects, and
`NeverAbandoned` fails (section 5). "late" closes a stream whose events are pending, which then start timers of a closed
stream.

The peer of any network stream may fall silent without a word (`PeerFallsSilent`).
Only a TCP client that reads notices: the watchdog is not started for others
(`datastream.cpp:661-672`) and does nothing for them (line 509). A gpsd or
output-only client whose peer fell silent stays as it is, for good if nothing is
written to it. `NeverAbandoned` and `Reconnects` say this of them: the first
promises a silent peer's discovery to reading TCP clients only, the second lets
the others stay on a silent peer for ever.

Not in the model: UDP, the TCP server, Garmin, and the serial readers
built without `ocpnUSE_NEWSERIAL`; filters, checksums and priorities.

### AisAlert

| variable | code |
|---|---|
| `list` | `AISTargetList`, from MMSI to object |
| `tgt` | the objects: class, whether the conditions of an alert hold, `b_active`, age, `n_alert_state`, `b_in_ack_timeout`, `b_suppress_audio`, `b_isDSCtarget` |
| `tentative`, `lastDsc`, `dscTimer` | the pending distress call, the last DSC sentence, its timer |
| `dialog` | `g_pais_alert_dialog_active` |
| `playing`, `onFinished`, `sounding`, `tails`, `finished`, `main` | `m_bAIS_AlertPlaying`, the callback, the sound thread before and after it calls back, the posted event, and the main thread between `SetFinishedCallback` and `Play` |

`OnTimerAIS` is one step: it removes old targets, computes the alerts, chooses
the target to show or keeps the dialog, and starts the sound. CPA is a value
that changes on its own (`Drift`); ages come in three steps, with the ages of
position and static data as one. The options that mark and remove lost targets
and that sound the alert are on, and the sound files can be loaded. DSC calls
that only tell a position, ARPA, APRS, buddies and ignored targets are left out.

Habits: "iconized" (on in the run) keeps the dialog from being shown. "skip" is
in section 5. "mixed" (an extension about another vessel than the pending call)
lists one object under two MMSIs, and `ListedTargetsAlive` fails when the timer
deletes it (`AIS_Decoder.cpp:1467`). "burst" (a DSC sentence without position
within a second of a call) makes the timer process the wrong sentence, and
`DistressHeard` fails (`AIS_Decoder.cpp:1269`). "tail" (the sound thread still
has to clear `m_onFinished` at the next tick, a second later) clears the callback
of the next sound, after which `playing` stays set and `AlertKeepsSounding`
fails (section 5).

`DistressStands` allows a call for help two ends: the step that acknowledges the
dialog that shows it, and the tick that deletes a target at its greatest age.
Every other step, also while that dialog is open, leaves it a call.

### UndoStack

`u` is the record of the points, the lists and the stack, because the handlers
nest as those of `RouteNav` do.

| field | code |
|---|---|
| `life`, `iso`, `shared`, `pos` | a point: not made, alive, freed; `m_bIsolatedMark`, `m_bIsShared`; where it is |
| `listed`, `shown` | `m_pWayPointList`; the route points of `pSelect` |
| `route`, `drawing` | the points of one route, `m_routeState` > 0 |
| `stack`, `sp`, `cand` | `undoStack`, `stackpointer`, `candidate` |

The two lists differ on purpose: a nearby point is looked for on the first, a
point to drag or delete on the second, and the code keeps them apart in one
place (section 5). The menu of a point takes it out of the route
(`RemovePointFromRoute`) or deletes it (`DestroyWaypoint`), and neither tells the
stack. The point itself is not freed by that, but if the route is left with one
point, that one is, with the route. It cannot have been appended while the stack
remembered it (`FinishRoute` empties the stack), so undo and redo never put it
back (`PutBackAlive`); but it may have been moved, and the undo of the move then
writes to freed memory. `PutBackAlive` therefore excepts the records of moves.
Habits: "loop" leads a route through its own point again;
then `doUndoAppendWaypoint` takes out the first occurrence (`UndoRedoInverse`
fails) and a drop on another point frees one that is still in the route
(`NoShownPointFreed`, `PutBackAlive`). "mid" is undo while a point is being
dragged, after which the recorded start of the move is wrong (`UndoRedoInverse`).

Not in the model, though they undermine the same properties in the code: the
end of a canvas (`~Undo` deletes the points of all actions, also of those that
were undone and whose points are in use again), the unrecorded points of
a great circle leg, and the select item that a move keeps (`undo.cpp:114`),
which a deletion and its undo replace.

## 3. Runs

| run | instance | shows |
|---|---|---|
| `senc_safety` | 3 charts of 2 cells, 2 slots, exceptions, ParseAllENC over one cell | `TypeOK`, `OneWorkerPerCell`, `TicketsInUseExist`, `ListedChartsAlive`, `RefusalReliesOnLiveJob` |
| `senc_slots` | 3 cells, 1 slot, exceptions, ParseAllENC over all | `WorkersBounded`, `NoIdleSlot`, `LockHeldByBuilder`, and that `JobPool` is implemented |
| `senc_live` | 2 cells, 1 slot, ParseAllENC, fairness | `EveryJobFinishes`, `BuiltChartIsLoaded` |
| `senc_purge` | 2 cells | violates `FinishedChartsAlive` |
| `route_safety` | 2 routes, 1 mark and 2 further points, "switch" | `TypeOK`, `ActiveRouteIntact`, `RoutePointsAlive`, `InRouteFlagExact`, `NothingUnsaved`, `MarksSurvive`, `FlagsFollow` |
| `route_live` | 1 route, fairness | `RouteEnds`, `PassedPointsCount` |
| `nav_store` | 3 points, 2 routes of 4 points together, 3 records, 1 left-over object | `TypeOK`, `Recoverable`, `PointsBelong` |
| `streams` | 2 streams: two serial ports, or one and a TCP client, or an output-only client and gpsd; "resume", fairness | `TypeOK`, `OwnerOutlivesReader`, `NoOrphanReader`, `NeverAbandoned`, `MainReturns`, `LinkRestored`, `Reconnects` |
| `stream_orphan` | the same, "early" | violates `NoOrphanReader` |
| `ais` | 1 ship, 1 SART, "iconized", fairness | `TypeOK`, `ListedTargetsAlive`, `DistressStands`, `DistressHeard`, `AlertsAnswered`, `AlertKeepsSounding` |
| `ais_skip` | 1 ship, "skip" | violates `AckEndsWithAlert` |
| `undo` | 4 points, 2 actions, a route of 3 | `TypeOK`, `NoShownPointFreed`, `PutBackAlive`, `UndoRedoInverse` |

Bounds and why they are enough. Three chart objects over two cells give a chart
that is closed and opened again, with slots enough for two workers on one cell
and another cell that competes for them. In `senc_slots` two tickets can wait
for the one slot, so that their order shows, and exceptions free the mutex but
not the slot. Charts and cells are exchanged together in its symmetry;
`senc_live` uses none. In `RouteNav` three points and `MaxLen` 3
give a first, a middle and a last point, and two routes give points shared by
both; `MaxLen` also bounds the points of a route where the code has no bound.
The count of fixes that move away is capped at 3, above which the test
`++m_arrival_test > 2` cannot tell it. Points that were freed are not made
again, so every run of an instance without fairness comes to an end of new
points: `MaxLen` and `Points` bound the length of histories, not their order.
In `NavObjectStore` three points make a route that survives the loss of one, and
two routes of two share points; three records are what the longest command
writes (a point taken out of a route of two, or deleted from two routes), and let
earlier records meet later ones on an old or a new document; saves and crashes
are not bounded. `Movers` lets one point move, and `MaxVersion` once. `MaxStrays`
bounds the left-over objects beside which the user goes on editing (a replay may
leave more): one in `nav_store`. With three, among them two of one GUID, at the price of a
point (600 thousand states), the result was the same. Longer
change sets (5 records) with fewer routes or points gave the same result.
In `DataStream` one failed attempt below the limit and one at it (`RetryLimit` 1
for 10) are all the code distinguishes, as are an empty and a full queue
(`QueueLength` 1) and a watchdog that is fed and one that runs out; two posted
socket events let one overtake a timer; one fault follows the device that is
absent from the start (`Absent`), and two openings let each stream be there;
they bound the length of a history. `AisAlert` has one target of each class,
which compete for the one dialog, and one sound thread that is slow to end.
Four points in `UndoStack` make a route of three beside a mark to drop a point
on, and a third action pushes the oldest off the stack; a stack of three over
four points (10 million states) gave the same result. Points are not made
again, which bounds histories.

## 4. Fairness

`SencBuild`: the event loop of the main thread takes posted events, threads are
scheduled (weak fairness of each worker's steps, of the mutex, and of the
handlers). A worker's return is strongly fair: a cell has finitely many
features, so it does not tessellate for ever, although each tessellation
disables the return. Nothing obliges the user to open or close a chart, or
`ParseAllENC` to go on to the next cell. Exceptions are excluded in `senc_live`:
one of them leaves its ticket listed for ever.

`RouteNav`: a modal question is answered, and the loop of `DeleteAllWaypoints`
runs to its end. Where the ship goes is no matter of fairness; the two properties
have it as a premise. In both the user leaves the route alone from some time on.
`RouteEnds` then assumes that the timer, whatever else it finds, keeps finding
the ship at the point it sails to; `PassedPointsCount` that it only finds the ship
moving away, and that the option to arrive by entering only (`ArrivalOnly`) is
off.

`DataStream`: threads run, timers fire, posted events are handled, the main
thread finishes what it began (weak fairness of each); a peer that is asked in
the end accepts, and a device that was unplugged is plugged in again. Nothing
obliges the user, a fault, a silent peer to speak, or a sentence. `LinkRestored` assumes that no thread
is kept in its output loop for ever.

`AisAlert`: the main thread gets to both timers and to the event of a finished
sound though it is busy now and then (strong fairness, since the step that
starts a sound disables them), the frame is not iconized for ever, and a sound
ends. Nothing obliges a ship to report or the user to answer; `AlertsAnswered`
assumes in addition that news stops and dialogs are answered.

## 5. Disagreements found

Shown by a run:

* `FinishedChartsAlive` (`senc_purge`): `OnEvtThread` removes the ticket from the
  list before it forwards the event. A chart purged between the two handlers
  does not find its ticket, and the frame calls `PostInit` on a destroyed chart.
* `NoOrphanReader` (`stream_orphan`): `Close` stops a thread only if it has
  reported itself active. A stream closed earlier, or the stream of an upload
  given up after 5 seconds (`multiplexer.cpp:586`), leaves a reader behind, where
  `options.cpp:7799` means "to avoid orphans".
* `AckEndsWithAlert` (`ais_skip`): the options about moored and distant targets
  leave the loop before the acknowledgement is looked at
  (`AIS_Decoder.cpp:2341-2362`). It outlives its alert, and the next incursion of
  the target is silent, against the comment at line 2382.

Met while modelling, and named in the model (with the habit given, TLC finds the
property violated; the runs leave these habits out):

* An exception in a SENC worker (`SencManager.cpp:347`) leaves its ticket listed as
  started. The slot is lost, and every later request for the cell is dropped as a
  duplicate (line 118), where line 302 expects that "upstream will notice that
  nothing got done, and maybe try again later". `RefusalReliesOnLiveJob` names this
  exception.
* `DestroyWaypoint` takes a point out of each route once (`routeman.cpp:2276`,
  `Route.cpp:863`); a closed polygon keeps its other occurrence, and leads through
  a point that is no longer listed or selectable, where `routeman.cpp:2266` means
  to "remove the point from them all" (`RoutePointsAlive`, "loop").
* The handler of a connection stops the timer (`datastream.cpp:674`) that a failed
  write has started since to "schedule a reconnect" (line 838). An output-only
  client has no watchdog and stays down (`NeverAbandoned`, "stale").
* The sound thread clears `m_onFinished` after the callback
  (`OcpnWxSound.cpp:59-60`). If the main thread has set it for the next sound by
  then, the end of that sound is never heard of, and no other sound follows, where
  `AIS_Decoder.cpp:2522` means "repeated sounds for as long as the alert condition
  remains" (`AlertKeepsSounding`, "tail").
* Delete in the menu of one of two route points frees the other without telling
  the undo stack (`canvasMenu.cpp:1603`): undoing a move of that one writes to freed
  memory.
* A gpsd or output-only client never notices that its peer fell silent
  (`datastream.cpp:509`).
* Replacing or wiping the point a leg starts from frees it while `UpdateProgress`
  still reads it (`chcanv.cpp:8936`).
* `OnRteActivateClick` does not deactivate the route that is active
  (`routemanagerdialog.cpp:1420`).
* `RemovePointFromRoute` makes an isolated mark and journals only the route; the
  replay deletes the mark with the old route. The other entries of `lossy` in
  section 2 are shortcomings of the same replay.
* A new point whose append is undone and redone is shown and in the route again,
  but not on the waypoint list, and counts as shared (`undo.cpp:188` has no
  `AddRoutePoint`, which line 132 has): once the route is deleted it is a mark no
  list knows. `UndoRedoInverse` excepts these two fields.
* Lost updates of the shared static `retries` let the pause between attempts
  exceed the 2.5 seconds of the comment (`OCP_DataStreamInput_Thread.cpp:427`).
* A reader kept in its output loop neither looks at the run flag nor reopens its
  port (lines 500-517).
* The repeated sound of a distress alert is the CPA sound, if that is enabled,
  because `audioType` is only set when the dialog is first shown
  (`AIS_Decoder.cpp:2683`); and it sounds once more after the dialog has closed
  itself (lines 2799-2806).
* Of several SARTs the last is shown, not the nearest: `sart_range` is never
  updated (line 2726).

## 6. Proofs

### SencBuildProofs

`SencBuildProofs` proves, for every set of charts and cells and every
`m_max_jobs`, that `TypeOK`, `OneWorkerPerCell`, `WorkersBounded`,
`TicketsInUseExist`, `ListedChartsAlive`, `LockHeldByBuilder` and `NoIdleSlot`
are invariants of `Spec`. The only assumption is `SencAssumption` on the constants, that
`Charts` is finite among them (slots are counted by `Cardinality`).

None of the properties is inductive. "Two workers never build one cell" needs
that a worker's ticket stays listed until its DONE event is handled, which needs
that there is at most one such event per ticket and that none arrives early.
`IInv` says this in parts:

* `CellsListedOnce`: no cell is in the list twice;
* `ListedStatus`, `WorkersListed`: listed tickets are pending or started, and a
  ticket with a working thread is listed and started;
* `NothingEarly`: before a ticket is started nothing of it exists;
* `ManagerEvents`, `FrameEvents`, `ReloadingLast`: an event belongs to a started
  ticket; a DONE event to one whose thread has exited, and it is the last event
  of its ticket; once it is with the frame the ticket is off the list;
* `SlotsBounded`: started tickets in the list are at most `MaxJobs`;
* `MainBuilds`: the main thread builds only inside `ParseAllENC`;
* with `TypeOK`, `ListedChartsAlive` and `LockHeldByBuilder` themselves.

`Init => IInv` and one lemma per action give `Invariance`; each theorem then
follows from `IInv`. `StartTopJobBounded` is the lemma about `StartTopJob` on
which the handlers of DONE events and of new requests rest. What `RemoveAt`,
`Append` and `Tail` do to the elements of a sequence is stated once, at the top
(`RemoveAtElements`, `AppendElements`, `TailElements`).

`NoIdleSlot` is not a part of `IInv` but an induction of its own on top of it.
A step adds one waiting ticket or frees one slot, never both, and then calls
`StartTopJob` once; `StartTopJobFills` says that one call is enough for that.
It finds the first pending ticket because a list that has one has a first one
(`FirstPendingExists`, from `LeastNumber`: every inhabited set of naturals has a
least element).

Two further results about the manager, both on top of `IInv`, are the second half
of the module.

`RefusedRequestsAreAnswered`: a request that is dropped because its cell is listed
relies on a ticket that still waits, is worked on, or has its result under way,
or else on one whose worker threw.
This is an action property about the moment of the refusal; what makes it true is
an invariant about all moments, `ListedAtWork`: every listed ticket is one of
these (`AtWork`). It is preserved because a ticket leaves the list in the very step that
takes its last event from the manager's queue (`AtWorkDone`).

`PoolImplemented` is the refinement of `JobPool`, for every number of slots and
with exceptions. A list is one sequence in the code and a set and a queue in the
abstract pool, so the proof needs that the started tickets are the first ones of
the list, `StartedFirst`: there is an `n` up to which the list is started and
after which it is pending. It is preserved because `StartTopJob` starts the first
pending ticket, and a DONE event removes a ticket that is started. With it
`Waiting` is the list after `n` (`WaitingAre`); a step is then a `Submit`
(`PoolSubmit`), a `Complete` (`PoolComplete`), or leaves list and statuses alone
(`PoolStep` sorts the actions). That a request which takes a slot at once does
not overtake one that waits is where `NoIdleSlot` is needed.

### RouteNavProofs

`RouteNavProofs` is about any points, marks, routes and length of routes, and
about a user who is `Settled`: without the habits "loop" and "ponder", under
which the properties fail, but with "switch". It proves all seven safety
properties of `route_safety`: `TypeOK`, `ActiveRouteIntact`, `RoutePointsAlive`,
`InRouteFlagExact`, `NothingUnsaved`, `FlagsFollow` and `MarksSurvive`.

The instance of TLC has two routes of at most three points. What an induction
needs beyond the properties themselves is

* `Tidy`: an unlisted route is empty, a point is in a route at most once, only
  listed routes are temporary, and only a point that has existed is flagged;
* `MarksShared`: a mark that is in a route is a shared one, whence
  `MarksSurvive`;
* `DragStands`: what a drag found when its question was put is still so when it
  is answered, which is where "ponder" would break the proof;
* `OneAtATime`: a route is drawn, a question asked, or all marks deleted, but one
  at a time; and the route being drawn is not a temporary one, so the timer does
  not delete it.

Since the handlers are operators on a state of the objects, the lemmas are about
them: `DeactivateSound`, `ActivateSound`, `NextPointSound`, `AddPointSound`,
`RemovePointSound`, `DeleteRoutesSound`, `DestroyWaypointSound`, `FreeSound` and
so on say that the call leaves the objects `Sound` (the properties and the first
two parts above) and the flags exact if they were. The lemma of an action puts
together those of its calls. `EnterSound` and `LeaveSound` do the work for
points that enter or leave routes at any place; the lemmas on sequences at the
top say what `Append`, `InsertAt`, `RemoveFirst`, `Reverse` and `Replace` do to
the elements of a route.

### DataStreamProofs

`DataStreamProofs` is about any streams, set-ups and limits, and about users and
devices that are `Patient`: no stream is closed before its reader thread has
started, and no device call outlasts the ten seconds its owner waits (the two
`Habits` of which `stream_orphan` shows one). It proves `TypeOK`,
`OwnerOutlivesReader` and `NoOrphanReader`.

Neither safety property is inductive: whether a thread may still touch its stream
when the owner frees it depends on what the two flags said when the owner looked
at them. `IInv` adds to the types

* `MainOK`: where the main thread goes on with a stream, it has one;
* `ReaderOwned`: a thread that has not ended belongs to a stream that is open and
  knows it, and has not yet reset the flag its owner waits on.

`LinksKept` is about network streams, and holds for all users and devices but
for the habit "stale" (a write that fails while the connection is still to be
reported). `NeverAbandoned` says of a stream that knows it has no connection that something
is under way to mend it, and of a TCP client that reads that a silent peer will be
noticed. For gpsd and output-only clients the theorem promises nothing about
silent peers, and the code does nothing about them. The first part is not
inductive: a timer that is set may be stopped by an event
posted earlier, about a connection that has been lost since. `LinkInv` therefore
looks at what will be left when the pending events have been handled: `News` is
a posted connection that no later loss makes old, and `Linked` says that a
socket that is down has a timer or a loss to be handled (an output-only client
also no news that would stop its timer), and that one that is up is
watched with no loss pending, or has news pending that sets the watchdog.

### AisAlertProofs

`AisAlertProofs` is about any ships and transmitters. `TypeOK` holds without a
condition and rests on `OneSound`: a sound is about to be played, playing, or
ended and not yet heard of, one at a time, and only while `m_bAIS_AlertPlaying`
is set; so one posted end at most is unhandled.

`ListedTargetsAlive` and `DistressStands` are proved for runs without the habit
"mixed". They are one induction: the object of a key is live and holds the MMSI
of its key, hence no two keys lead to one object, hence a report or a posted
call changes one target (`ReportStores`, `PostStores`), and a tick deletes the
object only with its key (`TickKeeps`). The second part, `CallsUnanswered`, says
of an object that calls for help that it is of the class and threat that alert,
of a ship, and not acknowledged, whatever dialog is open; otherwise the tick could
"reopen" it for AIS reports (`AgedCall`). `Effects` sorts the actions by what they do to the objects.

`AckEndsWithAlert` is proved without the habit "skip", from `NoneFar`: then the
loop of `UpdateAllAlarms` reaches the test of the acknowledgement for every
target. `ais_skip` shows that the condition is needed. TLC agrees on the instance of `ais`.

### UndoStackProofs

`UndoStackProofs` is about any points, any depth of the stack and any length of
the route. `TypeOK` holds for all habits. `NoShownPointFreed` and
`PutBackAlive` are proved for a `Plain` run: undo waits for the end of a drag
and no route is led through its own point, the two habits under which they fail
or the recorded start of a move is wrong.

What may be freed depends on where an action is in the stack, so the induction is
about positions:

* `PointsSound`: every point of the stack has been made, that of any other action
  than a move is alive, and an action is newer than the append that made its point, so what `InvalidateRedo` frees with the undone
  actions is named by none of those that stay;
* `AppendsSound`: the appends on the stack are of different points, each in the
  route exactly if it is not undone, and a route is being drawn while there are
  any (the condition at `undo.cpp:150`, `m_routeState == 0`, is thus never met);
* `UndoneSound`: the point of an undone append that owns it is on no list;
* `ShownSound`: `NoShownPointFreed`, and the route has no point twice;
* `DragSound`: between two handlers only a drag has a candidate, and nothing is
  undone then.

As in `RouteNavProofs` the lemmas are about the calls (`InvalidateRedoSound`,
`RecordSound`, `PushSound`, `UndoSound`, `RedoSound`, `EmptiedSound`,
`ScrapSound`), and those of the handlers put them together.

The second half of the module is about undo and redo. `UndoRedoAreInverse` proves `UndoRedoInverse` for a `Plain` run, any depth of
the stack and any length of the route. That a step back and forth restores the
state is not a matter of the two handlers alone: undoing the creation of a mark
takes it off the lists, and if it were not on them, redo would put it there. Each
action must find the lists as it left them, whatever has happened since. The
invariant `Reversible` says so of every position of the stack, not only of those
next to the stack pointer, since undo and redo move it along:

* `Ages`: the creation of a point is the oldest action on it and its deletion
  the newest, and no appended point is deleted;
* `CreatesSound`, `DeletesSound`: a point whose creation is undone is on no list,
  and one whose creation stands is on both, unless a later standing action deleted
  it; conversely for deletions;
* `RouteSound`: the route ends with the points of the standing appends in their
  order (`Behind`), and a point that left the route by undo is as it was.

`Among` is how these parts speak about the actions between two positions, and
`UndoneAmong`, `RedoneAmong` say how that changes when the pointer moves.
`DragReversible` says that no deletion of a point that is being dragged is on the
stack. All rests on the invariant of the first half. `UndoMeans` and `RedoMeans` list what a handler changes field by
field; `UndoneAndRedone` and `RedoneAndUndone` compose them into the identity, given
`Reversible`; the rest shows that every handler keeps it. TLC checked
`Reversible` with a stack of three (9.7 million states) before it was proved.

### NavObjectStoreProofs

`NavObjectStoreProofs` proves `TypeOK` and `PointsBelong` for any points, routes,
positions, records and left-over objects, any number of crashes, and any place of a
crash.

`PointsBelong` is about memory as an edit or a start leaves it, the objects that a
replay left over being told apart from the others. During a replay nobody tells
them apart. So the induction over the records keeps less, and what it keeps must
be enough to say of every object in the end to which of the two kinds it belongs:

* `Fits`: a world is typed and its routes lead through its objects;
* `FlagsOK`: an object in a route is flagged so and is no isolated mark, and no
  isolated mark is flagged as in a route; the left-over objects satisfy this;
* `NoneShort`: no route has one point, of the world and of the document alike
  (the last part of `IInv`, since a start may read the document at any time);
* `Flagged`: an object of the list is a mark or flagged as in a route, through all
  loading and replaying (`DocumentNeat`, `ChangesNeat`), whence the left-over ones
  are as `PointsBelong` says of them (`LeftOverAre`);
* `NoneLost`, kept by the edits but not by a replay: an object of the list is a
  mark or in a route. Where a route takes in left-over objects the induction over
  its points keeps instead which of them are still `Lacking` a route; in the end
  none is (`RouteDrawnIn`).

`Compacted` is where the two kinds part: what `Shown` keeps after a replay, and
`Held` after an edit, is a mark or in a route, and `FlagsOK` does the rest. It
rests on `SortedElements`, that the numbers of a set can be put in order, which is
an induction of its own (by `LeastNumber`).

One lemma for each call says what it does to a world (`ObjectAdded`, `PointAdded`,
`RoutesDropped`, `PointRemoved`, `Unlisted`, `PointDestroyed`), one for each loop
what going through all records does (`MarksLoaded`, `RouteLoaded`,
`DocumentLoaded`, `PointsPut`, `ChangesApplied`, `PointsDrawn`), one for each action
that it keeps `IInv`. A loop is a recursive function `after` over the records, whose
definition must first be shown to have a value; `StepsExist` does this for steps
that lead from one set of worlds into the next, and `StaysWithin` then says where
the last world is. TLC checked `IInv` on an
instance of two points and three left-over objects.

### NavPictureProofs and NavRecoveryProofs

`NothingLost` is `Spec => []Recoverable`: as long as `lossy` is empty, a start that
reads the two files shows what the user had, wherever the program died, for any
points, routes and positions, any length of the change set and any number of
crashes and restarts, with replays over an old document, over a new one, or over
none. Nothing is assumed but `NavAssumption`: the bounds are natural numbers, there is at least
one position, and the points that may be moved are among the points.

`Recoverable` itself says nothing that could be kept from step to step: objects are
numbered in the order in which they came into memory, and a start makes others,
in another order, among them some that nobody holds. The two worlds agree only in
what can be told by GUIDs, and this is a *picture*: which points are there and
where, which of them only their routes keep, and the points and the look of each
route. `Depicts(w, a)` says that `a` is the picture of `w`, and that a search by GUID
finds the object that counts although others were left over. `PictureSeen`: the
picture determines the `View`.

`NavPictureProofs` says of every call and loop what it does to the picture, then of
the document (`DocumentShows`, `DocumentDepicted`: it tells the whole picture, and
loading it gives the picture back), from which `SavedIsLoaded` follows: what is
saved is loaded as it was, in every state in which memory is not damaged. Then
come the records of the change set. They are replayed over two kinds of document:

* one that is older than the change set: after a crash in the middle of a session;
* one that is newer: after a crash between the save and the removal of the change
  set. Here the replay passes through pictures the user never had, since a route
  that was changed twice is first set back and then forward again.

One notion covers both, `Core`: the routes of a set `T` that have records are as the
user had them when the record was written, the others as in the document, and so
are the points except those that the user had already or has no more. `Fitting` is
what the two documents have in common (`Before`, `Descends`), `Replays` that the
records of an edit lead from the `Core` of one picture to that of the next, and there
is a lemma of this form for each kind of record (`ReplayAdd`, `ReplayMove`,
`ReplayDrop` and those of route records), for any document that fits.

`NavRecoveryProofs` first shows that no GUID is in use that was not made (`Limits`,
one lemma per action), then that an edit that loses nothing writes records that
`Replays` it (`EditingFollows`), and from both the invariant `RInv`:

* `Limits`, and of the left-over objects `StraysMade`, that their GUIDs were made
  (a conjunct of its own beside `RInv`);
* between the save and the removal of the change set the document is that of the
  objects in memory;
* while `lossy` is empty there is a picture `n` of what is in memory for which
  `Again` holds: applied to anything saved later, the change set spoils nothing; and,
  unless a save has taken place, `Since`: applied to the document, it leads to `n`.

Both parts of `Kept` are needed. `Since` alone is lost with the save that replaces the
document under the old records; `Again` takes its place, and because it speaks of
everything that may *come* of `n`, an edit keeps it (`AgainMore`) by the same lemma
about its records as `Since` (`SinceMore`). `Stale` are the GUIDs that a record has
left behind an object for and that have moved since: they are the ones for which
the next route record would find the wrong object, and `StaleOrphaned` shows that
`Orphaned` warns of each of them, which is where the loss "orphaned" enters;
`DeleteAllRoutes`, `RestyleRoute`, the removal from an only route and the use of a
left-over object drop out because they record a loss. What `lossy` names (section 2) is thus all that the proof needs
to exclude.

`Kept` speaks of all pictures and all later worlds, more than TLC could enumerate, so
`RInv` as a whole was not checked before it was proved. `Recoverable`, `IInv`, `Limits`,
`StraysMade`, what `RInv` says of a save, and the formula of `SavedIsLoaded` were, on the
same instance.

### Only model-checked

All liveness properties, which are outside what the prover does. Every invariant and
action property of the passing runs is also stated by a theorem, some of them, as
said above, for the habits under which they hold.

## 7. Not modelled

Most lines of the tree are not the program's own logic, and no module stands for
them: two copies of SQLite, Duktape, the magnetic model and its tables, an
emulation of OpenGL, wxWidgets add-ons, GDAL and more are copied into it. They
belong to other projects, and where a model needs one of them (posted events,
modal dialogs, sockets) it is modelled from how the program uses it. Of the rest:

* rendering, quilting, chart formats, tides, CPA and the geometry of tracks
  compute numbers or pixels from their input: there is no order of events to get
  wrong, and nothing for a model checker to explore;
* dialogs, settings, printing and platform code show or store values; the few
  handlers among them that change routes, targets or streams are in the models;
* bundled plugins are separate programs behind the plugin interface;
* decoding of sentences and bit strings is a conversion: its result is an input
  of `AisAlert`, chosen freely.

What of the modelled parts is left out is told with each module and in
`PROJECT.json`.

## 8. Plan

What is left, in this order:

1. `RouteNav`: joining and splitting of routes, and the answers to a drag that
   append or insert a route, with their lemmas in `RouteNavProofs`.
2. `NavObjectStore`: tracks, and a crash between two records of one command.
3. `UndoStack`: stacks of several canvases, and the end of a canvas.
4. `DataStream`: the TCP server and UDP.
5. `TextureJobs`: a second implementation of `JobPool`.
