----------------------------- MODULE DataStream -----------------------------
(***************************************************************************)
(* The data streams of the multiplexer (src/src/datastream.cpp,            *)
(* src/src/OCP_DataStreamInput_Thread.cpp, src/src/multiplexer.cpp).       *)
(*                                                                         *)
(* A serial stream owns a reader thread: the two share the run flag, the   *)
(* "active" flag and the output queue, and the threads of all ports share  *)
(* one count of failed attempts (a static variable).  A network stream     *)
(* lives on the main thread and is driven by socket events, a reconnection *)
(* timer and a watchdog.  Every sentence read is posted to the multiplexer,*)
(* which forwards it to the streams that write.                            *)
(***************************************************************************)
EXTENDS Naturals, Integers, Sequences, FiniteSets

CONSTANTS
  Ids,           \* the DataStream objects; an id is used again once freed
  NoId,          \* none of them
  Setups,        \* the configurations: what each object is opened as
  Absent,        \* the objects whose device is not there at first
  RetryLimit,    \* 10 in the code
  QueueLength,   \* OUT_QUEUE_LENGTH, 20 in the code
  DogTimeout,    \* N_DOG_TIMEOUT, 5 in the code
  MaxEvents,     \* bound: socket events under way
  MaxPosted,     \* bound: sentences posted to the multiplexer
  MaxFaults,     \* bound: device and network faults
  MaxOpens,      \* bound: streams opened
  Habits         \* what the run lets happen, see below

(***************************************************************************)
(* "early"  a stream may be closed before its thread has reported itself   *)
(* "hang"   a call to the device may outlast the wait in Close             *)
(* "resume" the streams are restarted after a system suspend               *)
(* "stale"  a write may fail while the event of its connection is pending  *)
(* "late"   a stream may be closed while socket events are pending for it  *)
(***************************************************************************)
HabitKinds == {"early", "hang", "resume", "stale", "late"}
Kinds == {"serial", "gpsd", "tcp", "tcpOut"}

ASSUME ConstantsAssumption ==
  /\ Setups \subseteq [Ids -> Kinds] /\ IsFiniteSet(Ids) /\ NoId \notin Ids
  /\ Absent \subseteq Ids
  /\ RetryLimit \in Nat /\ QueueLength \in Nat /\ DogTimeout \in Nat
  /\ MaxEvents \in Nat /\ MaxPosted \in Nat
  /\ MaxFaults \in Nat /\ MaxOpens \in Nat
  /\ Habits \subseteq HabitKinds

VARIABLES
  kind,      \* m_connection_type, m_net_protocol and m_io_select of an object
  obj,       \* "none", "open", "closed" (off the list, not freed), "deleted"
  flag,      \* m_Thread_run_flag
  active,    \* m_bsec_thread_active
  sec,       \* m_pSecondary_Thread # NULL
  pc,        \* where the reader thread is
  port,      \* its serial port: "closed", "good", or "stale" after unplugging
  plugged,   \* the device is there
  outq,      \* how many sentences out_que holds
  retries,   \* static size_t retries, shared by the threads
  seen,      \* the value of retries a thread has read and not yet stored
  sock,      \* m_sock: "none", "down", "connecting", "up", "mute"
  evq,       \* socket events posted and not yet handled
  timer,     \* m_socket_timer runs
  dogTimer,  \* m_socketread_watchdog_timer runs
  dog,       \* m_dog_value
  muxq,      \* stream events posted to the multiplexer: their sources
  main,      \* what the main thread is in the middle of
  faults, opens

serialVars == <<flag, active, sec, pc, port, plugged, outq, retries, seen>>
socketVars == <<sock, evq, timer, dogTimer, dog>>
vars == <<kind, obj, serialVars, socketVars, muxq, main, faults, opens>>

Serial(i) == kind[i] = "serial"
Client(i) == kind[i] \in {"tcp", "tcpOut"}
Writes(i) == kind[i] \in {"serial", "tcp", "tcpOut"}
Alive(i)  == pc[i] \notin {"none", "gone"}

Idle == [at |-> "idle", id |-> NoId, then |-> "idle"]
Busy(at, i, then) == [at |-> at, id |-> i, then |-> then]

Threads == {"none", "start", "announce", "test", "io", "nap", "bump", "count",
            "giveUp", "drain", "write", "exit", "inactive", "end", "gone"}

TypeOK ==
  /\ kind \in Setups
  /\ obj \in [Ids -> {"none", "open", "closed", "deleted"}]
  /\ flag \in [Ids -> {-1, 0, 1}]
  /\ active \in [Ids -> BOOLEAN] /\ sec \in [Ids -> BOOLEAN]
  /\ pc \in [Ids -> Threads]
  /\ port \in [Ids -> {"closed", "good", "stale"}]
  /\ plugged \in [Ids -> BOOLEAN]
  /\ outq \in [Ids -> 0 .. QueueLength]
  /\ retries \in 0 .. RetryLimit + 1 /\ seen \in [Ids -> 0 .. RetryLimit + 1]
  /\ sock \in [Ids -> {"none", "down", "connecting", "up", "mute"}]
  /\ evq \in [Ids -> Seq({"CONN", "LOST", "INPUT"})]
  /\ timer \in [Ids -> BOOLEAN] /\ dogTimer \in [Ids -> BOOLEAN]
  /\ dog \in [Ids -> 0 .. DogTimeout]
  /\ muxq \in Seq(Ids)
  /\ main.at \in {"idle", "wait", "clear", "temp", "await", "sent", "renew"}

Init ==
  /\ kind \in Setups
  /\ obj = [i \in Ids |-> "none"]
  /\ flag = [i \in Ids |-> -1]
  /\ active = [i \in Ids |-> FALSE] /\ sec = [i \in Ids |-> FALSE]
  /\ pc = [i \in Ids |-> "none"]
  /\ port = [i \in Ids |-> "closed"] 
  /\ plugged = [i \in Ids |-> Serial(i) /\ i \notin Absent]
  /\ outq = [i \in Ids |-> 0]
  /\ retries = 0 /\ seen = [i \in Ids |-> 0]
  /\ sock = [i \in Ids |-> "none"] /\ evq = [i \in Ids |-> <<>>]
  /\ timer = [i \in Ids |-> FALSE] /\ dogTimer = [i \in Ids |-> FALSE]
  /\ dog = [i \in Ids |-> 0]
  /\ muxq = <<>> /\ main = Idle /\ faults = 0 /\ opens = 0

-----------------------------------------------------------------------------
(* Opening and closing, on the main thread. *)

InUse(i) == \E k \in 1 .. Len(muxq) : muxq[k] = i

Free(i) ==
  \/ obj[i] = "none"
  \/ /\ obj[i] \in {"closed", "deleted"} /\ ~Alive(i)
     /\ evq[i] = <<>> /\ ~timer[i] /\ ~dogTimer[i]
     /\ obj[i] = "deleted" => ~InUse(i)

(* DataStream's constructor: Init, then Open for the kind of the stream. *)
Open(i) ==
  /\ Free(i)
  /\ obj' = [obj EXCEPT ![i] = "open"]
  /\ sec' = [sec EXCEPT ![i] = Serial(i)]
  /\ active' = [active EXCEPT ![i] = FALSE]
  /\ flag' = [flag EXCEPT ![i] = IF Serial(i) THEN 1 ELSE -1]
  /\ pc' = [pc EXCEPT ![i] = IF Serial(i) THEN "start" ELSE "none"]
  /\ port' = [port EXCEPT ![i] = "closed"]
  /\ outq' = [outq EXCEPT ![i] = 0]
  /\ sock' = [sock EXCEPT ![i] = CASE Serial(i) -> "none"
                                   [] Client(i) -> "down"
                                   [] OTHER -> "connecting"]
  /\ timer' = [timer EXCEPT ![i] = Client(i)]
  /\ UNCHANGED <<plugged, retries, seen, evq, dogTimer, dog>>

(* AddStream of a stream made from the connection parameters. *)
AddStream(i) ==
  /\ main = Idle /\ opens < MaxOpens
  /\ Open(i)
  /\ opens' = opens + 1
  /\ UNCHANGED <<kind, muxq, main, faults>>

(* The second half of Close: everything after the wait for the thread. *)
Detach(i, then) ==
  /\ obj' = [obj EXCEPT ![i] = IF then \in {"quit", "resume"} THEN "deleted"
                                                              ELSE "closed"]
  /\ sec' = [sec EXCEPT ![i] = FALSE]
  /\ active' = [active EXCEPT ![i] = FALSE]
  /\ sock' = [sock EXCEPT ![i] = "none"]
  /\ timer' = [timer EXCEPT ![i] = FALSE]
  /\ dogTimer' = [dogTimer EXCEPT ![i] = FALSE]
  /\ evq' = [evq EXCEPT ![i] = IF then \in {"quit", "resume"} THEN <<>> ELSE @]
  /\ UNCHANGED <<pc, port, plugged, outq, retries, seen, dog>>

(* What the caller of Close does next. ClearStreams goes on to the next    *)
(* stream; at exit the multiplexer has been disconnected from the events.  *)
Continue(i, then) ==
  LET rest == {j \in Ids \ {i} : obj[j] = "open"} IN
  CASE then \in {"quit", "resume"} /\ rest # {} ->
         /\ \E j \in rest : main' = Busy("clear", j, then)
         /\ UNCHANGED muxq
    [] then = "quit" /\ rest = {} -> main' = Idle /\ muxq' = <<>>
    [] then = "upload"  -> main' = Busy("temp", i, then) /\ UNCHANGED muxq
    [] then = "restore" -> main' = Busy("renew", i, then) /\ UNCHANGED muxq
    [] OTHER -> main' = Idle /\ UNCHANGED muxq

(* Mutant: Close neither tells the thread to stop nor waits. *)
Close_Mutant(i, then) ==
  /\ Detach(i, then) /\ Continue(i, then) /\ UNCHANGED flag

(* Close: the thread is told to stop only if it has reported itself, and   *)
(* the main thread then waits for it.                                      *)
Close(i, then) ==
  IF sec[i] /\ active[i]
    THEN /\ flag' = [flag EXCEPT ![i] = 0]
         /\ main' = Busy("wait", i, then)
         /\ UNCHANGED <<obj, active, sec, pc, port, plugged, outq, retries,
                        seen, socketVars, muxq>>
    ELSE /\ sec[i] => "early" \in Habits
         /\ evq[i] # <<>> /\ then = "remove" => "late" \in Habits
         /\ Detach(i, then) /\ Continue(i, then)
         /\ UNCHANGED flag

(* The wait in Close ends when the thread has reset the flag, or after ten *)
(* seconds.                                                                *)
WaitEnds ==
  /\ main.at = "wait"
  /\ \/ flag[main.id] < 0
     \/ "hang" \in Habits /\ pc[main.id] \in {"io", "nap", "write"}
  /\ Detach(main.id, main.then) /\ Continue(main.id, main.then)
  /\ UNCHANGED <<kind, flag, faults, opens>>

(* StopAndRemoveStream, from the options dialog and the platform code. *)
StopAndRemoveStream(i) ==
  /\ main = Idle /\ obj[i] = "open"
  /\ Close(i, "remove")
  /\ UNCHANGED <<kind, faults, opens>>

(* ClearStreams, at exit and after a system suspend; StartAllStreams is a  *)
(* series of AddStream.                                                    *)
Reported == \A i \in Ids : obj[i] = "open" /\ sec[i] => active[i]

ClearStreams(why) ==
  /\ main = Idle /\ (Reported \/ "early" \in Habits)
  /\ \E i \in Ids : obj[i] = "open" /\ Close(i, why)
  /\ UNCHANGED <<kind, faults, opens>>

Quit == ClearStreams("quit")
OnResume == "resume" \in Habits /\ ClearStreams("resume")

ClearNext ==
  /\ main.at = "clear"
  /\ Close(main.id, main.then)
  /\ UNCHANGED <<kind, faults, opens>>

-----------------------------------------------------------------------------
(* SendRouteToGPS, SendWaypointToGPS: the stream of the port, if any, gives *)
(* way to a temporary one and is made anew at the end.                      *)

UploadBegin ==
  /\ main = Idle /\ opens < MaxOpens
  /\ \/ \E i \in Ids : obj[i] = "open" /\ Serial(i) /\ Close(i, "upload")
     \/ /\ \A i \in Ids : obj[i] = "open" => ~Serial(i)
        /\ \E i \in Ids : Serial(i) /\ Free(i)
        /\ main' = Busy("temp", NoId, "alone")
        /\ UNCHANGED <<obj, serialVars, socketVars, muxq>>
  /\ opens' = opens + 1
  /\ UNCHANGED <<kind, faults>>

UploadOpen ==
  /\ main.at = "temp"
  /\ \E j \in Ids : Serial(j) /\ Open(j) /\ main' = Busy("await", j, main.then)
  /\ UNCHANGED <<kind, muxq, faults, opens>>

UploadSend ==
  LET j == main.id IN
  /\ main.at = "await" /\ active[j]
  /\ outq' = [outq EXCEPT ![j] = IF @ < QueueLength THEN @ + 1 ELSE @]
  /\ main' = Busy("sent", j, main.then)
  /\ UNCHANGED <<kind, obj, flag, active, sec, pc, port, plugged, retries, seen,
                 socketVars, muxq, faults, opens>>

UploadClose ==
  /\ \/ main.at = "sent"
     \/ main.at = "await" /\ ~active[main.id]
  /\ Close(main.id, IF main.then = "upload" THEN "restore" ELSE "remove")
  /\ UNCHANGED <<kind, faults, opens>>

(* CreateAndRestoreSavedStreamProperties *)
UploadRestore ==
  /\ main.at = "renew"
  /\ \E j \in Ids : Serial(j) /\ Open(j)
  /\ main' = Idle
  /\ UNCHANGED <<kind, muxq, faults, opens>>

-----------------------------------------------------------------------------
(* The reader thread: OCP_DataStreamInput_Thread::Entry. *)

Step(i, from, to) == pc[i] = from /\ pc' = [pc EXCEPT ![i] = to]

Rest == <<kind, obj, sec, plugged, socketVars, main, faults, opens>>

(* OpenComPortPhysical succeeds if the device is there. *)
Opened(i) == IF plugged[i] THEN "good" ELSE "closed"

FirstOpen(i) ==
  /\ Step(i, "start", "announce")
  /\ port' = [port EXCEPT ![i] = Opened(i)]
  /\ UNCHANGED <<Rest, flag, active, outq, retries, seen, muxq>>

Announce(i) ==                            \* SetSecThreadActive
  /\ Step(i, "announce", "test")
  /\ active' = [active EXCEPT ![i] = TRUE]
  /\ UNCHANGED <<Rest, flag, port, outq, retries, seen, muxq>>

LoopTest(i) ==
  /\ Step(i, "test", IF flag[i] > 0 THEN "io" ELSE "exit")
  /\ UNCHANGED <<Rest, flag, active, port, outq, retries, seen, muxq>>

(* A read on a port that works ends with a sentence or with the timeout. *)
Read(i) ==
  /\ Step(i, "io", "drain") /\ port[i] = "good"
  /\ muxq' \in {muxq} \cup (IF Len(muxq) < MaxPosted THEN {Append(muxq, i)} ELSE {})
  /\ UNCHANGED <<Rest, flag, active, port, outq, retries, seen>>

(* A read or a write that throws loads the shared count ... *)
Throw(i) ==
  /\ \/ Step(i, "io", "count") /\ port[i] = "stale"
     \/ Step(i, "write", "count") /\ port[i] # "good"
  /\ seen' = [seen EXCEPT ![i] = retries]
  /\ UNCHANGED <<Rest, flag, active, port, outq, retries, muxq>>

(* ... and stores it increased: 10 < retries++. Nothing tells counts above *)
(* the limit apart, but the length of a nap; they are one value here.      *)
More(n) == IF n > RetryLimit THEN n ELSE n + 1

Count(i) ==
  /\ Step(i, "count", IF RetryLimit < seen[i] THEN "giveUp" ELSE "drain")
  /\ retries' = More(seen[i])
  /\ seen' = [seen EXCEPT ![i] = 0]
  /\ UNCHANGED <<Rest, flag, active, port, outq, muxq>>

(* Mutant: the count is reset but the dead handle is kept. *)
GiveUp_Mutant(i) ==
  /\ Step(i, "giveUp", "drain")
  /\ retries' = 0
  /\ UNCHANGED <<Rest, flag, active, port, outq, seen, muxq>>

GiveUp(i) ==
  /\ Step(i, "giveUp", "drain")
  /\ port' = [port EXCEPT ![i] = "closed"] /\ retries' = 0
  /\ UNCHANGED <<Rest, flag, active, outq, seen, muxq>>

(* The port is closed: sleep for 250 ms times the count, ... *)
Nap(i) ==
  /\ Step(i, "io", "nap") /\ port[i] = "closed"
  /\ seen' = [seen EXCEPT ![i] = retries]
  /\ UNCHANGED <<Rest, flag, active, port, outq, retries, muxq>>

(* ... then try to open it. *)
Reopen(i) ==
  /\ port' = [port EXCEPT ![i] = Opened(i)]
  /\ IF plugged[i]
       THEN Step(i, "nap", "drain") /\ retries' = 0
       ELSE /\ Step(i, "nap", IF retries < RetryLimit THEN "bump" ELSE "drain")
            /\ UNCHANGED retries
  /\ seen' = [seen EXCEPT ![i] = IF pc'[i] = "bump" THEN retries ELSE 0]
  /\ UNCHANGED <<Rest, flag, active, outq, muxq>>

Bump(i) ==
  /\ Step(i, "bump", "drain")
  /\ retries' = More(seen[i])
  /\ seen' = [seen EXCEPT ![i] = 0]
  /\ UNCHANGED <<Rest, flag, active, port, outq, muxq>>

(* The output queue is emptied before the flag is looked at again. *)
Drain(i) ==
  /\ Step(i, "drain", IF outq[i] = 0 THEN "test" ELSE "write")
  /\ outq' = [outq EXCEPT ![i] = IF @ = 0 THEN 0 ELSE @ - 1]
  /\ UNCHANGED <<Rest, flag, active, port, retries, seen, muxq>>

Write(i) ==
  /\ Step(i, "write", "drain") /\ port[i] = "good"
  /\ UNCHANGED <<Rest, flag, active, port, outq, retries, seen, muxq>>

Exit(i) ==
  /\ Step(i, "exit", "inactive")
  /\ port' = [port EXCEPT ![i] = "closed"]
  /\ UNCHANGED <<Rest, flag, active, outq, retries, seen, muxq>>

(* Mutant: the owner is released before the thread's last use of it. *)
GoInactive_Mutant(i) ==
  /\ Step(i, "inactive", "end")
  /\ flag' = [flag EXCEPT ![i] = -1]
  /\ UNCHANGED <<Rest, active, port, outq, retries, seen, muxq>>

GoInactive(i) ==                          \* SetSecThreadInActive
  /\ Step(i, "inactive", "end")
  /\ active' = [active EXCEPT ![i] = FALSE]
  /\ UNCHANGED <<Rest, flag, port, outq, retries, seen, muxq>>

(* Mutant: the thread ends without resetting the flag. *)
End_Mutant(i) ==
  /\ Step(i, "end", "gone")
  /\ UNCHANGED <<Rest, flag, active, port, outq, retries, seen, muxq>>

End(i) ==
  /\ Step(i, "end", "gone")
  /\ flag' = [flag EXCEPT ![i] = -1]
  /\ UNCHANGED <<Rest, active, port, outq, retries, seen, muxq>>

Thread(i) ==
  \/ FirstOpen(i) \/ Announce(i) \/ LoopTest(i) \/ Read(i) \/ Throw(i)
  \/ Count(i) \/ GiveUp(i) \/ Nap(i) \/ Reopen(i) \/ Bump(i) \/ Drain(i)
  \/ Write(i) \/ Exit(i) \/ GoInactive(i) \/ End(i)

(* The device comes and goes; a handle does not survive its absence. *)
Unplug(i) ==
  /\ Serial(i) /\ obj[i] = "open" /\ plugged[i] /\ faults < MaxFaults
  /\ plugged' = [plugged EXCEPT ![i] = FALSE]
  /\ port' = [port EXCEPT ![i] = IF @ = "good" THEN "stale" ELSE @]
  /\ faults' = faults + 1
  /\ UNCHANGED <<kind, obj, flag, active, sec, pc, outq, retries, seen,
                 socketVars, muxq, main, opens>>

Plug(i) ==
  /\ Serial(i) /\ ~plugged[i]
  /\ plugged' = [plugged EXCEPT ![i] = TRUE]
  /\ UNCHANGED <<kind, obj, flag, active, sec, pc, port, outq, retries, seen,
                 socketVars, muxq, main, faults, opens>>

-----------------------------------------------------------------------------
(* Network streams: the operating system, the timers and OnSocketEvent. *)

SocketRest == <<kind, obj, serialVars, main, opens>>

(* An event reaches the handler while its stream is notified of events. *)
Tell(i, e) == Len(evq[i]) < MaxEvents /\ evq' = [evq EXCEPT ![i] = Append(@, e)]

PeerAccepts(i) ==
  /\ sock[i] = "connecting"
  /\ sock' = [sock EXCEPT ![i] = "up"]
  /\ Tell(i, "CONN")
  /\ UNCHANGED <<SocketRest, timer, dogTimer, dog, muxq, faults>>

PeerDrops(i) ==                        \* refused, or lost later on
  /\ sock[i] \in {"connecting", "up"} /\ faults < MaxFaults
  /\ sock' = [sock EXCEPT ![i] = "down"]
  /\ Tell(i, "LOST")
  /\ faults' = faults + 1
  /\ UNCHANGED <<SocketRest, timer, dogTimer, dog, muxq>>

PeerFallsSilent(i) ==                  \* gone without a word
  /\ sock[i] = "up" /\ faults < MaxFaults
  /\ sock' = [sock EXCEPT ![i] = "mute"]
  /\ faults' = faults + 1
  /\ UNCHANGED <<SocketRest, evq, timer, dogTimer, dog, muxq>>

PeerTalks(i) ==
  /\ sock[i] = "up" /\ kind[i] # "tcpOut"
  /\ Tell(i, "INPUT")
  /\ UNCHANGED <<SocketRest, sock, timer, dogTimer, dog, muxq, faults>>

OnTimerSocket(i) ==
  /\ main = Idle /\ timer[i]
  /\ LET again == sock[i] \in {"down", "connecting"} IN
       /\ timer' = [timer EXCEPT ![i] = again]
       /\ sock' = [sock EXCEPT ![i] = IF again THEN "connecting" ELSE @]
  /\ UNCHANGED <<SocketRest, evq, dogTimer, dog, muxq, faults>>

(* Mutant: the watchdog closes the socket and schedules no reconnection. *)
OnSocketReadWatchdogTimer_Mutant(i) ==
  /\ main = Idle /\ dogTimer[i]
  /\ dog' = [dog EXCEPT ![i] = IF @ = 0 THEN 0 ELSE @ - 1]
  /\ IF dog[i] <= 1
       THEN /\ sock' = [sock EXCEPT ![i] = IF @ = "none" THEN @ ELSE "down"]
            /\ dogTimer' = [dogTimer EXCEPT ![i] = FALSE]
       ELSE UNCHANGED <<sock, dogTimer>>
  /\ UNCHANGED <<SocketRest, evq, timer, muxq, faults>>

OnSocketReadWatchdogTimer(i) ==
  /\ main = Idle /\ dogTimer[i]
  /\ dog' = [dog EXCEPT ![i] = IF @ = 0 THEN 0 ELSE @ - 1]
  /\ IF dog[i] <= 1
       THEN /\ sock' = [sock EXCEPT ![i] = IF @ = "none" THEN @ ELSE "down"]
            /\ timer' = [timer EXCEPT ![i] = TRUE]
            /\ dogTimer' = [dogTimer EXCEPT ![i] = FALSE]
       ELSE UNCHANGED <<sock, timer, dogTimer>>
  /\ UNCHANGED <<SocketRest, evq, muxq, faults>>

SocketEvent(i, e) ==
  /\ main = Idle /\ evq[i] # <<>> /\ Head(evq[i]) = e
  /\ evq' = [evq EXCEPT ![i] = Tail(@)]
  /\ UNCHANGED <<SocketRest, sock, faults>>

(* Mutant: feeding overshoots the timeout. *)
OnInput_Mutant(i) ==
  /\ SocketEvent(i, "INPUT")
  /\ dog' = [dog EXCEPT ![i] = DogTimeout + 1]
  /\ UNCHANGED <<timer, dogTimer, muxq>>

(* A sentence is taken from a socket that still works, and posted. *)
OnInput(i) ==
  /\ SocketEvent(i, "INPUT")
  /\ dog' = [dog EXCEPT ![i] = DogTimeout]
  /\ IF sock[i] = "up" /\ Len(muxq) < MaxPosted
       THEN muxq' = Append(muxq, i)
       ELSE UNCHANGED muxq
  /\ UNCHANGED <<timer, dogTimer>>

(* Mutant: a lost connection stops the watchdog and starts nothing. *)
OnLost_Mutant(i) ==
  /\ SocketEvent(i, "LOST")
  /\ dogTimer' = [dogTimer EXCEPT ![i] = FALSE]
  /\ UNCHANGED <<timer, dog, muxq>>

OnLost(i) ==
  /\ SocketEvent(i, "LOST")
  /\ dogTimer' = [dogTimer EXCEPT ![i] = FALSE]
  /\ timer' = [timer EXCEPT ![i] = TRUE]
  /\ UNCHANGED <<dog, muxq>>

OnConnection(i) ==
  /\ SocketEvent(i, "CONN")
  /\ IF Client(i)
       THEN /\ dog' = [dog EXCEPT ![i] = DogTimeout]
            /\ dogTimer' = [dogTimer EXCEPT ![i] = @ \/ kind[i] = "tcp"]
            /\ timer' = [timer EXCEPT ![i] = FALSE]
       ELSE UNCHANGED <<dog, dogTimer, timer>>
  /\ UNCHANGED muxq

-----------------------------------------------------------------------------
(* The multiplexer sends a sentence to the streams that write. *)

Pending(i, e) == \E k \in 1 .. Len(evq[i]) : evq[i][k] = e

(* The sockets on which a write may fail now: the socket is then closed, a *)
(* reconnection is scheduled and the watchdog stops.                       *)
Breakable(i) ==
  /\ obj[i] = "open" /\ Client(i) /\ sock[i] \in {"up", "mute"}
  /\ kind[i] = "tcpOut" /\ Pending(i, "CONN") => "stale" \in Habits

SendSentence(to) ==
  \E bad \in SUBSET {i \in to : Breakable(i)} :
    /\ \A i \in bad : sock[i] = "up" => faults < MaxFaults
    /\ faults' = IF \E i \in bad : sock[i] = "up" THEN faults + 1 ELSE faults
    /\ sock' = [i \in Ids |-> IF i \in bad THEN "down" ELSE sock[i]]
    /\ timer' = [i \in Ids |-> timer[i] \/ i \in bad]
    /\ dogTimer' = [i \in Ids |-> dogTimer[i] /\ i \notin bad]
    /\ outq' = [i \in Ids |->
                  IF i \in to /\ sec[i] /\ active[i] /\ outq[i] < QueueLength
                    THEN outq[i] + 1 ELSE outq[i]]
    /\ UNCHANGED <<kind, obj, flag, active, sec, pc, port, plugged, retries, seen,
                   evq, dog, main, opens>>

Outputs == {i \in Ids : obj[i] = "open" /\ Writes(i)}

(* A sentence made by the program itself, for the autopilot or a plugin. *)
SendNMEAMessage ==
  /\ main = Idle /\ Outputs # {}
  /\ SendSentence(Outputs)
  /\ UNCHANGED muxq

(* A sentence some stream has read. A serial port is an output even for    *)
(* its own sentences; the source's filter may hold it back.                *)
OnEvtStream ==
  /\ main = Idle /\ muxq # <<>>
  /\ \E to \in {{}, {i \in Outputs : Serial(i) \/ i # Head(muxq)}} :
       SendSentence(to)
  /\ muxq' = Tail(muxq)

-----------------------------------------------------------------------------
MainNext(i) ==
  \/ OnTimerSocket(i) \/ OnSocketReadWatchdogTimer(i)
  \/ OnInput(i) \/ OnLost(i) \/ OnConnection(i)

Next ==
  \/ \E i \in Ids :
       \/ AddStream(i) \/ StopAndRemoveStream(i)
       \/ Thread(i) \/ Unplug(i) \/ Plug(i)
       \/ PeerAccepts(i) \/ PeerDrops(i) \/ PeerFallsSilent(i) \/ PeerTalks(i)
       \/ MainNext(i)
  \/ Quit \/ OnResume \/ ClearNext \/ WaitEnds
  \/ UploadBegin \/ UploadOpen \/ UploadSend \/ UploadClose \/ UploadRestore
  \/ SendNMEAMessage \/ OnEvtStream

Spec == Init /\ [][Next]_vars

(***************************************************************************)
(* Fairness: threads run, timers fire and posted events are handled; the   *)
(* main thread finishes what it is in the middle of; a peer that is asked  *)
(* in the end accepts.                                                     *)
(***************************************************************************)
Fairness ==
  /\ \A i \in Ids :
       /\ WF_vars(Thread(i)) /\ WF_vars(Plug(i)) /\ WF_vars(PeerAccepts(i))
       /\ WF_vars(OnTimerSocket(i)) /\ WF_vars(OnSocketReadWatchdogTimer(i))
       /\ WF_vars(OnInput(i) \/ OnLost(i) \/ OnConnection(i))
  /\ WF_vars(OnEvtStream)
  /\ WF_vars(WaitEnds) /\ WF_vars(ClearNext) /\ WF_vars(UploadOpen)
  /\ WF_vars(UploadSend) /\ WF_vars(UploadClose) /\ WF_vars(UploadRestore)

FairSpec == Spec /\ Fairness

-----------------------------------------------------------------------------
(* A stream is freed only after its reader thread has touched it for the   *)
(* last time: every step of Entry that uses m_launcher is over.            *)
OwnerOutlivesReader ==
  \A i \in Ids : obj[i] = "deleted" => pc[i] \in {"none", "gone"}

(* A stream whose Close has returned leaves no reader behind that has not  *)
(* been told to stop (options.cpp:7799, "to avoid orphans").               *)
NoOrphanReader ==
  \A i \in Ids : Alive(i) /\ obj[i] # "open" => flag[i] = 0

(* A network stream that knows it has no connection always has something  *)
(* under way that brings it back: an attempt, a timer, the watchdog or an  *)
(* event.  A TCP client that reads also has something under way that finds *)
(* out if its peer fell silent.  No other stream has: gpsd and output-only *)
(* clients are never watched (datastream.cpp:509, 663).                    *)
NeverAbandoned ==
  \A i \in Ids : obj[i] = "open" =>
    /\ sock[i] = "down" => timer[i] \/ dogTimer[i] \/ Pending(i, "LOST")
    /\ sock[i] = "mute" /\ kind[i] = "tcp" => dogTimer[i] \/ Pending(i, "CONN")

(* The main thread comes back from every Close and every upload: a reader  *)
(* that is told to stop ends whatever its device does, or is given up.     *)
MainReturns == main.at # "idle" ~> main.at = "idle"

(* A serial stream whose device is there for good reads it in the end,     *)
(* whatever the other ports do to the shared count, provided every thread  *)
(* goes round its loop again and again: one that is never done with its    *)
(* output queue neither reopens its port nor leaves the count alone.       *)
LinkRestored ==
  \A i \in Ids :
    /\ <>[](plugged[i] /\ flag[i] = 1)
    /\ \A j \in Ids : []<>(pc[j] \in {"none", "test", "gone"})
    => <>[](port[i] = "good")

(* A network stream left open is connected again and again, but one that   *)
(* nobody watches: gpsd and output-only clients may stay for ever on a     *)
(* peer that fell silent.                                                  *)
Reconnects ==
  \A i \in Ids :
    <>[](obj[i] = "open" /\ ~Serial(i)) =>
      \/ []<>(sock[i] = "up")
      \/ <>[](sock[i] = "mute" /\ kind[i] # "tcp")
=============================================================================
