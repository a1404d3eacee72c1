-------------------------- MODULE DataStreamProofs --------------------------
(***************************************************************************)
(* Proofs about DataStream, for any streams, configurations and bounds:    *)
(* types, and the life of a reader thread within that of its stream, when  *)
(* no stream is closed before its thread has reported itself and no call   *)
(* to a device outlasts the wait in Close; and, without these conditions,  *)
(* the way back of a network stream that has lost its connection.          *)
(***************************************************************************)
EXTENDS DataStream, TLAPS

Patient == "early" \notin Habits /\ "hang" \notin Habits

(* The types of everything but main, in the order of TypeOK. *)
StreamTypes ==
  /\ kind \in Setups
  /\ obj \in [Ids -> {"none", "open", "closed", "deleted"}]
  /\ flag \in [Ids -> {-1, 0, 1}]
  /\ active \in [Ids -> BOOLEAN] /\ sec \in [Ids -> BOOLEAN]
  /\ pc \in [Ids -> Threads]
  /\ port \in [Ids -> {"closed", "good", "stale"}]
  /\ plugged \in [Ids -> BOOLEAN]
  /\ outq \in [Ids -> 0 .. QueueLength]
  /\ retries \in 0 .. RetryLimit + 1 /\ seen \in [Ids -> 0 .. RetryLimit + 1]
  /\ sock \in [Ids -> {"none", "down", "connecting", "up", "mute"}]
  /\ evq \in [Ids -> Seq({"CONN", "LOST", "INPUT"})]
  /\ timer \in [Ids -> BOOLEAN] /\ dogTimer \in [Ids -> BOOLEAN]
  /\ dog \in [Ids -> 0 .. DogTimeout]
  /\ muxq \in Seq(Ids)

(* Where the main thread goes on with a stream, it has one. *)
MainOK ==
  /\ main.at \in {"idle", "wait", "clear", "temp", "await", "sent", "renew"}
  /\ main.at \in {"wait", "clear", "await", "sent"} => main.id \in Ids

(* A thread that has not ended belongs to an open stream that knows it,    *)
(* and has not reset the flag its owner would wait on.                     *)
ReaderOwned ==
  \A i \in Ids : Alive(i) => obj[i] = "open" /\ sec[i] /\ flag[i] # -1

IInv == StreamTypes /\ MainOK /\ ReaderOwned

-----------------------------------------------------------------------------
(* Queues *)

LEMMA AppendEvent ==
  ASSUME NEW S, NEW s \in Seq(S), NEW e \in S
  PROVE  Append(s, e) \in Seq(S)
PROOF
  OBVIOUS

LEMMA TailEvents ==
  ASSUME NEW S, NEW s \in Seq(S), s # <<>>
  PROVE  Tail(s) \in Seq(S) /\ Head(s) \in S
PROOF
  OBVIOUS

-----------------------------------------------------------------------------
(* What the parts of Open and Close preserve *)

LEMMA OpenKeeps ==
  ASSUME StreamTypes, ReaderOwned, NEW i \in Ids, Open(i),
         UNCHANGED <<kind, muxq>>
  PROVE  StreamTypes' /\ ReaderOwned'
PROOF
<1>1. StreamTypes'
  BY ConstantsAssumption DEF StreamTypes, Open, Threads, Serial, Client
<1>2. ASSUME NEW j \in Ids, Alive(j)'
      PROVE  (obj[j] = "open" /\ sec[j] /\ flag[j] # -1)'
  <2>1. CASE j = i
    <3>1. Serial(i)
      BY <1>2, <2>1 DEF StreamTypes, Open, Alive
    <3>2. obj'[i] = "open" /\ flag'[i] = 1
      BY <3>1 DEF StreamTypes, Open
    <3>3. sec'[i]
      BY <3>1, Zenon DEF StreamTypes, Open
    <3> QED
      BY <2>1, <3>2, <3>3
  <2>2. CASE j # i
    BY <1>2, <2>2 DEF StreamTypes, Open, Alive, ReaderOwned
  <2> QED
    BY <2>1, <2>2
<1> QED
  BY <1>1, <1>2 DEF ReaderOwned

LEMMA DetachKeeps ==
  ASSUME StreamTypes, ReaderOwned, NEW i \in Ids, NEW then, ~Alive(i),
         Detach(i, then), UNCHANGED <<kind, flag>>, muxq' \in Seq(Ids)
  PROVE  StreamTypes' /\ ReaderOwned'
PROOF
<1>1. StreamTypes'
  BY DEF StreamTypes, Detach
<1>2. ReaderOwned'
  BY DEF StreamTypes, ReaderOwned, Detach, Alive
<1> QED
  BY <1>1, <1>2

LEMMA ContinueKeeps ==
  ASSUME MainOK, muxq \in Seq(Ids), NEW i \in Ids, NEW then, Continue(i, then)
  PROVE  MainOK' /\ muxq' \in Seq(Ids)
PROOF
<1> DEFINE rest == {j \in Ids \ {i} : obj[j] = "open"}
<1>1. CASE then \in {"quit", "resume"} /\ rest # {}
  <2>1. PICK j \in rest : main' = Busy("clear", j, then)
    BY <1>1 DEF Continue
  <2> QED
    BY <1>1, <2>1 DEF Continue, MainOK, Busy
<1>2. CASE ~(then \in {"quit", "resume"} /\ rest # {})
  <2>1. CASE then = "quit"
    <3>1. main' = Idle /\ muxq' = <<>>
      BY <1>2, <2>1 DEF Continue
    <3> QED
      BY <3>1 DEF MainOK, Idle
  <2>2. CASE then = "upload"
    BY <2>2 DEF Continue, MainOK, Busy
  <2>3. CASE then = "restore"
    BY <2>3 DEF Continue, MainOK, Busy
  <2>4. CASE then \notin {"quit", "upload", "restore"}
    <3>1. CASE then = "resume"
      BY <1>2, <3>1 DEF Continue, MainOK, Idle
    <3>2. CASE then # "resume"
      BY <2>4, <3>2 DEF Continue, MainOK, Idle
    <3> QED
      BY <3>1, <3>2
  <2> QED
    BY <2>1, <2>2, <2>3, <2>4
<1> QED
  BY <1>1, <1>2

LEMMA CloseKeeps ==
  ASSUME Patient, IInv, NEW i \in Ids, NEW then, Close(i, then), UNCHANGED kind
  PROVE  IInv'
PROOF
<1>1. CASE sec[i] /\ active[i]
  <2>1. StreamTypes'
    BY <1>1 DEF Close, IInv, StreamTypes, socketVars
  <2>2. MainOK'
    BY <1>1 DEF Close, MainOK, Busy
  <2>3. ReaderOwned'
    BY <1>1 DEF Close, IInv, StreamTypes, ReaderOwned, Alive
  <2> QED
    BY <2>1, <2>2, <2>3 DEF IInv
<1>2. CASE ~(sec[i] /\ active[i])
  <2>1. ~sec[i] /\ Detach(i, then) /\ Continue(i, then) /\ UNCHANGED flag
    BY <1>2 DEF Close, Patient
  <2>2. ~Alive(i)
    BY <2>1 DEF IInv, ReaderOwned
  <2>3. MainOK' /\ muxq' \in Seq(Ids)
    BY <2>1, ContinueKeeps DEF IInv, StreamTypes
  <2> QED
    BY <2>1, <2>2, <2>3, DetachKeeps DEF IInv
<1> QED
  BY <1>1, <1>2

-----------------------------------------------------------------------------
(* The actions of the main thread *)

LEMMA StepsOfStreams ==
  ASSUME Patient, IInv, NEW i \in Ids
  PROVE  /\ AddStream(i) => IInv'
         /\ StopAndRemoveStream(i) => IInv'
PROOF
<1>1. ASSUME AddStream(i) PROVE IInv'
  <2>1. StreamTypes' /\ ReaderOwned'
    BY <1>1, OpenKeeps DEF AddStream, IInv
  <2>2. MainOK'
    BY <1>1 DEF AddStream, IInv, MainOK
  <2> QED
    BY <2>1, <2>2 DEF IInv
<1>2. ASSUME StopAndRemoveStream(i) PROVE IInv'
  BY <1>2, CloseKeeps DEF StopAndRemoveStream
<1> QED
  BY <1>1, <1>2

LEMMA ClearStreamsKeeps ==
  ASSUME Patient, IInv, NEW why, ClearStreams(why)
  PROVE  IInv'
PROOF
<1>1. PICK i \in Ids : Close(i, why)
  BY DEF ClearStreams
<1> QED
  BY <1>1, CloseKeeps DEF ClearStreams

LEMMA ClearNextKeeps ==
  ASSUME Patient, IInv, ClearNext
  PROVE  IInv'
PROOF
<1>1. main.id \in Ids
  BY DEF ClearNext, IInv, MainOK
<1> QED
  BY <1>1, CloseKeeps DEF ClearNext

(* The wait in Close ends only with the thread: it resets the flag last.   *)
LEMMA WaitEndsKeeps ==
  ASSUME Patient, IInv, WaitEnds
  PROVE  IInv'
PROOF
<1>1. main.id \in Ids /\ flag[main.id] < 0
  BY DEF WaitEnds, IInv, MainOK, Patient
<1>2. flag[main.id] \in {-1, 0, 1}
  BY <1>1 DEF IInv, StreamTypes
<1>3. ~Alive(main.id)
  BY <1>1, <1>2 DEF IInv, ReaderOwned
<1>4. MainOK' /\ muxq' \in Seq(Ids)
  BY <1>1, ContinueKeeps DEF WaitEnds, IInv, StreamTypes
<1>5. StreamTypes' /\ ReaderOwned'
  BY <1>1, <1>3, <1>4, DetachKeeps DEF WaitEnds, IInv
<1> QED
  BY <1>4, <1>5 DEF IInv

LEMMA UploadKeeps ==
  ASSUME Patient, IInv,
         UploadBegin \/ UploadOpen \/ UploadSend \/ UploadClose \/ UploadRestore
  PROVE  IInv'
PROOF
<1>1. ASSUME UploadBegin PROVE IInv'
  <2>1. ASSUME NEW i \in Ids, Close(i, "upload") PROVE IInv'
    BY <1>1, <2>1, CloseKeeps DEF UploadBegin
  <2>2. ASSUME main' = Busy("temp", NoId, "alone"),
               UNCHANGED <<obj, serialVars, socketVars, muxq>>
        PROVE  IInv'
    BY <1>1, <2>2 DEF UploadBegin, IInv, StreamTypes, MainOK, ReaderOwned,
       Alive, Busy, serialVars, socketVars
  <2> QED
    BY <1>1, <2>1, <2>2 DEF UploadBegin
<1>2. ASSUME UploadOpen PROVE IInv'
  <2>1. PICK j \in Ids : Open(j) /\ main' = Busy("await", j, main.then)
    BY <1>2 DEF UploadOpen
  <2>2. StreamTypes' /\ ReaderOwned'
    BY <1>2, <2>1, OpenKeeps DEF UploadOpen, IInv
  <2>3. MainOK'
    BY <2>1 DEF MainOK, Busy
  <2> QED
    BY <2>2, <2>3 DEF IInv
<1>3. ASSUME UploadSend PROVE IInv'
  <2>1. main.id \in Ids
    BY <1>3 DEF UploadSend, IInv, MainOK
  <2>2. outq' \in [Ids -> 0 .. QueueLength]
    BY <1>3, <2>1, ConstantsAssumption DEF UploadSend, IInv, StreamTypes
  <2>4. StreamTypes'
    BY <1>3, <2>2 DEF UploadSend, IInv, StreamTypes, socketVars
  <2>3. MainOK' /\ ReaderOwned'
    BY <1>3, <2>1 DEF UploadSend, IInv, MainOK, ReaderOwned, Alive, Busy
  <2> QED
    BY <2>3, <2>4 DEF IInv
<1>4. ASSUME UploadClose PROVE IInv'
  <2>1. main.id \in Ids
    BY <1>4 DEF UploadClose, IInv, MainOK
  <2> QED
    BY <1>4, <2>1, CloseKeeps DEF UploadClose
<1>5. ASSUME UploadRestore PROVE IInv'
  <2>1. PICK j \in Ids : Open(j)
    BY <1>5 DEF UploadRestore
  <2>2. StreamTypes' /\ ReaderOwned'
    BY <1>5, <2>1, OpenKeeps DEF UploadRestore, IInv
  <2>3. MainOK'
    BY <1>5 DEF UploadRestore, MainOK, Idle
  <2> QED
    BY <2>2, <2>3 DEF IInv
<1> QED
  BY <1>1, <1>2, <1>3, <1>4, <1>5

-----------------------------------------------------------------------------
(* The reader thread and its device *)

(* Only the last step, End, resets the flag; no step touches obj or sec.   *)
LEMMA ThreadKeeps ==
  ASSUME IInv, NEW i \in Ids, Thread(i)
  PROVE  IInv'
PROOF
<1> USE ConstantsAssumption DEF IInv, StreamTypes, MainOK, ReaderOwned, Alive,
        Threads, Step, Rest, socketVars
<1>1. ASSUME FirstOpen(i) PROVE IInv'
  BY <1>1 DEF FirstOpen, Opened
<1>2. ASSUME Announce(i) PROVE IInv'
  BY <1>2 DEF Announce
<1>3. ASSUME LoopTest(i) PROVE IInv'
  BY <1>3 DEF LoopTest
<1>4. ASSUME Read(i) PROVE IInv'
  <2>1. CASE muxq' = muxq
    BY <1>4, <2>1 DEF Read
  <2>2. CASE muxq' = Append(muxq, i)
    <3>1. muxq' \in Seq(Ids)
      BY <2>2, AppendEvent
    <3> QED
      BY <1>4, <3>1 DEF Read
  <2> QED
    BY <1>4, <2>1, <2>2, Zenon DEF Read
<1>5. ASSUME Throw(i) PROVE IInv'
  BY <1>5 DEF Throw
<1>6. ASSUME Count(i) PROVE IInv'
  BY <1>6 DEF Count, More
<1>7. ASSUME GiveUp(i) PROVE IInv'
  BY <1>7 DEF GiveUp
<1>8. ASSUME Nap(i) PROVE IInv'
  BY <1>8 DEF Nap
<1>9. ASSUME Reopen(i) PROVE IInv'
  <2>1. PICK to \in {"drain", "bump"} :
          pc[i] = "nap" /\ pc' = [pc EXCEPT ![i] = to]
    BY <1>9 DEF Reopen
  <2>2. 0 \in 0 .. RetryLimit + 1 /\ retries' \in 0 .. RetryLimit + 1
    BY <1>9 DEF Reopen
  <2>3. PICK n \in {0, retries} : seen' = [seen EXCEPT ![i] = n]
    BY <1>9, Zenon DEF Reopen
  <2>4. PICK h \in {"good", "closed"} : port' = [port EXCEPT ![i] = h]
    BY <1>9, Zenon DEF Reopen, Opened
  <2>5. UNCHANGED <<Rest, flag, active, outq, muxq>>
    BY <1>9 DEF Reopen
  <2> QED
    BY <2>1, <2>2, <2>3, <2>4, <2>5
<1>10. ASSUME Bump(i) PROVE IInv'
  BY <1>10 DEF Bump, More
<1>11. ASSUME Drain(i) PROVE IInv'
  BY <1>11 DEF Drain
<1>12. ASSUME Write(i) PROVE IInv'
  BY <1>12 DEF Write
<1>13. ASSUME Exit(i) PROVE IInv'
  BY <1>13 DEF Exit
<1>14. ASSUME GoInactive(i) PROVE IInv'
  BY <1>14 DEF GoInactive
<1>15. ASSUME End(i) PROVE IInv'
  BY <1>15 DEF End
<1> QED
  BY <1>1, <1>2, <1>3, <1>4, <1>5, <1>6, <1>7, <1>8,
     <1>9, <1>10, <1>11, <1>12, <1>13, <1>14, <1>15 DEF Thread

LEMMA DeviceKeeps ==
  ASSUME IInv, NEW i \in Ids, Unplug(i) \/ Plug(i)
  PROVE  IInv'
PROOF
<1>1. StreamTypes'
  BY DEF IInv, StreamTypes, Unplug, Plug, socketVars
<1>2. MainOK' /\ ReaderOwned'
  BY DEF IInv, MainOK, ReaderOwned, Alive, Unplug, Plug
<1> QED
  BY <1>1, <1>2 DEF IInv

-----------------------------------------------------------------------------
(* Sockets, timers and the multiplexer *)

LEMMA PeerKeeps ==
  ASSUME IInv, NEW i \in Ids,
         \/ PeerAccepts(i) \/ PeerDrops(i) \/ PeerFallsSilent(i) \/ PeerTalks(i)
  PROVE  IInv'
PROOF
<1>1. UNCHANGED <<SocketRest, timer, dogTimer, dog, muxq>>
  BY DEF PeerAccepts, PeerDrops, PeerFallsSilent, PeerTalks
<1>2. sock' \in [Ids -> {"none", "down", "connecting", "up", "mute"}]
  BY DEF IInv, StreamTypes, PeerAccepts, PeerDrops, PeerFallsSilent, PeerTalks
<1>3. evq' \in [Ids -> Seq({"CONN", "LOST", "INPUT"})]
  <2>1. CASE PeerFallsSilent(i)
    BY <2>1 DEF PeerFallsSilent, IInv, StreamTypes
  <2>2. CASE ~PeerFallsSilent(i)
    <3>1. PICK e \in {"CONN", "LOST", "INPUT"} :
            evq' = [evq EXCEPT ![i] = Append(evq[i], e)]
      BY <2>2 DEF Tell, PeerAccepts, PeerDrops, PeerTalks
    <3>2. Append(evq[i], e) \in Seq({"CONN", "LOST", "INPUT"})
      BY AppendEvent DEF IInv, StreamTypes
    <3> QED
      BY <3>1, <3>2 DEF IInv, StreamTypes
  <2> QED
    BY <2>1, <2>2
<1>4. StreamTypes'
  BY <1>1, <1>2, <1>3 DEF IInv, StreamTypes, SocketRest, serialVars
<1>5. MainOK' /\ ReaderOwned'
  BY <1>1 DEF IInv, MainOK, ReaderOwned, Alive, SocketRest, serialVars
<1> QED
  BY <1>4, <1>5 DEF IInv

LEMMA TimersKeep ==
  ASSUME IInv, NEW i \in Ids, OnTimerSocket(i) \/ OnSocketReadWatchdogTimer(i)
  PROVE  IInv'
PROOF
<1>1. UNCHANGED <<SocketRest, evq, muxq>>
  BY DEF OnTimerSocket, OnSocketReadWatchdogTimer
<1>2. sock' \in [Ids -> {"none", "down", "connecting", "up", "mute"}]
  <2>1. CASE OnTimerSocket(i)
    BY <2>1 DEF OnTimerSocket, IInv, StreamTypes
  <2>2. CASE OnSocketReadWatchdogTimer(i)
    BY <2>2 DEF OnSocketReadWatchdogTimer, IInv, StreamTypes
  <2> QED
    BY <2>1, <2>2
<1>3. timer' \in [Ids -> BOOLEAN] /\ dogTimer' \in [Ids -> BOOLEAN]
  <2>1. CASE OnTimerSocket(i)
    BY <2>1 DEF OnTimerSocket, IInv, StreamTypes
  <2>2. CASE OnSocketReadWatchdogTimer(i)
    BY <2>2 DEF OnSocketReadWatchdogTimer, IInv, StreamTypes
  <2> QED
    BY <2>1, <2>2
<1>4. dog' \in [Ids -> 0 .. DogTimeout]
  <2>1. CASE OnTimerSocket(i)
    BY <2>1 DEF OnTimerSocket, IInv, StreamTypes
  <2>2. CASE OnSocketReadWatchdogTimer(i)
    BY <2>2, ConstantsAssumption
    DEF OnSocketReadWatchdogTimer, IInv, StreamTypes
  <2> QED
    BY <2>1, <2>2
<1>5. StreamTypes'
  BY <1>1, <1>2, <1>3, <1>4 DEF IInv, StreamTypes, SocketRest, serialVars
<1>6. MainOK' /\ ReaderOwned'
  BY <1>1 DEF IInv, MainOK, ReaderOwned, Alive, SocketRest, serialVars
<1> QED
  BY <1>5, <1>6 DEF IInv

LEMMA SocketEventsKeep ==
  ASSUME IInv, NEW i \in Ids, OnInput(i) \/ OnLost(i) \/ OnConnection(i)
  PROVE  IInv'
PROOF
<1>1. PICK e : SocketEvent(i, e)
  BY DEF OnInput, OnLost, OnConnection
<1>2. UNCHANGED <<SocketRest, sock>>
  BY <1>1 DEF SocketEvent
<1>3. evq' \in [Ids -> Seq({"CONN", "LOST", "INPUT"})]
  <2>1. evq[i] # <<>> /\ evq' = [evq EXCEPT ![i] = Tail(evq[i])]
    BY <1>1 DEF SocketEvent
  <2>2. Tail(evq[i]) \in Seq({"CONN", "LOST", "INPUT"})
    BY <2>1, TailEvents DEF IInv, StreamTypes
  <2> QED
    BY <2>1, <2>2 DEF IInv, StreamTypes
<1>4. timer' \in [Ids -> BOOLEAN] /\ dogTimer' \in [Ids -> BOOLEAN]
  <2>1. CASE OnInput(i)
    BY <2>1 DEF OnInput, IInv, StreamTypes
  <2>2. CASE OnLost(i)
    BY <2>2 DEF OnLost, IInv, StreamTypes
  <2>3. CASE OnConnection(i) /\ ~Client(i)
    BY <2>3 DEF OnConnection, IInv, StreamTypes
  <2>4. CASE OnConnection(i) /\ Client(i)
    <3>1. timer' = [timer EXCEPT ![i] = FALSE]
      BY <2>4 DEF OnConnection
    <3>2. PICK b \in BOOLEAN : dogTimer' = [dogTimer EXCEPT ![i] = b]
      BY <2>4, Zenon DEF OnConnection
    <3> QED
      BY <3>1, <3>2 DEF IInv, StreamTypes
  <2> QED
    BY <2>1, <2>2, <2>3, <2>4
<1>5. dog' \in [Ids -> 0 .. DogTimeout]
  BY ConstantsAssumption DEF OnInput, OnLost, OnConnection, IInv, StreamTypes
<1>6. muxq' \in Seq(Ids)
  <2>1. muxq \in Seq(Ids) /\ Append(muxq, i) \in Seq(Ids)
    BY AppendEvent DEF IInv, StreamTypes
  <2>2. muxq' = muxq \/ muxq' = Append(muxq, i)
    BY DEF OnInput, OnLost, OnConnection
  <2> QED
    BY <2>1, <2>2
<1>7. StreamTypes'
  BY <1>2, <1>3, <1>4, <1>5, <1>6 DEF IInv, StreamTypes, SocketRest, serialVars
<1>8. MainOK' /\ ReaderOwned'
  BY <1>2 DEF IInv, MainOK, ReaderOwned, Alive, SocketRest, serialVars
<1> QED
  BY <1>7, <1>8 DEF IInv

LEMMA SendingKeeps ==
  ASSUME IInv, SendNMEAMessage \/ OnEvtStream
  PROVE  IInv'
PROOF
<1>1. PICK to : SendSentence(to)
  BY DEF SendNMEAMessage, OnEvtStream
<1>2. UNCHANGED <<kind, obj, flag, active, sec, pc, port, plugged, retries,
                  seen, evq, dog, main, opens>>
  BY <1>1 DEF SendSentence
<1>3. sock' \in [Ids -> {"none", "down", "connecting", "up", "mute"}]
  BY <1>1 DEF SendSentence, IInv, StreamTypes
<1>4. timer' \in [Ids -> BOOLEAN] /\ dogTimer' \in [Ids -> BOOLEAN]
  BY <1>1 DEF SendSentence, IInv, StreamTypes
<1>5. outq' \in [Ids -> 0 .. QueueLength]
  BY <1>1, ConstantsAssumption DEF SendSentence, IInv, StreamTypes
<1>6. muxq' \in Seq(Ids)
  <2>1. CASE SendNMEAMessage
    BY <2>1 DEF SendNMEAMessage, IInv, StreamTypes
  <2>2. CASE OnEvtStream
    <3>1. muxq # <<>> /\ muxq' = Tail(muxq)
      BY <2>2 DEF OnEvtStream
    <3> QED
      BY <3>1, TailEvents DEF IInv, StreamTypes
  <2> QED
    BY <2>1, <2>2
<1>7. StreamTypes'
  BY <1>2, <1>3, <1>4, <1>5, <1>6 DEF IInv, StreamTypes
<1>8. MainOK' /\ ReaderOwned'
  BY <1>2 DEF IInv, MainOK, ReaderOwned, Alive
<1> QED
  BY <1>7, <1>8 DEF IInv

-----------------------------------------------------------------------------
(* The theorems *)

LEMMA Initially == ASSUME Init PROVE IInv
PROOF
<1>1. StreamTypes
  BY ConstantsAssumption DEF Init, StreamTypes, Serial, Threads
<1>2. MainOK /\ ReaderOwned
  BY DEF Init, MainOK, ReaderOwned, Alive, Idle
<1> QED
  BY <1>1, <1>2 DEF IInv

LEMMA Inductive == ASSUME Patient, IInv, [Next]_vars PROVE IInv'
PROOF
<1>1. ASSUME NEW i \in Ids, AddStream(i) \/ StopAndRemoveStream(i) PROVE IInv'
  BY <1>1, StepsOfStreams
<1>2. ASSUME NEW i \in Ids, Thread(i) PROVE IInv'
  BY <1>2, ThreadKeeps
<1>3. ASSUME NEW i \in Ids, Unplug(i) \/ Plug(i) PROVE IInv'
  BY <1>3, DeviceKeeps
<1>4. ASSUME NEW i \in Ids,
             \/ PeerAccepts(i) \/ PeerDrops(i)
             \/ PeerFallsSilent(i) \/ PeerTalks(i)
      PROVE  IInv'
  BY <1>4, PeerKeeps
<1>5. ASSUME NEW i \in Ids, MainNext(i) PROVE IInv'
  BY <1>5, TimersKeep, SocketEventsKeep DEF MainNext
<1>6. ASSUME Quit \/ OnResume PROVE IInv'
  BY <1>6, ClearStreamsKeeps DEF Quit, OnResume
<1>7. ASSUME ClearNext PROVE IInv'
  BY <1>7, ClearNextKeeps
<1>8. ASSUME WaitEnds PROVE IInv'
  BY <1>8, WaitEndsKeeps
<1>9. ASSUME \/ UploadBegin \/ UploadOpen \/ UploadSend
             \/ UploadClose \/ UploadRestore
      PROVE  IInv'
  BY <1>9, UploadKeeps
<1>10. ASSUME SendNMEAMessage \/ OnEvtStream PROVE IInv'
  BY <1>10, SendingKeeps
<1>11. ASSUME UNCHANGED vars PROVE IInv'
  BY <1>11 DEF vars, serialVars, socketVars, IInv, StreamTypes, MainOK,
               ReaderOwned, Alive
<1> QED
  BY <1>1, <1>2, <1>3, <1>4, <1>5, <1>6, <1>7, <1>8, <1>9, <1>10, <1>11
  DEF Next

(* The inductive invariant: types, and a reader thread that has not ended  *)
(* belongs to an open stream that knows it (DataStream::Close).            *)
THEOREM Invariance == ASSUME Patient PROVE Spec => []IInv
PROOF
<1>1. Init => IInv
  BY Initially
<1>2. IInv /\ [Next]_vars => IInv'
  BY Inductive
<1> QED
  BY <1>1, <1>2, PTL DEF Spec

(* Every variable keeps its type: the queue of sentences to a port, the    *)
(* shared count and the watchdog stay within their limits.                 *)
THEOREM TypeCorrectness == ASSUME Patient PROVE Spec => []TypeOK
PROOF
<1>1. IInv => TypeOK
  BY DEF IInv, StreamTypes, MainOK, TypeOK
<1> QED
  BY <1>1, Invariance, PTL

(* No reader thread touches its stream after the stream has been freed     *)
(* (OCP_DataStreamInput_Thread.cpp:519 to 522, datastream.cpp:440).        *)
THEOREM NoUseAfterFree == ASSUME Patient PROVE Spec => []OwnerOutlivesReader
PROOF
<1>1. IInv => OwnerOutlivesReader
  BY DEF IInv, ReaderOwned, OwnerOutlivesReader, Alive
<1> QED
  BY <1>1, Invariance, PTL

(* No Close leaves a reader thread behind that has not been told to stop   *)
(* (datastream.cpp:434).                                                   *)
THEOREM NoReaderLeftBehind == ASSUME Patient PROVE Spec => []NoOrphanReader
PROOF
<1>1. IInv => NoOrphanReader
  BY DEF IInv, ReaderOwned, NoOrphanReader
<1> QED
  BY <1>1, Invariance, PTL

-----------------------------------------------------------------------------
(* The connections of the network streams, whatever else is let happen     *)

Events == {"CONN", "LOST", "INPUT"}

LinkTypes ==
  /\ obj \in [Ids -> {"none", "open", "closed", "deleted"}]
  /\ sock \in [Ids -> {"none", "down", "connecting", "up", "mute"}]
  /\ evq \in [Ids -> Seq(Events)]
  /\ timer \in [Ids -> BOOLEAN] /\ dogTimer \in [Ids -> BOOLEAN]

LostAfter(q, k) == \E l \in k + 1 .. Len(q) : q[l] = "LOST"

(* The news of a connection that no later loss has made old. *)
News(q) == \E k \in 1 .. Len(q) : q[k] = "CONN" /\ ~LostAfter(q, k)
Lost(q) == \E k \in 1 .. Len(q) : q[k] = "LOST"

(* A socket that is down has something under way that outlives the events  *)
(* pending for it; one that is up is watched, or about to be, whatever     *)
(* news of earlier losses is still to be handled.                          *)
Linked(i) ==
  /\ obj[i] = "none" => sock[i] = "none" /\ evq[i] = <<>>
  /\ dogTimer[i] => kind[i] # "tcpOut"
  /\ sock[i] = "down" => timer[i] \/ dogTimer[i] \/ Lost(evq[i])
  /\ sock[i] = "down" /\ kind[i] = "tcpOut" => ~News(evq[i])
  /\ sock[i] \in {"up", "mute"} /\ kind[i] = "tcp" =>
       (dogTimer[i] /\ ~Lost(evq[i])) \/ News(evq[i])

LinkInv == LinkTypes /\ \A i \in Ids : Linked(i)

LEMMA EventAppended ==
  ASSUME NEW q \in Seq(Events), NEW e \in Events
  PROVE  LET r == Append(q, e) IN
         /\ r \in Seq(Events)
         /\ Lost(r) <=> Lost(q) \/ e = "LOST"
         /\ News(r) <=> e = "CONN" \/ (News(q) /\ e # "LOST")
PROOF
<1> DEFINE r == Append(q, e)
           n == Len(q)
<1>1. /\ n \in Nat /\ r \in Seq(Events) /\ Len(r) = n + 1
      /\ \A k \in 1 .. n : r[k] = q[k]
      /\ r[n + 1] = e
  OBVIOUS
<1> HIDE DEF r
<1>2. Lost(r) <=> Lost(q) \/ e = "LOST"
  BY <1>1 DEF Lost
<1>3. News(r) <=> e = "CONN" \/ (News(q) /\ e # "LOST")
  <2>1. \A k \in 1 .. n : LostAfter(r, k) <=> LostAfter(q, k) \/ e = "LOST"
    BY <1>1 DEF LostAfter
  <2>2. ~LostAfter(r, n + 1)
    BY <1>1 DEF LostAfter
  <2> QED
    BY <1>1, <2>1, <2>2 DEF News
<1> QED
  BY <1>1, <1>2, <1>3 DEF r

LEMMA EventTaken ==
  ASSUME NEW q \in Seq(Events), q # <<>>
  PROVE  LET r == Tail(q) IN
         /\ r \in Seq(Events)
         /\ Lost(q) <=> Lost(r) \/ Head(q) = "LOST"
         /\ News(q) <=> News(r) \/ (Head(q) = "CONN" /\ ~Lost(r))
PROOF
<1> DEFINE r == Tail(q)
           n == Len(r)
<1>1. /\ n \in Nat /\ r \in Seq(Events) /\ Len(q) = n + 1
      /\ \A k \in 1 .. n : r[k] = q[k + 1]
      /\ Head(q) = q[1]
  OBVIOUS
<1> HIDE DEF r
<1>2. \A k \in 2 .. n + 1 : k - 1 \in 1 .. n /\ q[k] = r[k - 1]
  BY <1>1
<1>3. Lost(q) <=> Lost(r) \/ Head(q) = "LOST"
  <2>1. ASSUME Lost(q) PROVE Lost(r) \/ q[1] = "LOST"
    BY <1>1, <1>2, <2>1 DEF Lost
  <2>2. ASSUME NEW k \in 1 .. n, r[k] = "LOST" PROVE Lost(q)
    <3>1. k + 1 \in 1 .. Len(q) /\ q[k + 1] = "LOST"
      BY <1>1, <2>2
    <3> QED
      BY <3>1 DEF Lost
  <2> QED
    BY <1>1, <2>1, <2>2 DEF Lost
<1>4. News(q) <=> News(r) \/ (Head(q) = "CONN" /\ ~Lost(r))
  <2>1. LostAfter(q, 1) <=> Lost(r)
    <3>1. ASSUME NEW k \in 1 .. n, r[k] = "LOST" PROVE LostAfter(q, 1)
      <4>1. k + 1 \in 2 .. Len(q) /\ q[k + 1] = "LOST"
        BY <1>1, <3>1
      <4> QED
        BY <4>1 DEF LostAfter
    <3>2. ASSUME LostAfter(q, 1) PROVE Lost(r)
      BY <1>1, <1>2, <3>2 DEF LostAfter, Lost
    <3> QED
      BY <3>1, <3>2 DEF Lost
  <2>2. \A k \in 1 .. n : LostAfter(q, k + 1) <=> LostAfter(r, k)
    <3> SUFFICES ASSUME NEW k \in 1 .. n
                 PROVE  LostAfter(q, k + 1) <=> LostAfter(r, k)
      OBVIOUS
    <3>1. ASSUME NEW l \in k + 1 .. n, r[l] = "LOST" PROVE LostAfter(q, k + 1)
      <4>1. l + 1 \in (k + 1) + 1 .. Len(q) /\ q[l + 1] = "LOST"
        BY <1>1, <3>1
      <4> QED
        BY <4>1 DEF LostAfter
    <3>2. ASSUME NEW l \in (k + 1) + 1 .. Len(q), q[l] = "LOST"
          PROVE  LostAfter(r, k)
      <4>1. l - 1 \in k + 1 .. n /\ r[l - 1] = "LOST"
        BY <1>1, <1>2, <3>2
      <4> QED
        BY <4>1 DEF LostAfter
    <3> QED
      BY <3>1, <3>2 DEF LostAfter
  <2>3. ASSUME NEW k \in 1 .. n, r[k] = "CONN", ~LostAfter(r, k) PROVE News(q)
    <3>1. k + 1 \in 1 .. Len(q) /\ q[k + 1] = "CONN" /\ ~LostAfter(q, k + 1)
      BY <1>1, <2>2, <2>3
    <3> QED
      BY <3>1 DEF News
  <2>4. ASSUME NEW k \in 2 .. n + 1, q[k] = "CONN", ~LostAfter(q, k) PROVE News(r)
    <3>1. k - 1 \in 1 .. n /\ r[k - 1] = "CONN" /\ (k - 1) + 1 = k
      BY <1>1, <1>2, <2>4
    <3>2. ~LostAfter(r, k - 1)
      BY <2>2, <2>4, <3>1
    <3> QED
      BY <3>1, <3>2 DEF News
  <2>5. ASSUME News(q) PROVE News(r) \/ (q[1] = "CONN" /\ ~Lost(r))
    <3>1. PICK k \in 1 .. n + 1 : q[k] = "CONN" /\ ~LostAfter(q, k)
      BY <1>1, <2>5 DEF News
    <3>2. k = 1 \/ k \in 2 .. n + 1
      BY <1>1, <3>1
    <3> QED
      BY <2>1, <2>4, <3>1, <3>2
  <2>6. ASSUME q[1] = "CONN", ~Lost(r) PROVE News(q)
    <3>1. 1 \in 1 .. Len(q) /\ ~LostAfter(q, 1)
      BY <1>1, <2>1, <2>6
    <3> QED
      BY <2>6, <3>1 DEF News
  <2> QED
    BY <1>1, <2>3, <2>5, <2>6 DEF News
<1> QED
  BY <1>1, <1>3, <1>4 DEF r

-----------------------------------------------------------------------------
(* A step that leaves a stream's connection alone leaves it linked. *)
LEMMA LinkedElsewhere ==
  ASSUME NEW j \in Ids, Linked(j),
         kind'[j] = kind[j], obj'[j] = obj[j], sock'[j] = sock[j],
         evq'[j] = evq[j], timer'[j] = timer[j], dogTimer'[j] = dogTimer[j]
  PROVE  Linked(j)'
PROOF
  BY DEF Linked

LEMMA LinkUntouched ==
  ASSUME LinkInv, UNCHANGED <<kind, obj, sock, evq, timer, dogTimer>>
  PROVE  LinkInv'
PROOF
  BY LinkedElsewhere DEF LinkInv, LinkTypes

(* An object is used again only once nothing is pending for it. *)
LEMMA OpenLinks ==
  ASSUME LinkInv, NEW i \in Ids, Open(i), UNCHANGED kind
  PROVE  LinkInv'
PROOF
<1>1. LinkTypes'
  BY DEF LinkInv, LinkTypes, Open, Serial, Client
<1>2. evq[i] = <<>>
  BY DEF LinkInv, Linked, Open, Free
<1>3. /\ evq'[i] = <<>> /\ dogTimer'[i] = dogTimer[i] /\ obj'[i] = "open"
      /\ sock'[i] \in {"none", "down", "connecting"}
      /\ sock'[i] = "down" => Client(i)
  BY <1>2 DEF LinkInv, LinkTypes, Open, Serial, Client
<1>4. Client(i) => timer'[i]
  BY Zenon DEF LinkInv, LinkTypes, Open
<1>5. Linked(i)'
  <2>1. ~News(<<>>)
    BY DEF News
  <2> QED
    BY <1>3, <1>4, <2>1 DEF LinkInv, Linked
<1>6. ASSUME NEW j \in Ids, j # i PROVE Linked(j)'
  BY <1>6, LinkedElsewhere DEF LinkInv, LinkTypes, Open
<1> QED
  BY <1>1, <1>5, <1>6 DEF LinkInv

LEMMA DetachLinks ==
  ASSUME LinkInv, NEW i, NEW then, Detach(i, then), UNCHANGED kind
  PROVE  LinkInv'
PROOF
<1>1. LinkTypes'
  <2>1. evq' \in [Ids -> Seq(Events)]
    <3>1. <<>> \in Seq(Events)
      OBVIOUS
    <3>2. CASE then \in {"quit", "resume"}
      BY <3>1, <3>2 DEF LinkInv, LinkTypes, Detach
    <3>3. CASE then \notin {"quit", "resume"}
      BY <3>3 DEF LinkInv, LinkTypes, Detach
    <3> QED
      BY <3>2, <3>3
  <2> QED
    BY <2>1 DEF LinkInv, LinkTypes, Detach
<1>2. ASSUME i \in Ids PROVE Linked(i)'
  <2>1. sock'[i] = "none" /\ ~dogTimer'[i] /\ obj'[i] # "none"
    BY <1>2 DEF LinkInv, LinkTypes, Detach
  <2> QED
    BY <2>1 DEF Linked
<1>3. ASSUME NEW j \in Ids, j # i PROVE Linked(j)'
  BY <1>3, LinkedElsewhere DEF LinkInv, LinkTypes, Detach
<1> QED
  BY <1>1, <1>2, <1>3 DEF LinkInv

LEMMA CloseLinks ==
  ASSUME LinkInv, NEW i, NEW then, Close(i, then), UNCHANGED kind
  PROVE  LinkInv'
PROOF
<1>1. CASE sec[i] /\ active[i]
  BY <1>1, LinkUntouched DEF Close, socketVars
<1>2. CASE ~(sec[i] /\ active[i])
  BY <1>2, DetachLinks DEF Close
<1> QED
  BY <1>1, <1>2

LEMMA MainLinks ==
  ASSUME LinkInv,
         \/ \E i \in Ids : AddStream(i) \/ StopAndRemoveStream(i)
         \/ Quit \/ OnResume \/ ClearNext \/ WaitEnds
         \/ UploadBegin \/ UploadOpen \/ UploadSend \/ UploadClose
         \/ UploadRestore
  PROVE  LinkInv'
PROOF
<1>1. ASSUME NEW i \in Ids, AddStream(i) PROVE LinkInv'
  BY <1>1, OpenLinks DEF AddStream
<1>2. ASSUME NEW i \in Ids, StopAndRemoveStream(i) PROVE LinkInv'
  BY <1>2, CloseLinks DEF StopAndRemoveStream
<1>3. ASSUME NEW why, ClearStreams(why) PROVE LinkInv'
  BY <1>3, CloseLinks DEF ClearStreams
<1>4. ASSUME ClearNext PROVE LinkInv'
  BY <1>4, CloseLinks DEF ClearNext
<1>5. ASSUME WaitEnds PROVE LinkInv'
  BY <1>5, DetachLinks DEF WaitEnds
<1>6. ASSUME UploadBegin PROVE LinkInv'
  <2>1. ASSUME NEW i, Close(i, "upload") PROVE LinkInv'
    BY <1>6, <2>1, CloseLinks DEF UploadBegin
  <2>2. ASSUME UNCHANGED <<obj, serialVars, socketVars, muxq>> PROVE LinkInv'
    BY <1>6, <2>2, LinkUntouched DEF UploadBegin, socketVars
  <2> QED
    BY <1>6, <2>1, <2>2 DEF UploadBegin
<1>7. ASSUME UploadOpen PROVE LinkInv'
  BY <1>7, OpenLinks DEF UploadOpen
<1>8. ASSUME UploadSend PROVE LinkInv'
  BY <1>8, LinkUntouched DEF UploadSend, socketVars
<1>9. ASSUME UploadClose PROVE LinkInv'
  BY <1>9, CloseLinks DEF UploadClose
<1>10. ASSUME UploadRestore PROVE LinkInv'
  BY <1>10, OpenLinks DEF UploadRestore
<1> QED
  BY <1>1, <1>2, <1>3, <1>4, <1>5, <1>6, <1>7, <1>8, <1>9, <1>10
  DEF Quit, OnResume

LEMMA SerialLinks ==
  ASSUME LinkInv, NEW i \in Ids, Thread(i) \/ Unplug(i) \/ Plug(i)
  PROVE  LinkInv'
PROOF
<1>1. UNCHANGED <<kind, obj, sock, evq, timer, dogTimer>>
  <2>1. CASE Thread(i)
    <3>1. UNCHANGED Rest
      BY <2>1 DEF Thread, FirstOpen, Announce, LoopTest, Read, Throw, Count,
         GiveUp, Nap, Reopen, Bump, Drain, Write, Exit, GoInactive, End
    <3> QED
      BY <3>1 DEF Rest, socketVars
  <2>2. CASE Unplug(i) \/ Plug(i)
    BY <2>2 DEF Unplug, Plug, socketVars
  <2> QED
    BY <2>1, <2>2
<1> QED
  BY <1>1, LinkUntouched

(* A loss is told when it happens; news of a connection is posted when the *)
(* connection comes up.                                                    *)
LEMMA PeerLinks ==
  ASSUME LinkInv, NEW i \in Ids,
         \/ PeerAccepts(i) \/ PeerDrops(i) \/ PeerFallsSilent(i) \/ PeerTalks(i)
  PROVE  LinkInv'
PROOF
<1>1. UNCHANGED <<kind, obj, timer, dogTimer>>
  BY DEF PeerAccepts, PeerDrops, PeerFallsSilent, PeerTalks, SocketRest
<1>2. ASSUME NEW j \in Ids, j # i PROVE Linked(j)'
  BY <1>1, <1>2, LinkedElsewhere
  DEF PeerAccepts, PeerDrops, PeerFallsSilent, PeerTalks, Tell, LinkInv, LinkTypes
<1>3. sock' \in [Ids -> {"none", "down", "connecting", "up", "mute"}]
  BY DEF LinkInv, LinkTypes, PeerAccepts, PeerDrops, PeerFallsSilent, PeerTalks
<1>4. Linked(i) /\ sock[i] # "none" /\ evq[i] \in Seq(Events)
  BY DEF LinkInv, LinkTypes, PeerAccepts, PeerDrops, PeerFallsSilent, PeerTalks
<1>5. CASE PeerFallsSilent(i)
  <2>1. sock[i] = "up" /\ sock'[i] = "mute" /\ evq' = evq
    BY <1>5 DEF PeerFallsSilent, LinkInv, LinkTypes
  <2>2. Linked(i)'
    BY <1>1, <1>4, <2>1 DEF Linked
  <2> QED
    BY <1>1, <1>2, <1>3, <2>1, <2>2 DEF LinkInv, LinkTypes
<1>6. ASSUME NEW e \in Events, Tell(i, e),
             \/ e = "CONN" /\ sock'[i] = "up"
             \/ e = "LOST" /\ sock'[i] = "down"
             \/ e = "INPUT" /\ sock'[i] = sock[i]
      PROVE  LinkInv'
  <2>1. evq' \in [Ids -> Seq(Events)] /\ evq'[i] = Append(evq[i], e)
    BY <1>4, <1>6, EventAppended DEF Tell, LinkInv, LinkTypes
  <2>2. /\ Lost(evq'[i]) <=> Lost(evq[i]) \/ e = "LOST"
        /\ News(evq'[i]) <=> e = "CONN" \/ (News(evq[i]) /\ e # "LOST")
    BY <1>4, <2>1, EventAppended
  <2>3. Linked(i)'
    BY <1>1, <1>4, <1>6, <2>2 DEF Linked
  <2> QED
    BY <1>1, <1>2, <1>3, <2>1, <2>3 DEF LinkInv, LinkTypes
<1>7. CASE PeerAccepts(i)
  BY <1>6, <1>7 DEF PeerAccepts, LinkInv, LinkTypes, Events
<1>8. CASE PeerDrops(i)
  BY <1>6, <1>8 DEF PeerDrops, LinkInv, LinkTypes, Events
<1>9. CASE PeerTalks(i)
  BY <1>6, <1>9 DEF PeerTalks, Events
<1> QED
  BY <1>5, <1>7, <1>8, <1>9

(* The watchdog stops only as it hands over to the reconnection timer.     *)
LEMMA TimerLinks ==
  ASSUME LinkInv, NEW i \in Ids, OnTimerSocket(i) \/ OnSocketReadWatchdogTimer(i)
  PROVE  LinkInv'
PROOF
<1>1. UNCHANGED <<kind, obj, evq>>
  BY DEF OnTimerSocket, OnSocketReadWatchdogTimer, SocketRest
<1>2. ASSUME NEW j \in Ids, j # i PROVE Linked(j)'
  BY <1>1, <1>2, LinkedElsewhere
  DEF OnTimerSocket, OnSocketReadWatchdogTimer, LinkInv, LinkTypes
<1>3. Linked(i)
  BY DEF LinkInv
<1>4. CASE OnTimerSocket(i)
  <2> DEFINE again == sock[i] \in {"down", "connecting"}
  <2>1. /\ sock' = [sock EXCEPT ![i] = IF again THEN "connecting" ELSE @]
        /\ timer' = [timer EXCEPT ![i] = again] /\ dogTimer' = dogTimer
    BY <1>4 DEF OnTimerSocket
  <2>2. LinkTypes'
    BY <1>1, <2>1 DEF LinkInv, LinkTypes
  <2>3. sock'[i] = IF again THEN "connecting" ELSE sock[i]
    BY <2>1 DEF LinkInv, LinkTypes
  <2>4. Linked(i)'
    BY <1>1, <1>3, <2>1, <2>3 DEF Linked
  <2> QED
    BY <1>2, <2>2, <2>4 DEF LinkInv
<1>5. CASE OnSocketReadWatchdogTimer(i) /\ ~(dog[i] <= 1)
  BY <1>1, <1>5, LinkUntouched DEF OnSocketReadWatchdogTimer
<1>6. CASE OnSocketReadWatchdogTimer(i) /\ dog[i] <= 1
  <2>1. /\ sock' = [sock EXCEPT ![i] = IF @ = "none" THEN @ ELSE "down"]
        /\ timer' = [timer EXCEPT ![i] = TRUE]
        /\ dogTimer' = [dogTimer EXCEPT ![i] = FALSE]
        /\ dogTimer[i]
    BY <1>6 DEF OnSocketReadWatchdogTimer
  <2>2. /\ LinkTypes' /\ timer'[i] /\ ~dogTimer'[i]
        /\ sock'[i] \in {"none", "down"} /\ (sock[i] = "none" => sock'[i] = "none")
    BY <1>1, <2>1 DEF LinkInv, LinkTypes
  <2>3. Linked(i)'
    BY <1>1, <1>3, <2>1, <2>2 DEF Linked
  <2> QED
    BY <1>2, <2>2, <2>3 DEF LinkInv
<1> QED
  BY <1>4, <1>5, <1>6

(* Handling the news of a connection ends the retries, which is sound only *)
(* if the news is not old; handling a loss starts them.                    *)
LEMMA SocketEventLinks ==
  ASSUME LinkInv, NEW i \in Ids, OnInput(i) \/ OnLost(i) \/ OnConnection(i)
  PROVE  LinkInv'
PROOF
<1>1. PICK e \in Events : SocketEvent(i, e)
  BY DEF OnInput, OnLost, OnConnection, Events
<1>2. UNCHANGED <<kind, obj, sock>> /\ evq[i] # <<>> /\ e = Head(evq[i])
      /\ evq' = [evq EXCEPT ![i] = Tail(@)]
  BY <1>1 DEF SocketEvent, SocketRest
<1>3. ASSUME NEW j \in Ids, j # i PROVE Linked(j)'
  <2>1. timer'[j] = timer[j] /\ dogTimer'[j] = dogTimer[j] /\ evq'[j] = evq[j]
    BY <1>2, <1>3 DEF OnInput, OnLost, OnConnection, LinkInv, LinkTypes
  <2> QED
    BY <1>2, <2>1, LinkedElsewhere DEF LinkInv
<1>4. evq' \in [Ids -> Seq(Events)] /\ evq'[i] = Tail(evq[i])
  BY <1>2, EventTaken DEF LinkInv, LinkTypes
<1>5. /\ Lost(evq[i]) <=> Lost(evq'[i]) \/ e = "LOST"
      /\ News(evq[i]) <=> News(evq'[i]) \/ (e = "CONN" /\ ~Lost(evq'[i]))
  BY <1>2, <1>4, EventTaken DEF LinkInv, LinkTypes
<1>6. Linked(i) /\ obj[i] # "none"
  BY <1>2 DEF LinkInv, Linked
<1>7. CASE OnInput(i)
  <2>1. e = "INPUT" /\ timer' = timer /\ dogTimer' = dogTimer
    BY <1>2, <1>7 DEF OnInput, SocketEvent
  <2>2. Linked(i)'
    BY <1>2, <1>5, <1>6, <2>1 DEF Linked
  <2> QED
    BY <1>2, <1>3, <1>4, <2>1, <2>2 DEF LinkInv, LinkTypes
<1>8. CASE OnLost(i)
  <2>1. e = "LOST" /\ timer' = [timer EXCEPT ![i] = TRUE]
        /\ dogTimer' = [dogTimer EXCEPT ![i] = FALSE]
    BY <1>2, <1>8 DEF OnLost, SocketEvent
  <2>2. timer'[i] /\ ~dogTimer'[i] /\ timer' \in [Ids -> BOOLEAN]
        /\ dogTimer' \in [Ids -> BOOLEAN]
    BY <2>1 DEF LinkInv, LinkTypes
  <2>3. Linked(i)'
    BY <1>2, <1>5, <1>6, <2>1, <2>2 DEF Linked
  <2> QED
    BY <1>2, <1>3, <1>4, <2>2, <2>3 DEF LinkInv, LinkTypes
<1>9. CASE OnConnection(i) /\ ~Client(i)
  <2>1. timer' = timer /\ dogTimer' = dogTimer /\ kind[i] \notin {"tcp", "tcpOut"}
    BY <1>9 DEF OnConnection, Client
  <2>2. e = "CONN"
    BY <1>2, <1>9 DEF OnConnection, SocketEvent
  <2>3. Linked(i)'
    BY <1>2, <1>5, <1>6, <2>1, <2>2 DEF Linked
  <2> QED
    BY <1>2, <1>3, <1>4, <2>1, <2>3 DEF LinkInv, LinkTypes
<1>10. CASE OnConnection(i) /\ Client(i)
  <2>1. e = "CONN" /\ timer' = [timer EXCEPT ![i] = FALSE]
    BY <1>2, <1>10 DEF OnConnection, SocketEvent
  <2>2. dogTimer' = [dogTimer EXCEPT ![i] = @ \/ kind[i] = "tcp"]
    BY <1>10 DEF OnConnection
  <2>3. (dogTimer'[i] <=> dogTimer[i] \/ kind[i] = "tcp") /\ ~timer'[i]
    BY <2>1, <2>2, Zenon DEF LinkInv, LinkTypes
  <2>4. dogTimer' \in [Ids -> BOOLEAN]
    <3>1. PICK b \in BOOLEAN : dogTimer' = [dogTimer EXCEPT ![i] = b]
      BY <2>2, Zenon
    <3> QED
      BY <3>1 DEF LinkInv, LinkTypes
  <2>5. timer' \in [Ids -> BOOLEAN]
    BY <2>1 DEF LinkInv, LinkTypes
  <2>6. Linked(i)'
    BY <1>2, <1>5, <1>6, <1>10, <2>1, <2>3 DEF Linked, Client
  <2> QED
    BY <1>2, <1>3, <1>4, <2>4, <2>5, <2>6 DEF LinkInv, LinkTypes
<1> QED
  BY <1>7, <1>8, <1>9, <1>10

(* A write that fails schedules the reconnection itself; news pending for  *)
(* the connection it breaks would undo that.                               *)
LEMMA SendingLinks ==
  ASSUME "stale" \notin Habits, LinkInv, SendNMEAMessage \/ OnEvtStream
  PROVE  LinkInv'
PROOF
<1>1. PICK to : SendSentence(to)
  BY DEF SendNMEAMessage, OnEvtStream
<1>2. PICK bad \in SUBSET {i \in to : Breakable(i)} :
        /\ sock' = [i \in Ids |-> IF i \in bad THEN "down" ELSE sock[i]]
        /\ timer' = [i \in Ids |-> timer[i] \/ i \in bad]
        /\ dogTimer' = [i \in Ids |-> dogTimer[i] /\ i \notin bad]
        /\ UNCHANGED <<kind, obj, evq>>
  BY <1>1 DEF SendSentence
<1>3. LinkTypes'
  BY <1>2 DEF LinkInv, LinkTypes
<1>4. SUFFICES ASSUME NEW j \in Ids PROVE Linked(j)'
  BY <1>3 DEF LinkInv
<1>5. (dogTimer'[j] <=> dogTimer[j] /\ j \notin bad) /\ Linked(j)
      /\ (timer'[j] <=> timer[j] \/ j \in bad)
  BY <1>2, Zenon DEF LinkInv
<1>6. CASE j \notin bad
  <2>1. sock'[j] = sock[j]
    BY <1>2, <1>6
  <2> QED
    BY <1>2, <1>5, <1>6, <2>1 DEF Linked
<1>7. CASE j \in bad
  <2>1. sock'[j] = "down" /\ sock[j] # "none" /\ Breakable(j)
    BY <1>2, <1>7 DEF Breakable
  <2>2. kind[j] = "tcpOut" => ~Pending(j, "CONN")
    BY <2>1 DEF Breakable
  <2>3. ~Pending(j, "CONN") => ~News(evq[j])
    BY DEF News, Pending
  <2> QED
    BY <1>2, <1>5, <1>7, <2>1, <2>2, <2>3 DEF Linked
<1> QED
  BY <1>6, <1>7

(* No connection known to be lost is given up (datastream.cpp,             *)
(* OnSocketEvent, OnTimerSocket and OnSocketReadWatchdogTimer): a network  *)
(* stream that is down is on its way back, and a TCP client that reads is  *)
(* watched if its peer falls silent, provided no write fails while news of *)
(* its connection is pending.  A silent gpsd daemon is never found out.    *)
THEOREM LinksKept == ASSUME "stale" \notin Habits PROVE Spec => []NeverAbandoned
PROOF
<1>1. Init => LinkInv
  <2> SUFFICES ASSUME Init PROVE LinkInv
    OBVIOUS
  <2>1. LinkTypes
    BY DEF Init, LinkTypes
  <2>2. \A i \in Ids : Linked(i)
    BY DEF Init, Linked
  <2> QED
    BY <2>1, <2>2 DEF LinkInv
<1>2. LinkInv /\ [Next]_vars => LinkInv'
  <2> SUFFICES ASSUME LinkInv, [Next]_vars PROVE LinkInv'
    OBVIOUS
  <2>1. ASSUME NEW i \in Ids, MainNext(i) PROVE LinkInv'
    BY <2>1, TimerLinks, SocketEventLinks DEF MainNext
  <2>2. CASE UNCHANGED vars
    BY <2>2, LinkUntouched DEF vars, socketVars
  <2> QED
    BY <2>1, <2>2, MainLinks, SerialLinks, PeerLinks, SendingLinks DEF Next
<1>3. LinkInv => NeverAbandoned
  BY DEF LinkInv, Linked, NeverAbandoned, Lost, News, Pending
<1> QED
  BY <1>1, <1>2, <1>3, PTL DEF Spec
=============================================================================
