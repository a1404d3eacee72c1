----------------------------- MODULE SencBuild -----------------------------
(***************************************************************************)
(* The background construction of SENC files.  An S-57 chart whose SENC    *)
(* file is missing or out of date is opened as a placeholder; a ticket is  *)
(* queued with SENCThreadManager, a worker thread builds the file, and two *)
(* posted events later the frame asks the chart to load what was built.    *)
(*                                                                         *)
(*   SENCThreadManager, SENCBuildThread   src/src/SencManager.cpp          *)
(*   s57chart (Init, dtor, PostInit)      src/src/s57chart.cpp             *)
(*   Osenc::createSenc200 and its mutex   src/src/Osenc.cpp                *)
(*   MyFrame::OnSENCEvtThread, ParseAllENC  src/src/chart1.cpp             *)
(*   ChartDB cache (open, purge)          src/src/chartdb.cpp              *)
(*                                                                         *)
(* An s57chart object creates at most one ticket (Init calls               *)
(* FindOrCreateSenc once), so a ticket is named by the chart object that   *)
(* made it.  Objects are never reused: closing and opening a chart again   *)
(* makes a new object for the same path.                                   *)
(*                                                                         *)
(* A definition whose name ends in _Mutant is the one that follows it with *)
(* a plausible bug; it is no part of the specification.                    *)
(***************************************************************************)
EXTENDS Naturals, FiniteSets, Sequences, SequencesExt

CONSTANTS
    Charts,     \* identities of s57chart objects, and of their tickets
    Paths,      \* the .000 cells (m_FullPath000)
    PathOf,     \* the cell each chart object is made for
    Encs,       \* the cells ParseAllENC is asked to prepare
    MaxJobs,    \* m_max_jobs
    CanThrow,   \* TRUE iff createSenc200 may leave by a std::exception
    MAIN,       \* the main thread, as a builder (ParseAllENC)
    NONE        \* no chart, no path, no lock holder

ASSUME SencAssumption ==
    /\ IsFiniteSet(Charts)
    /\ PathOf \in [Charts -> Paths]
    /\ Encs \subseteq Paths
    /\ MaxJobs \in Nat \ {0}
    /\ CanThrow \in BOOLEAN
    /\ MAIN \notin Charts
    /\ NONE \notin Charts \union Paths \union {MAIN}

Builders == Charts \union {MAIN}

VARIABLES
    chart,      \* life of each chart object
    ticket,     \* life of each ticket: its m_status, and whether it is deleted
    linked,     \* tickets whose m_chart still points at their chart
    list,       \* ticket_list
    builder,    \* progress of each worker thread, and of a foreground build
    sencLock,   \* holder of the static mutex behind Osenc::lockCR
    senc,       \* SENC file of each cell
    mgrQ,       \* events posted to the manager and not handled
    frameQ,     \* events posted to the frame and not handled
    reloading,  \* ticket whose handler is inside ReloadAllVP, or NONE
    parsing,    \* cell that ParseAllENC is building on the main thread, or NONE
    todo        \* cells that ParseAllENC has still to look at

vars == <<chart, ticket, linked, list, builder, sencLock, senc, mgrQ, frameQ,
          reloading, parsing, todo>>

chartVars == <<chart, linked>>
mainVars  == <<reloading, parsing, todo>>
queueVars == <<mgrQ, frameQ>>

ChartLife  == {"unborn", "placeholder", "drawn", "gone"}
TicketLife == {"none", "refused", "pending", "started", "deleted"}
Outcome    == {"ok", "aborted", "ingestError"}
Phase      == {"none", "created", "waiting", "building", "tessellating",
               "exited", "crashed"} \union Outcome
EventType  == {"STARTED", "DONE_NOERROR", "DONE_ERROR"}
Event      == [type : EventType, ticket : Charts]

-----------------------------------------------------------------------------
(* State predicates *)

\* The chart is in the cache of ChartDB.
Open(c) == chart[c] \in {"placeholder", "drawn"}

\* The thread is somewhere between Run and the return of createSenc200.
Working(b) == builder[b] \in {"created", "waiting", "building", "tessellating"}

\* The main thread can take the next event from the loop.
MainIdle == reloading = NONE /\ parsing = NONE

\* Charts are opened and purged from the event loop or from ReloadAllVP.
MainFree == parsing = NONE

Running(lst, tk) == {c \in Range(lst) : tk[c] = "started"}

FirstPending_Mutant(lst, tk) ==   \* the youngest ticket, not the oldest
    {c \in Charts : \E k \in 1..Len(lst) :
        /\ lst[k] = c
        /\ tk[c] = "pending"
        /\ \A j \in (k+1)..Len(lst) : tk[lst[j]] # "pending"}

FirstPending(lst, tk) ==
    {c \in Charts : \E k \in 1..Len(lst) :
        /\ lst[k] = c
        /\ tk[c] = "pending"
        /\ \A j \in 1..(k-1) : tk[lst[j]] # "pending"}

TopJob_Mutant(lst, tk) ==         \* <= for <
    IF Cardinality(Running(lst, tk)) =< MaxJobs THEN FirstPending(lst, tk) ELSE {}

(* The ticket StartTopJob starts: at most one, the first that is pending.  *)
TopJob(lst, tk) ==
    IF Cardinality(Running(lst, tk)) < MaxJobs THEN FirstPending(lst, tk) ELSE {}

-----------------------------------------------------------------------------
(* SENCThreadManager *)

StartTopJob_Mutant(lst, tk) ==    \* a thread even if there is no candidate
    LET top == TopJob(lst, tk)
        run == IF top = {} THEN {NONE} ELSE top
    IN  /\ ticket'  = [c \in Charts |-> IF c \in run THEN "started" ELSE tk[c]]
        /\ builder' = [b \in Builders \union run |->
                          IF b \in run THEN "created" ELSE builder[b]]

StartTopJob(lst, tk) ==
    LET top == TopJob(lst, tk)
    IN  /\ ticket'  = [c \in Charts |-> IF c \in top THEN "started" ELSE tk[c]]
        /\ builder' = [b \in Builders |->
                          IF b \in top THEN "created" ELSE builder[b]]

AlreadyListed_Mutant(c) ==        \* tickets that are started are overlooked
    \E k \in 1..Len(list) :
        PathOf[list[k]] = PathOf[c] /\ ticket[list[k]] = "pending"

(* "Do not add a job if there is already a job pending for this chart, by  *)
(* name": every listed ticket counts, whatever its status.                 *)
AlreadyListed(c) == \E k \in 1..Len(list) : PathOf[list[k]] = PathOf[c]

ScheduleJob(c) ==
    IF AlreadyListed(c)
    THEN /\ ticket' = [ticket EXCEPT ![c] = "refused"]
         /\ UNCHANGED <<list, builder>>
    ELSE /\ list' = Append(list, c)
         /\ StartTopJob(list', [ticket EXCEPT ![c] = "pending"])

FinishJob_Mutant(t) ==            \* the ticket of a closed chart is kept
    IF t \in Range(list) /\ t \in linked
    THEN \E k \in 1..Len(list) : list[k] = t /\ list' = RemoveAt(list, k)
    ELSE UNCHANGED list

FinishJob(t) ==
    IF t \in Range(list)
    THEN \E k \in 1..Len(list) : list[k] = t /\ list' = RemoveAt(list, k)
    ELSE UNCHANGED list

(* A STARTED event is passed on to the frame.                              *)
OnEvtThreadStarted ==
    /\ MainIdle /\ mgrQ # <<>> /\ Head(mgrQ).type = "STARTED"
    /\ mgrQ' = Tail(mgrQ)
    /\ frameQ' = Append(frameQ, Head(mgrQ))
    /\ UNCHANGED <<chartVars, ticket, list, builder, sencLock, senc, mainVars>>

OnEvtThreadDone_Mutant ==         \* no StartTopJob after an error
    /\ MainIdle /\ mgrQ # <<>> /\ Head(mgrQ).type # "STARTED"
    /\ FinishJob(Head(mgrQ).ticket)
    /\ IF Head(mgrQ).type = "DONE_ERROR" THEN UNCHANGED <<ticket, builder>>
                                         ELSE StartTopJob(list', ticket)
    /\ mgrQ' = Tail(mgrQ)
    /\ frameQ' = Append(frameQ, Head(mgrQ))
    /\ UNCHANGED <<chartVars, sencLock, senc, mainVars>>

(* A DONE event drops the ticket from the list, gives its slot to the next *)
(* pending one, and is passed on to the frame.                             *)
OnEvtThreadDone ==
    /\ MainIdle /\ mgrQ # <<>> /\ Head(mgrQ).type # "STARTED"
    /\ FinishJob(Head(mgrQ).ticket)
    /\ StartTopJob(list', ticket)
    /\ mgrQ' = Tail(mgrQ)
    /\ frameQ' = Append(frameQ, Head(mgrQ))
    /\ UNCHANGED <<chartVars, sencLock, senc, mainVars>>

-----------------------------------------------------------------------------
(* SENCBuildThread::Entry and Osenc::createSenc200 *)

(* The worker announces itself and enters createSenc200.                   *)
EntryStart(c) ==
    /\ builder[c] = "created"
    /\ builder' = [builder EXCEPT ![c] = "waiting"]
    /\ mgrQ' = Append(mgrQ, [type |-> "STARTED", ticket |-> c])
    /\ UNCHANGED <<chartVars, ticket, list, sencLock, senc, frameQ, mainVars>>

(* lockCR.lock(), on entry and after each tessellation.                    *)
AcquireLock(b) ==
    /\ builder[b] = "waiting" /\ sencLock = NONE
    /\ sencLock' = b
    /\ builder' = [builder EXCEPT ![b] = "building"]
    /\ UNCHANGED <<chartVars, ticket, list, senc, queueVars, mainVars>>

(* CreateAreaFeatureGeometryRecord200 gives the lock up around PolyTessGeo.*)
Tessellate(b) ==
    /\ builder[b] = "building"
    /\ builder' = [builder EXCEPT ![b] = "tessellating"]
    /\ sencLock' = NONE
    /\ UNCHANGED <<chartVars, ticket, list, senc, queueVars, mainVars>>

TessellationDone_Mutant(b) ==     \* lockCR.lock() is missing after PolyTessGeo
    /\ builder[b] = "tessellating"
    /\ builder' = [builder EXCEPT ![b] = "building"]
    /\ UNCHANGED <<chartVars, ticket, list, sencLock, senc, queueVars, mainVars>>

TessellationDone(b) ==
    /\ builder[b] = "tessellating"
    /\ builder' = [builder EXCEPT ![b] = "waiting"]
    /\ UNCHANGED <<chartVars, ticket, list, sencLock, senc, queueVars, mainVars>>

SencAfter(p, r) == IF r = "ok" THEN [senc EXCEPT ![p] = "current"] ELSE senc

(* createSenc200 returns in a worker: the finished temporary file has been *)
(* renamed to the SENC file, or an error left the old file as it was.      *)
BuildReturns(c, r) ==
    /\ builder[c] = "building"
    /\ builder' = [builder EXCEPT ![c] = r]
    /\ senc' = SencAfter(PathOf[c], r)
    /\ sencLock' = NONE
    /\ UNCHANGED <<chartVars, ticket, list, queueVars, mainVars>>

DoneType_Mutant(r) ==             \* the test is inverted
    IF r = "ingestError" THEN "DONE_NOERROR" ELSE "DONE_ERROR"

(* Only ERROR_INGESTING000 is reported as an error.                        *)
DoneType(r) == IF r = "ingestError" THEN "DONE_ERROR" ELSE "DONE_NOERROR"

EntryDone_Mutant(c) ==            \* an error return posts nothing
    /\ builder[c] \in Outcome
    /\ builder' = [builder EXCEPT ![c] = "exited"]
    /\ mgrQ' = IF builder[c] = "ingestError" THEN mgrQ
               ELSE Append(mgrQ, [type |-> DoneType(builder[c]), ticket |-> c])
    /\ UNCHANGED <<chartVars, ticket, list, sencLock, senc, frameQ, mainVars>>

EntryDone(c) ==
    /\ builder[c] \in Outcome
    /\ builder' = [builder EXCEPT ![c] = "exited"]
    /\ mgrQ' = Append(mgrQ, [type |-> DoneType(builder[c]), ticket |-> c])
    /\ UNCHANGED <<chartVars, ticket, list, sencLock, senc, frameQ, mainVars>>

(* A std::exception ends the thread and posts nothing; the destructor of   *)
(* lockCR releases the mutex if the thread held it.                        *)
EntryThrows(c) ==
    /\ CanThrow
    /\ builder[c] \in {"building", "tessellating"}
    /\ builder' = [builder EXCEPT ![c] = "crashed"]
    /\ sencLock' = IF sencLock = c THEN NONE ELSE sencLock
    /\ UNCHANGED <<chartVars, ticket, list, senc, queueVars, mainVars>>

-----------------------------------------------------------------------------
(* s57chart and the chart cache, on the main thread *)

(* PostInit fails, and leaves the chart a placeholder, when there is no    *)
(* SENC file to load.                                                      *)
PostInit(c) == IF senc[PathOf[c]] = "missing" THEN "placeholder" ELSE "drawn"

BuildSENCFile(c) == linked' = linked \union {c} /\ ScheduleJob(c)

(* Init loads a current SENC file at once; otherwise it reports success for *)
(* a chart that is only a placeholder until its build is done.             *)
FindOrCreateSenc(c) ==
    IF senc[PathOf[c]] = "current"
    THEN /\ chart' = [chart EXCEPT ![c] = PostInit(c)]
         /\ UNCHANGED <<linked, ticket, list, builder>>
    ELSE /\ chart' = [chart EXCEPT ![c] = "placeholder"]
         /\ BuildSENCFile(c)

(* OpenChartUsingCache makes an object only if the cache has none for the  *)
(* path: a placeholder counts as ready to render.                          *)
OpenChart(c) ==
    /\ MainFree
    /\ chart[c] = "unborn"
    /\ \A d \in Charts : PathOf[d] = PathOf[c] => ~Open(d)
    /\ FindOrCreateSenc(c)
    /\ UNCHANGED <<sencLock, senc, queueVars, mainVars>>

IsChartInTicketlist_Mutant(c) ==  \* queued tickets only, not active ones
    c \in linked /\ c \in Range(list) /\ ticket[c] = "pending"

IsChartInTicketlist(c) == c \in linked /\ c \in Range(list)

(* The destructor clears m_chart in the ticket, if the ticket is listed.   *)
CloseChart(c) ==
    /\ MainFree
    /\ Open(c)
    /\ chart' = [chart EXCEPT ![c] = "gone"]
    /\ linked' = IF IsChartInTicketlist(c) THEN linked \ {c} ELSE linked
    /\ UNCHANGED <<ticket, list, builder, sencLock, senc, queueVars, mainVars>>

-----------------------------------------------------------------------------
(* MyFrame *)

OnSENCEvtIgnored_Mutant ==        \* the break of case STARTED is missing
    /\ MainIdle /\ frameQ # <<>> /\ Head(frameQ).type # "DONE_NOERROR"
    /\ frameQ' = Tail(frameQ)
    /\ ticket' = [ticket EXCEPT ![Head(frameQ).ticket] = "deleted"]
    /\ UNCHANGED <<chartVars, list, builder, sencLock, senc, mgrQ, mainVars>>

(* STARTED and DONE_ERROR events change nothing: the ticket of a failed    *)
(* build is never deleted, its chart stays a placeholder.                  *)
OnSENCEvtIgnored ==
    /\ MainIdle /\ frameQ # <<>> /\ Head(frameQ).type # "DONE_NOERROR"
    /\ frameQ' = Tail(frameQ)
    /\ UNCHANGED <<chartVars, ticket, list, builder, sencLock, senc, mgrQ, mainVars>>

(* DONE_NOERROR: the chart, if the ticket still has one, loads the file;   *)
(* then ReloadAllVP starts, which may open and purge charts.  PostInit of  *)
(* a chart that is gone is outside the model: nothing is said of it.       *)
OnSENCEvtDone ==
    /\ MainIdle /\ frameQ # <<>> /\ Head(frameQ).type = "DONE_NOERROR"
    /\ LET t == Head(frameQ).ticket
       IN  /\ chart' = IF t \in linked /\ chart[t] = "placeholder"
                       THEN [chart EXCEPT ![t] = PostInit(t)] ELSE chart
           /\ reloading' = t
    /\ frameQ' = Tail(frameQ)
    /\ UNCHANGED <<linked, ticket, list, builder, sencLock, senc, mgrQ, parsing, todo>>

(* ReloadAllVP has returned: delete event.m_ticket.                        *)
ReloadReturns ==
    /\ reloading # NONE
    /\ ticket' = [ticket EXCEPT ![reloading] = "deleted"]
    /\ linked' = linked \ {reloading}
    /\ reloading' = NONE
    /\ UNCHANGED <<chart, list, builder, sencLock, senc, queueVars, parsing, todo>>

(* ParseAllENC looks at one cell of its list after another, and builds the *)
(* SENC files that are not current on the main thread.  The event loop     *)
(* runs between two cells, in the update of the progress dialog.           *)
ParseNext(p) ==
    /\ MainIdle /\ p \in todo
    /\ todo' = todo \ {p}
    /\ IF senc[p] = "current"
       THEN UNCHANGED <<parsing, builder>>
       ELSE parsing' = p /\ builder' = [builder EXCEPT ![MAIN] = "waiting"]
    /\ UNCHANGED <<chartVars, ticket, list, sencLock, senc, queueVars, reloading>>

(* createSenc200 returns to ParseAllENC, which deletes its chart object.   *)
ParseReturns(r) ==
    /\ builder[MAIN] = "building"
    /\ builder' = [builder EXCEPT ![MAIN] = "none"]
    /\ senc' = SencAfter(parsing, r)
    /\ sencLock' = NONE
    /\ parsing' = NONE
    /\ UNCHANGED <<chartVars, ticket, list, queueVars, reloading, todo>>

-----------------------------------------------------------------------------
(* Specification *)

Init ==
    /\ chart = [c \in Charts |-> "unborn"]
    /\ ticket = [c \in Charts |-> "none"]
    /\ linked = {}
    /\ list = <<>>
    /\ builder = [b \in Builders |-> "none"]
    /\ sencLock = NONE
    /\ senc \in [Paths -> {"missing", "stale"}]
    /\ mgrQ = <<>>
    /\ frameQ = <<>>
    /\ reloading = NONE
    /\ parsing = NONE
    /\ todo = Encs

Worker(c) ==
    \/ EntryStart(c)
    \/ \E r \in Outcome : BuildReturns(c, r)
    \/ EntryDone(c)
    \/ EntryThrows(c)

Building(b) == AcquireLock(b) \/ Tessellate(b) \/ TessellationDone(b)

MainLoop ==
    \/ OnEvtThreadStarted
    \/ OnEvtThreadDone
    \/ OnSENCEvtIgnored
    \/ OnSENCEvtDone
    \/ ReloadReturns
    \/ \E p \in Paths : ParseNext(p)
    \/ \E r \in Outcome : ParseReturns(r)

(* Nothing is left to do: every chart object has come and gone.            *)
Quiescent ==
    /\ \A c \in Charts : chart[c] = "gone"
    /\ \A b \in Builders : builder[b] \in {"none", "exited", "crashed"}
    /\ MainIdle /\ mgrQ = <<>> /\ frameQ = <<>> /\ todo = {}
    /\ UNCHANGED vars

Next ==
    \/ \E c \in Charts : OpenChart(c) \/ CloseChart(c) \/ Worker(c)
    \/ \E b \in Builders : Building(b)
    \/ MainLoop
    \/ Quiescent

Spec == Init /\ [][Next]_vars

(* Fairness.  The event loop runs, threads are scheduled, and a cell has   *)
(* finitely many features, so createSenc200 does not tessellate for ever.  *)
(* The user need not open or close charts, or start ParseAllENC's pass.    *)
Fairness ==
    /\ WF_vars(OnEvtThreadStarted \/ OnEvtThreadDone)
    /\ WF_vars(OnSENCEvtIgnored \/ OnSENCEvtDone)
    /\ WF_vars(ReloadReturns)
    /\ \A c \in Charts : /\ WF_vars(EntryStart(c))
                         /\ WF_vars(EntryDone(c))
                         /\ SF_vars(\E r \in Outcome : BuildReturns(c, r))
    /\ SF_vars(\E r \in Outcome : ParseReturns(r))
    /\ \A b \in Builders : WF_vars(AcquireLock(b)) /\ WF_vars(TessellationDone(b))

FairSpec == Spec /\ Fairness

-----------------------------------------------------------------------------
(* Properties *)

TypeOK ==
    /\ chart \in [Charts -> ChartLife]
    /\ ticket \in [Charts -> TicketLife]
    /\ linked \subseteq Charts
    /\ list \in Seq(Charts)
    /\ builder \in [Builders -> Phase]
    /\ sencLock \in Builders \union {NONE}
    /\ senc \in [Paths -> {"missing", "stale", "current"}]
    /\ mgrQ \in Seq(Event)
    /\ frameQ \in Seq(Event)
    /\ reloading \in Charts \union {NONE}
    /\ parsing \in Paths \union {NONE}
    /\ todo \subseteq Paths

(* Two worker threads never build the SENC file of one cell at a time: the *)
(* duplicate test of ScheduleJob holds until FinishJob, however charts are *)
(* closed and opened again (SencManager.cpp:118).                          *)
OneWorkerPerCell ==
    \A c, d \in Charts : c # d /\ Working(c) /\ Working(d) => PathOf[c] # PathOf[d]

(* No more than m_max_jobs worker threads build at a time, although slots  *)
(* are counted from ticket states and not from threads (StartTopJob).      *)
WorkersBounded == Cardinality({c \in Charts : Working(c)}) =< MaxJobs

(* A ticket waits only while all slots are taken: StartTopJob starts one   *)
(* ticket per call, and it is called often enough.                         *)
NoIdleSlot ==
    (\E c \in Range(list) : ticket[c] = "pending")
        => Cardinality(Running(list, ticket)) = MaxJobs

(* A deleted ticket is not referred to by the list, a thread, an event, or *)
(* the handler that is about to delete it (delete event.m_ticket).         *)
TicketsInUseExist ==
    /\ \A c \in Range(list) : ticket[c] \in {"pending", "started"}
    /\ \A c \in Charts : Working(c) \/ builder[c] \in Outcome => ticket[c] = "started"
    /\ \A e \in Range(mgrQ) \union Range(frameQ) : ticket[e.ticket] = "started"
    /\ reloading # NONE => ticket[reloading] = "started"

(* A chart that is destroyed while its ticket is queued or active leaves   *)
(* no pointer behind in the list (s57chart.cpp:329).                       *)
ListedChartsAlive == \A c \in Range(list) : c \in linked => Open(c)

(* The mutex of createSenc200 is held by a builder that is building, and   *)
(* only that builder is, through every return, throw and tessellation.     *)
LockHeldByBuilder ==
    \A b \in Builders : builder[b] = "building" <=> sencLock = b

(* A result for this ticket is still to come: it waits, it is being built, *)
(* or its DONE event is on the way.                                        *)
StillAtWork(d) ==
    \/ ticket[d] = "pending"
    \/ Working(d)
    \/ builder[d] \in Outcome
    \/ \E e \in Range(mgrQ) : e.ticket = d /\ e.type # "STARTED"

(* A request that finds its cell in the list is dropped without trace, so  *)
(* it relies on the listed ticket.  That ticket still produces a result,   *)
(* except in one case: its worker left createSenc200 by an exception.      *)
(* Then it stays listed without a worker, and every later request for the  *)
(* cell is dropped, although upstream was to "maybe try again later"       *)
(* (SencManager.cpp:302, 347).  Nothing else leaves a dead job behind.     *)
RefusalReliesOnLiveJob ==
    [][\A c \in Charts : ticket'[c] = "refused" /\ ticket[c] # "refused" =>
          \E d \in Range(list) : PathOf[d] = PathOf[c]
                                 /\ (StillAtWork(d) \/ builder[d] = "crashed")]_vars

(* The frame never asks a destroyed chart to load its SENC file: m_chart   *)
(* of a finished ticket is NULL or a live chart (OnSENCEvtThread).         *)
FinishedChartsAlive ==
    \A e \in Range(frameQ) :
        e.type = "DONE_NOERROR" /\ e.ticket \in linked => Open(e.ticket)

(* Every ticket that enters the list leaves it: its build is started, ends *)
(* and is noticed, whatever the other tickets do.                          *)
EveryJobFinishes == \A c \in Charts : c \in Range(list) ~> c \notin Range(list)

(* A chart whose own ticket was accepted is loaded when the build succeeds *)
(* (or is closed first).                                                   *)
BuiltChartIsLoaded ==
    \A c \in Charts : builder[c] = "ok" ~> chart[c] \in {"drawn", "gone"}

(* The tickets that wait: the list from its first pending ticket on.       *)
Waiting(lst, tk) ==
    LET pending == {k \in 1..Len(lst) : tk[lst[k]] = "pending"}
    IN  IF pending = {} THEN <<>> ELSE SubSeq(lst, Min(pending), Len(lst))

(* The ticket list is a bounded pool of slots filled in order of arrival:  *)
(* started tickets stand before the waiting ones, whoever closes a chart,  *)
(* fails or throws (StartTopJob, ScheduleJob, FinishJob).                  *)
Pool == INSTANCE JobPool WITH
            Job     <- Charts,
            waiting <- Waiting(list, ticket),
            running <- Running(list, ticket)

ImplementsJobPool == Pool!Spec
=============================================================================
