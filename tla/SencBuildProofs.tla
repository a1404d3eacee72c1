-------------------------- MODULE SencBuildProofs --------------------------
(***************************************************************************)
(* TLAPS proofs about SencBuild, for any charts, cells and number of       *)
(* worker threads, with or without exceptions in the workers: what the     *)
(* manager and its threads keep, that a request is refused only if another *)
(* one will answer it, and that the ticket list implements JobPool.        *)
(***************************************************************************)
EXTENDS SencBuild, FiniteSetTheorems, SequenceTheorems, TLAPS

-----------------------------------------------------------------------------
(* The inductive invariant *)

IsDone(e) == e.type # "STARTED"

\* No cell, hence no ticket, is listed twice: what the duplicate test keeps.
CellsListedOnce ==
    \A i, j \in 1..Len(list) : PathOf[list[i]] = PathOf[list[j]] => i = j

ListedStatus == \A c \in Range(list) : ticket[c] \in {"pending", "started"}

\* A thread works for a started ticket that is still listed.
WorkersListed ==
    \A c \in Charts : Working(c) \/ builder[c] \in Outcome =>
        ticket[c] = "started" /\ c \in Range(list)

\* Before the chart object and before the thread exist, nothing does.
NothingEarly ==
    \A c \in Charts :
        /\ chart[c] = "unborn" => ticket[c] = "none"
        /\ ticket[c] \in {"none", "refused", "pending"} => builder[c] = "none"
        /\ ticket[c] \in {"none", "refused", "deleted"} => c \notin Range(list)
        /\ ticket[c] = "deleted" => builder[c] = "exited"

\* The DONE event of a ticket is its last event, and follows its thread.
ManagerEvents ==
    \A i \in 1..Len(mgrQ) :
        /\ ticket[mgrQ[i].ticket] = "started"
        /\ IsDone(mgrQ[i]) =>
              /\ builder[mgrQ[i].ticket] = "exited"
              /\ \A j \in (i+1)..Len(mgrQ) : mgrQ[j].ticket # mgrQ[i].ticket

FrameEvents ==
    \A i \in 1..Len(frameQ) :
        /\ ticket[frameQ[i].ticket] = "started"
        /\ IsDone(frameQ[i]) =>
              /\ builder[frameQ[i].ticket] = "exited"
              /\ frameQ[i].ticket \notin Range(list)
              /\ \A j \in (i+1)..Len(frameQ) : frameQ[j].ticket # frameQ[i].ticket
              /\ \A j \in 1..Len(mgrQ) : mgrQ[j].ticket # frameQ[i].ticket

\* While its handler runs, no event of the ticket is on the way.
ReloadingLast ==
    reloading # NONE =>
        /\ ticket[reloading] = "started"
        /\ builder[reloading] = "exited"
        /\ reloading \notin Range(list)
        /\ \A j \in 1..Len(mgrQ) : mgrQ[j].ticket # reloading
        /\ \A j \in 1..Len(frameQ) : frameQ[j].ticket # reloading

SlotsBounded == Cardinality(Running(list, ticket)) =< MaxJobs

\* The main thread builds only for ParseAllENC, in which it handles no event.
MainBuilds ==
    /\ builder[MAIN] \in {"none", "waiting", "building", "tessellating"}
    /\ builder[MAIN] # "none" <=> parsing # NONE
    /\ parsing # NONE => reloading = NONE

IInv ==
    /\ TypeOK
    /\ CellsListedOnce
    /\ ListedStatus
    /\ WorkersListed
    /\ NothingEarly
    /\ ManagerEvents
    /\ FrameEvents
    /\ ReloadingLast
    /\ SlotsBounded
    /\ ListedChartsAlive
    /\ LockHeldByBuilder
    /\ MainBuilds
-----------------------------------------------------------------------------
(* Lemmas about the helpers *)

(* Removing one position keeps the other elements, in their order.         *)
LEMMA RemoveAtElements ==
    ASSUME NEW S, NEW s \in Seq(S), NEW k \in 1..Len(s)
    PROVE  /\ RemoveAt(s, k) \in Seq(S)
           /\ Len(RemoveAt(s, k)) = Len(s) - 1
           /\ \A i \in 1..(Len(s) - 1) :
                 RemoveAt(s, k)[i] = IF i < k THEN s[i] ELSE s[i+1]
<1> DEFINE front == SubSeq(s, 1, k-1)
           back  == SubSeq(s, k+1, Len(s))
<1>1. /\ front \in Seq(S) /\ Len(front) = k-1
      /\ \A i \in 1..(k-1) : front[i] = s[i]
  OBVIOUS
<1>2. /\ back \in Seq(S) /\ Len(back) = Len(s) - k
      /\ \A i \in 1..(Len(s) - k) : back[i] = s[k+i]
  OBVIOUS
<1>3. RemoveAt(s, k) = front \o back
  BY DEF RemoveAt
<1> HIDE DEF front, back
<1>4. front \o back \in Seq(S) /\ Len(front \o back) = Len(s) - 1
  BY <1>1, <1>2
<1>5. ASSUME NEW i \in 1..(Len(s) - 1)
      PROVE  (front \o back)[i] = IF i < k THEN s[i] ELSE s[i+1]
  <2>1. CASE i < k
    BY <1>1, <1>2, <2>1
  <2>2. CASE ~(i < k)
    <3>1. (front \o back)[i] = back[i - (k-1)]
      BY <1>1, <1>2, <2>2
    <3>2. i - (k-1) \in 1..(Len(s) - k)
      BY <2>2
    <3> QED
      BY <1>2, <2>2, <3>1, <3>2
  <2> QED
    BY <2>1, <2>2
<1> QED
  BY <1>3, <1>4, <1>5

LEMMA AppendElements ==
    ASSUME NEW S, NEW s \in Seq(S), NEW e \in S
    PROVE  /\ Append(s, e) \in Seq(S) /\ Len(Append(s, e)) = Len(s) + 1
           /\ \A i \in 1..(Len(s) + 1) :
                 Append(s, e)[i] = IF i =< Len(s) THEN s[i] ELSE e
OBVIOUS

LEMMA TailElements ==
    ASSUME NEW S, NEW s \in Seq(S), s # <<>>
    PROVE  /\ Len(s) \in Nat \ {0} /\ Head(s) = s[1] /\ Head(s) \in S
           /\ Tail(s) \in Seq(S) /\ Len(Tail(s)) = Len(s) - 1
           /\ \A i \in 1..(Len(s) - 1) : Tail(s)[i] = s[i+1]
OBVIOUS

(* There is at most one first pending ticket, and it is a pending one of   *)
(* the list.                                                               *)
LEMMA FirstPendingUnique ==
    ASSUME NEW lst \in Seq(Charts), NEW tk
    PROVE  /\ \A c \in FirstPending(lst, tk) :
                 c \in Charts /\ c \in Range(lst) /\ tk[c] = "pending"
           /\ \A c, d \in FirstPending(lst, tk) : c = d
<1>1. ASSUME NEW c \in FirstPending(lst, tk)
      PROVE  c \in Charts /\ c \in Range(lst) /\ tk[c] = "pending"
  BY DEF FirstPending, Range
<1>2. ASSUME NEW c \in FirstPending(lst, tk), NEW d \in FirstPending(lst, tk)
      PROVE  c = d
  <2>1. PICK k \in 1..Len(lst) : /\ lst[k] = c /\ tk[c] = "pending"
                                 /\ \A j \in 1..(k-1) : tk[lst[j]] # "pending"
    BY DEF FirstPending
  <2>2. PICK l \in 1..Len(lst) : /\ lst[l] = d /\ tk[d] = "pending"
                                 /\ \A j \in 1..(l-1) : tk[lst[j]] # "pending"
    BY DEF FirstPending
  <2>3. ~(k < l) /\ ~(l < k)
    BY <2>1, <2>2
  <2> QED
    BY <2>1, <2>2, <2>3
<1> QED
  BY <1>1, <1>2

(* Starting the top job keeps the number of started tickets within the     *)
(* limit, and changes nothing else than that ticket and its thread.        *)
LEMMA StartTopJobBounded ==
    ASSUME NEW lst \in Seq(Charts), NEW tk \in [Charts -> TicketLife],
           builder \in [Builders -> Phase],
           Cardinality(Running(lst, tk)) =< MaxJobs,
           StartTopJob(lst, tk)
    PROVE  /\ ticket' \in [Charts -> TicketLife]
           /\ builder' \in [Builders -> Phase]
           /\ \A c \in Charts : \/ ticket'[c] = tk[c] /\ builder'[c] = builder[c]
                                \/ /\ tk[c] = "pending" /\ c \in Range(lst)
                                   /\ ticket'[c] = "started"
                                   /\ builder'[c] = "created"
           /\ builder'[MAIN] = builder[MAIN]
           /\ Cardinality(Running(lst, ticket')) =< MaxJobs
<1> USE SencAssumption
<1> DEFINE top == TopJob(lst, tk)
<1>1. /\ \A c \in top : c \in Charts /\ c \in Range(lst) /\ tk[c] = "pending"
      /\ \A c, d \in top : c = d
  BY FirstPendingUnique DEF TopJob
<1>2. /\ ticket' = [c \in Charts |-> IF c \in top THEN "started" ELSE tk[c]]
      /\ builder' = [b \in Builders |->
                        IF b \in top THEN "created" ELSE builder[b]]
  BY DEF StartTopJob
<1>3. top # {} => Cardinality(Running(lst, tk)) < MaxJobs
  BY DEF TopJob
<1> HIDE DEF top
<1>4. ticket' \in [Charts -> TicketLife] /\ builder' \in [Builders -> Phase]
  BY <1>2 DEF TicketLife, Phase
<1>5. ASSUME NEW c \in Charts
      PROVE  \/ ticket'[c] = tk[c] /\ builder'[c] = builder[c]
             \/ /\ tk[c] = "pending" /\ c \in Range(lst)
                /\ ticket'[c] = "started" /\ builder'[c] = "created"
  BY <1>1, <1>2 DEF Builders
<1>6. builder'[MAIN] = builder[MAIN]
  BY <1>1, <1>2 DEF Builders
<1>7. Running(lst, tk) \subseteq Charts /\ IsFiniteSet(Running(lst, tk))
  <2>1. Running(lst, tk) \subseteq Charts
    BY DEF Running, Range
  <2> QED
    BY <2>1, FS_Subset
<1>8. Cardinality(Running(lst, ticket')) =< MaxJobs
  <2>1. CASE top = {}
    <3>1. Running(lst, ticket') = Running(lst, tk)
      BY <1>2, <2>1 DEF Running, Range
    <3> QED
      BY <3>1
  <2>2. CASE top # {}
    <3>1. PICK t \in top : TRUE
      BY <2>2
    <3>2. top = {t}
      BY <1>1, <3>1
    <3>3. Running(lst, ticket') = Running(lst, tk) \union {t}
      BY <1>1, <1>2, <3>2 DEF Running, Range
    <3>4. t \notin Running(lst, tk)
      BY <1>1, <3>1 DEF Running
    <3>5. Cardinality(Running(lst, ticket')) = Cardinality(Running(lst, tk)) + 1
      BY <1>7, <3>3, <3>4, FS_AddElement
    <3>6. Cardinality(Running(lst, tk)) \in Nat
      BY <1>7, FS_CardinalityType
    <3> QED
      BY <1>3, <2>2, <3>5, <3>6
  <2> QED
    BY <2>1, <2>2
<1> QED
  BY <1>4, <1>5, <1>6, <1>8
(* Every event in a queue is about a chart object, and every listed ticket *)
(* belongs to one.                                                         *)
LEMMA EventTickets ==
    ASSUME TypeOK
    PROVE  /\ \A i \in 1..Len(mgrQ) : mgrQ[i] \in Event /\ mgrQ[i].ticket \in Charts
           /\ \A i \in 1..Len(frameQ) : frameQ[i] \in Event /\ frameQ[i].ticket \in Charts
           /\ Range(list) \subseteq Charts
<1>1. \A i \in 1..Len(mgrQ) : mgrQ[i] \in Event
  BY DEF TypeOK
<1>2. \A i \in 1..Len(frameQ) : frameQ[i] \in Event
  BY DEF TypeOK
<1>3. Range(list) \subseteq Charts
  BY DEF TypeOK, Range
<1> QED
  BY <1>1, <1>2, <1>3 DEF Event

(* A step that posts and handles no event and revives no exited thread     *)
(* keeps what is known of the events.                                      *)
LEMMA EventsKept ==
    ASSUME TypeOK, ManagerEvents, FrameEvents,
           UNCHANGED <<mgrQ, frameQ, ticket, list>>,
           \A c \in Charts : builder[c] = "exited" => builder'[c] = "exited"
    PROVE  ManagerEvents' /\ FrameEvents'
<1>1. ManagerEvents'
  BY EventTickets DEF ManagerEvents, IsDone
<1>2. FrameEvents'
  BY EventTickets DEF FrameEvents, IsDone
<1> QED
  BY <1>1, <1>2

-----------------------------------------------------------------------------
(* Every step keeps the invariant: one lemma per action *)

LEMMA OnEvtThreadStartedStep ==
    ASSUME IInv, OnEvtThreadStarted
    PROVE  IInv'
<1> USE SencAssumption DEF IInv, chartVars, mainVars, queueVars
<1>a. /\ Len(mgrQ) \in Nat \ {0} /\ Head(mgrQ) = mgrQ[1] /\ mgrQ[1] \in Event
      /\ mgrQ' \in Seq(Event) /\ Len(mgrQ') = Len(mgrQ) - 1
      /\ \A i \in 1..(Len(mgrQ) - 1) : mgrQ'[i] = mgrQ[i+1]
  BY TailElements DEF OnEvtThreadStarted, TypeOK
<1>b. /\ frameQ' \in Seq(Event) /\ Len(frameQ') = Len(frameQ) + 1
      /\ \A i \in 1..(Len(frameQ) + 1) :
            frameQ'[i] = IF i =< Len(frameQ) THEN frameQ[i] ELSE mgrQ[1]
  BY <1>a, AppendElements DEF OnEvtThreadStarted, TypeOK
<1>1. TypeOK'
  BY <1>a, <1>b DEF OnEvtThreadStarted, TypeOK
<1>2. /\ CellsListedOnce' /\ ListedStatus' /\ WorkersListed' /\ NothingEarly'
      /\ SlotsBounded' /\ ListedChartsAlive' /\ LockHeldByBuilder' /\ MainBuilds'
  BY DEF OnEvtThreadStarted, CellsListedOnce, ListedStatus, WorkersListed,
     NothingEarly, SlotsBounded, ListedChartsAlive, LockHeldByBuilder,
     MainBuilds, Range, Running, Open, Working, Builders
<1>3. ManagerEvents'
  BY <1>a, <1>b DEF OnEvtThreadStarted, ManagerEvents, IsDone, Builders,
     Outcome, TypeOK
<1>4. FrameEvents'
  <2> SUFFICES ASSUME NEW i \in 1..Len(frameQ')
               PROVE  /\ ticket[frameQ'[i].ticket] = "started"
                      /\ IsDone(frameQ'[i]) =>
                           /\ builder[frameQ'[i].ticket] = "exited"
                           /\ frameQ'[i].ticket \notin Range(list)
                           /\ \A j \in (i+1)..Len(frameQ') :
                                 frameQ'[j].ticket # frameQ'[i].ticket
                           /\ \A j \in 1..Len(mgrQ') :
                                 mgrQ'[j].ticket # frameQ'[i].ticket
    BY DEF FrameEvents, IsDone, OnEvtThreadStarted
  <2>0. Len(frameQ) \in Nat
    BY DEF TypeOK
  <2>1. CASE i =< Len(frameQ)
    <3>1. frameQ'[i] = frameQ[i]
      BY <1>b, <2>0, <2>1
    <3>2. ASSUME IsDone(frameQ[i]), NEW j \in (i+1)..Len(frameQ')
          PROVE  frameQ'[j].ticket # frameQ[i].ticket
      BY <1>a, <1>b, <2>0, <2>1, <3>2 DEF FrameEvents
    <3>3. ASSUME IsDone(frameQ[i]), NEW j \in 1..Len(mgrQ')
          PROVE  mgrQ'[j].ticket # frameQ[i].ticket
      BY <1>a, <2>0, <2>1, <3>3 DEF FrameEvents
    <3> QED
      BY <2>0, <2>1, <3>1, <3>2, <3>3 DEF FrameEvents
  <2>2. CASE i = Len(frameQ) + 1
    <3>1. frameQ'[i] = mgrQ[1] /\ ~IsDone(mgrQ[1])
      BY <1>a, <1>b, <2>0, <2>2 DEF IsDone, OnEvtThreadStarted
    <3> QED
      BY <1>a, <3>1 DEF ManagerEvents
  <2> QED
    BY <1>b, <2>0, <2>1, <2>2
<1>5. ReloadingLast'
  BY DEF OnEvtThreadStarted, ReloadingLast, MainIdle
<1> QED
  BY <1>1, <1>2, <1>3, <1>4, <1>5

LEMMA EntryStartStep ==
    ASSUME IInv, NEW c \in Charts, EntryStart(c)
    PROVE  IInv'
<1> USE SencAssumption DEF IInv, chartVars, mainVars, queueVars
<1>a. [type |-> "STARTED", ticket |-> c] \in Event
  BY DEF Event, EventType, DoneType
<1>b. /\ mgrQ' \in Seq(Event) /\ Len(mgrQ') = Len(mgrQ) + 1
      /\ \A i \in 1..(Len(mgrQ) + 1) :
            mgrQ'[i] = IF i =< Len(mgrQ) THEN mgrQ[i]
                       ELSE [type |-> "STARTED", ticket |-> c]
  BY <1>a, AppendElements DEF EntryStart, TypeOK
<1>1. TypeOK'
  BY <1>b DEF EntryStart, TypeOK, Builders, Phase
<1>2. /\ CellsListedOnce' /\ ListedStatus'
      /\ SlotsBounded' /\ ListedChartsAlive'
  BY DEF EntryStart, CellsListedOnce, ListedStatus, SlotsBounded,
     ListedChartsAlive, Range, Running, Open
<1>3. WorkersListed'
  BY <1>b DEF EntryStart, WorkersListed, Working, Outcome, Builders, TypeOK
<1>4. NothingEarly'
  BY <1>b DEF EntryStart, NothingEarly, Builders, Outcome, TypeOK
<1>5. ManagerEvents'
  <2> SUFFICES ASSUME NEW i \in 1..Len(mgrQ')
               PROVE  /\ ticket[mgrQ'[i].ticket] = "started"
                      /\ IsDone(mgrQ'[i]) =>
                           /\ builder'[mgrQ'[i].ticket] = "exited"
                           /\ \A j \in (i+1)..Len(mgrQ') :
                                 mgrQ'[j].ticket # mgrQ'[i].ticket
    BY DEF ManagerEvents, IsDone, EntryStart
  <2>0. Len(mgrQ) \in Nat
    BY DEF TypeOK
  <2>1. CASE i =< Len(mgrQ)
    <3>1. mgrQ'[i] = mgrQ[i] /\ mgrQ[i].ticket \in Charts
      BY <1>b, <2>0, <2>1, EventTickets
    <3>2. ASSUME IsDone(mgrQ[i])
          PROVE  builder[mgrQ[i].ticket] = "exited" /\ mgrQ[i].ticket # c
      BY <2>0, <2>1, <3>2 DEF ManagerEvents, EntryStart, Outcome
    <3>3. ASSUME IsDone(mgrQ[i]), NEW j \in (i+1)..Len(mgrQ')
          PROVE  mgrQ'[j].ticket # mgrQ[i].ticket
      BY <1>b, <2>0, <2>1, <3>2, <3>3 DEF ManagerEvents
    <3>4. builder' = [builder EXCEPT ![c] = "waiting"] /\ builder \in [Builders -> Phase]
      BY DEF EntryStart, TypeOK
    <3> QED
      BY <2>0, <2>1, <3>1, <3>2, <3>3, <3>4 DEF ManagerEvents, Builders
  <2>2. CASE i = Len(mgrQ) + 1
    <3>1. mgrQ'[i].ticket = c /\ (IsDone(mgrQ'[i]) => builder'[c] = "exited")
      BY <1>b, <2>0, <2>2 DEF IsDone, EntryStart, TypeOK, Builders
    <3>2. ticket[c] = "started"
      BY DEF WorkersListed, NothingEarly, Working, EntryStart
    <3> QED
      BY <1>b, <2>0, <2>2, <3>1, <3>2
  <2> QED
    BY <1>b, <2>0, <2>1, <2>2
<1>6. FrameEvents'
  <2>1. \A i \in 1..Len(frameQ) : IsDone(frameQ[i]) => frameQ[i].ticket # c
    BY DEF EntryStart, FrameEvents
  <2>2. \A d \in Charts : d # c => builder'[d] = builder[d]
    BY DEF EntryStart, Builders, TypeOK
  <2>3. ASSUME NEW i \in 1..Len(frameQ), IsDone(frameQ[i]), NEW j \in 1..Len(mgrQ')
        PROVE  mgrQ'[j].ticket # frameQ[i].ticket
    BY <1>b, <2>1, <2>3 DEF FrameEvents, TypeOK
  <2> QED
    BY <2>1, <2>2, <2>3, EventTickets DEF EntryStart, FrameEvents, IsDone
<1>7. ReloadingLast'
  <2> SUFFICES ASSUME reloading # NONE
               PROVE  ReloadingLast'
    BY DEF EntryStart, ReloadingLast
  <2>1. reloading \in Charts /\ reloading # c
    BY DEF EntryStart, ReloadingLast, TypeOK
  <2>2. \A j \in 1..Len(mgrQ') : mgrQ'[j].ticket # reloading
    <3> SUFFICES ASSUME NEW j \in 1..(Len(mgrQ) + 1)
                 PROVE  mgrQ'[j].ticket # reloading
      BY <1>b
    <3>0. Len(mgrQ) \in Nat
      BY DEF TypeOK
    <3>1. CASE j =< Len(mgrQ)
      BY <1>b, <3>0, <3>1 DEF ReloadingLast
    <3>2. CASE j = Len(mgrQ) + 1
      BY <1>b, <2>1, <3>0, <3>2
    <3> QED
      BY <3>0, <3>1, <3>2
  <2>3. /\ ticket' = ticket /\ list' = list /\ frameQ' = frameQ
        /\ reloading' = reloading /\ builder'[reloading] = builder[reloading]
    BY <2>1 DEF EntryStart, Builders, TypeOK
  <2> QED
    BY <2>1, <2>2, <2>3 DEF ReloadingLast
<1>8. LockHeldByBuilder'
  BY <1>b DEF EntryStart, LockHeldByBuilder, Builders, Outcome, TypeOK
<1>9. MainBuilds'
  BY <1>b DEF EntryStart, MainBuilds, Builders, Outcome, MainIdle, TypeOK
<1> QED
  BY <1>1, <1>2, <1>3, <1>4, <1>5, <1>6, <1>7, <1>8, <1>9

LEMMA AcquireLockStep ==
    ASSUME IInv, NEW b \in Builders, AcquireLock(b)
    PROVE  IInv'
<1> USE SencAssumption DEF IInv, chartVars, mainVars, queueVars
<1>1. TypeOK'
  BY DEF AcquireLock, TypeOK, Builders, Phase
<1>2. /\ CellsListedOnce' /\ ListedStatus'
      /\ SlotsBounded' /\ ListedChartsAlive'
  BY DEF AcquireLock, CellsListedOnce, ListedStatus, SlotsBounded,
     ListedChartsAlive, Range, Running, Open
<1>3. WorkersListed'
  BY DEF AcquireLock, WorkersListed, Working, Outcome, Builders, TypeOK
<1>4. NothingEarly'
  BY DEF AcquireLock, NothingEarly, Builders, Outcome, TypeOK
<1>5. ManagerEvents'
  BY EventsKept DEF AcquireLock, TypeOK, Builders, Outcome
<1>6. FrameEvents'
  BY EventsKept DEF AcquireLock, TypeOK, Builders, Outcome
<1>7. ReloadingLast'
  BY DEF AcquireLock, ReloadingLast, Builders, Outcome, TypeOK
<1>8. LockHeldByBuilder'
  BY DEF AcquireLock, LockHeldByBuilder, Builders, Outcome, TypeOK
<1>9. MainBuilds'
  BY DEF AcquireLock, MainBuilds, Builders, Outcome, MainIdle, TypeOK
<1> QED
  BY <1>1, <1>2, <1>3, <1>4, <1>5, <1>6, <1>7, <1>8, <1>9

LEMMA TessellateStep ==
    ASSUME IInv, NEW b \in Builders, Tessellate(b)
    PROVE  IInv'
<1> USE SencAssumption DEF IInv, chartVars, mainVars, queueVars
<1>1. TypeOK'
  BY DEF Tessellate, TypeOK, Builders, Phase
<1>2. /\ CellsListedOnce' /\ ListedStatus'
      /\ SlotsBounded' /\ ListedChartsAlive'
  BY DEF Tessellate, CellsListedOnce, ListedStatus, SlotsBounded,
     ListedChartsAlive, Range, Running, Open
<1>3. WorkersListed'
  BY DEF Tessellate, WorkersListed, Working, Outcome, Builders, TypeOK
<1>4. NothingEarly'
  BY DEF Tessellate, NothingEarly, Builders, Outcome, TypeOK
<1>5. ManagerEvents'
  BY EventsKept DEF Tessellate, TypeOK, Builders
<1>6. FrameEvents'
  BY EventsKept DEF Tessellate, TypeOK, Builders
<1>7. ReloadingLast'
  BY DEF Tessellate, ReloadingLast, Builders, Outcome, TypeOK
<1>8. LockHeldByBuilder'
  BY DEF Tessellate, LockHeldByBuilder, Builders, Outcome, TypeOK
<1>9. MainBuilds'
  BY DEF Tessellate, MainBuilds, Builders, Outcome, MainIdle, TypeOK
<1> QED
  BY <1>1, <1>2, <1>3, <1>4, <1>5, <1>6, <1>7, <1>8, <1>9

LEMMA TessellationDoneStep ==
    ASSUME IInv, NEW b \in Builders, TessellationDone(b)
    PROVE  IInv'
<1> USE SencAssumption DEF IInv, chartVars, mainVars, queueVars
<1>1. TypeOK'
  BY DEF TessellationDone, TypeOK, Builders, Phase
<1>2. /\ CellsListedOnce' /\ ListedStatus'
      /\ SlotsBounded' /\ ListedChartsAlive'
  BY DEF TessellationDone, CellsListedOnce, ListedStatus, SlotsBounded,
     ListedChartsAlive, Range, Running, Open
<1>3. WorkersListed'
  BY DEF TessellationDone, WorkersListed, Working, Outcome, Builders, TypeOK
<1>4. NothingEarly'
  BY DEF TessellationDone, NothingEarly, Builders, Outcome, TypeOK
<1>5. ManagerEvents'
  BY EventsKept DEF TessellationDone, TypeOK, Builders
<1>6. FrameEvents'
  BY EventsKept DEF TessellationDone, TypeOK, Builders
<1>7. ReloadingLast'
  BY DEF TessellationDone, ReloadingLast, Builders, Outcome, TypeOK
<1>8. LockHeldByBuilder'
  BY DEF TessellationDone, LockHeldByBuilder, Builders, Outcome, TypeOK
<1>9. MainBuilds'
  BY DEF TessellationDone, MainBuilds, Builders, Outcome, MainIdle, TypeOK
<1> QED
  BY <1>1, <1>2, <1>3, <1>4, <1>5, <1>6, <1>7, <1>8, <1>9

LEMMA BuildReturnsStep ==
    ASSUME IInv, NEW c \in Charts, NEW r \in Outcome, BuildReturns(c, r)
    PROVE  IInv'
<1> USE SencAssumption DEF IInv, chartVars, mainVars, queueVars
<1>1. TypeOK'
  BY DEF BuildReturns, TypeOK, Builders, Phase, SencAfter, Outcome
<1>2. /\ CellsListedOnce' /\ ListedStatus'
      /\ SlotsBounded' /\ ListedChartsAlive'
  BY DEF BuildReturns, CellsListedOnce, ListedStatus, SlotsBounded,
     ListedChartsAlive, Range, Running, Open
<1>3. WorkersListed'
  BY DEF BuildReturns, WorkersListed, Working, Outcome, Builders, TypeOK
<1>4. NothingEarly'
  BY DEF BuildReturns, NothingEarly, Builders, Outcome, TypeOK
<1>5. ManagerEvents'
  BY EventsKept DEF BuildReturns, TypeOK, Builders, Outcome
<1>6. FrameEvents'
  BY EventsKept DEF BuildReturns, TypeOK, Builders, Outcome
<1>7. ReloadingLast'
  BY DEF BuildReturns, ReloadingLast, Builders, Outcome, TypeOK
<1>8. LockHeldByBuilder'
  BY DEF BuildReturns, LockHeldByBuilder, Builders, Outcome, TypeOK
<1>9. MainBuilds'
  BY DEF BuildReturns, MainBuilds, Builders, Outcome, MainIdle, TypeOK
<1> QED
  BY <1>1, <1>2, <1>3, <1>4, <1>5, <1>6, <1>7, <1>8, <1>9

LEMMA EntryDoneStep ==
    ASSUME IInv, NEW c \in Charts, EntryDone(c)
    PROVE  IInv'
<1> USE SencAssumption DEF IInv, chartVars, mainVars, queueVars
<1>a. [type |-> DoneType(builder[c]), ticket |-> c] \in Event
  BY DEF Event, EventType, DoneType
<1>b. /\ mgrQ' \in Seq(Event) /\ Len(mgrQ') = Len(mgrQ) + 1
      /\ \A i \in 1..(Len(mgrQ) + 1) :
            mgrQ'[i] = IF i =< Len(mgrQ) THEN mgrQ[i]
                       ELSE [type |-> DoneType(builder[c]), ticket |-> c]
  BY <1>a, AppendElements DEF EntryDone, TypeOK
<1>1. TypeOK'
  BY <1>b DEF EntryDone, TypeOK, Builders, Phase
<1>2. /\ CellsListedOnce' /\ ListedStatus'
      /\ SlotsBounded' /\ ListedChartsAlive'
  BY DEF EntryDone, CellsListedOnce, ListedStatus, SlotsBounded,
     ListedChartsAlive, Range, Running, Open
<1>3. WorkersListed'
  BY <1>b DEF EntryDone, WorkersListed, Working, Outcome, Builders, TypeOK
<1>4. NothingEarly'
  BY <1>b DEF EntryDone, NothingEarly, Builders, Outcome, TypeOK
<1>5. ManagerEvents'
  <2> SUFFICES ASSUME NEW i \in 1..Len(mgrQ')
               PROVE  /\ ticket[mgrQ'[i].ticket] = "started"
                      /\ IsDone(mgrQ'[i]) =>
                           /\ builder'[mgrQ'[i].ticket] = "exited"
                           /\ \A j \in (i+1)..Len(mgrQ') :
                                 mgrQ'[j].ticket # mgrQ'[i].ticket
    BY DEF ManagerEvents, IsDone, EntryDone
  <2>0. Len(mgrQ) \in Nat
    BY DEF TypeOK
  <2>1. CASE i =< Len(mgrQ)
    <3>1. mgrQ'[i] = mgrQ[i] /\ mgrQ[i].ticket \in Charts
      BY <1>b, <2>0, <2>1, EventTickets
    <3>2. ASSUME IsDone(mgrQ[i])
          PROVE  builder[mgrQ[i].ticket] = "exited" /\ mgrQ[i].ticket # c
      BY <2>0, <2>1, <3>2 DEF ManagerEvents, EntryDone, Outcome
    <3>3. ASSUME IsDone(mgrQ[i]), NEW j \in (i+1)..Len(mgrQ')
          PROVE  mgrQ'[j].ticket # mgrQ[i].ticket
      BY <1>b, <2>0, <2>1, <3>2, <3>3 DEF ManagerEvents
    <3>4. builder' = [builder EXCEPT ![c] = "exited"] /\ builder \in [Builders -> Phase]
      BY DEF EntryDone, TypeOK
    <3> QED
      BY <2>0, <2>1, <3>1, <3>2, <3>3, <3>4 DEF ManagerEvents, Builders
  <2>2. CASE i = Len(mgrQ) + 1
    <3>1. mgrQ'[i].ticket = c /\ (IsDone(mgrQ'[i]) => builder'[c] = "exited")
      BY <1>b, <2>0, <2>2 DEF IsDone, EntryDone, TypeOK, Builders
    <3>2. ticket[c] = "started"
      BY DEF WorkersListed, NothingEarly, Working, EntryDone
    <3> QED
      BY <1>b, <2>0, <2>2, <3>1, <3>2
  <2> QED
    BY <1>b, <2>0, <2>1, <2>2
<1>6. FrameEvents'
  <2> SUFFICES ASSUME NEW i \in 1..Len(frameQ), IsDone(frameQ[i])
               PROVE  /\ builder'[frameQ[i].ticket] = "exited"
                      /\ \A j \in 1..Len(mgrQ') : mgrQ'[j].ticket # frameQ[i].ticket
    BY DEF FrameEvents, IsDone, EntryDone
  <2>1. frameQ[i].ticket \in Charts /\ builder[frameQ[i].ticket] = "exited"
    BY EventTickets DEF FrameEvents
  <2>2. frameQ[i].ticket # c
    BY <2>1 DEF EntryDone, Outcome
  <2>3. builder'[frameQ[i].ticket] = "exited"
    BY <2>1, <2>2 DEF EntryDone, TypeOK, Builders
  <2>4. ASSUME NEW j \in 1..Len(mgrQ')
        PROVE  mgrQ'[j].ticket # frameQ[i].ticket
    <3>1. CASE j =< Len(mgrQ)
      BY <1>b, <3>1 DEF FrameEvents
    <3>2. CASE j = Len(mgrQ) + 1
      BY <1>b, <2>2, <3>2
    <3> QED
      BY <1>b, <3>1, <3>2 DEF TypeOK
  <2> QED
    BY <2>3, <2>4
<1>7. ReloadingLast'
  BY <1>b DEF EntryDone, ReloadingLast, Builders, Outcome, TypeOK
<1>8. LockHeldByBuilder'
  BY <1>b DEF EntryDone, LockHeldByBuilder, Builders, Outcome, TypeOK
<1>9. MainBuilds'
  BY <1>b DEF EntryDone, MainBuilds, Builders, Outcome, MainIdle, TypeOK
<1> QED
  BY <1>1, <1>2, <1>3, <1>4, <1>5, <1>6, <1>7, <1>8, <1>9

LEMMA EntryThrowsStep ==
    ASSUME IInv, NEW c \in Charts, EntryThrows(c)
    PROVE  IInv'
<1> USE SencAssumption DEF IInv, chartVars, mainVars, queueVars
<1>1. TypeOK'
  BY DEF EntryThrows, TypeOK, Builders, Phase
<1>2. /\ CellsListedOnce' /\ ListedStatus'
      /\ SlotsBounded' /\ ListedChartsAlive'
  BY DEF EntryThrows, CellsListedOnce, ListedStatus, SlotsBounded,
     ListedChartsAlive, Range, Running, Open
<1>3. WorkersListed'
  BY DEF EntryThrows, WorkersListed, Working, Outcome, Builders, TypeOK
<1>4. NothingEarly'
  BY DEF EntryThrows, NothingEarly, Builders, Outcome, TypeOK
<1>5. ManagerEvents'
  BY DEF EntryThrows, ManagerEvents, IsDone, Builders, Outcome, TypeOK
<1>6. FrameEvents'
  BY DEF EntryThrows, FrameEvents, IsDone, Builders, Outcome, TypeOK
<1>7. ReloadingLast'
  BY DEF EntryThrows, ReloadingLast, Builders, Outcome, TypeOK
<1>8. LockHeldByBuilder'
  BY DEF EntryThrows, LockHeldByBuilder, Builders, Outcome, TypeOK
<1>9. MainBuilds'
  BY DEF EntryThrows, MainBuilds, Builders, Outcome, MainIdle, TypeOK
<1> QED
  BY <1>1, <1>2, <1>3, <1>4, <1>5, <1>6, <1>7, <1>8, <1>9

LEMMA CloseChartStep ==
    ASSUME IInv, NEW c \in Charts, CloseChart(c)
    PROVE  IInv'
<1> USE SencAssumption DEF IInv, chartVars, mainVars, queueVars
<1>1. TypeOK'
  BY DEF CloseChart, TypeOK, ChartLife
<1>2. /\ CellsListedOnce' /\ ListedStatus' /\ WorkersListed' /\ ManagerEvents'
      /\ FrameEvents' /\ ReloadingLast' /\ SlotsBounded' /\ LockHeldByBuilder' /\ MainBuilds'
  BY DEF CloseChart, CellsListedOnce, ListedStatus, WorkersListed,
     ManagerEvents, FrameEvents, ReloadingLast, SlotsBounded,
     LockHeldByBuilder, MainBuilds, Range, Running, IsDone, Working, Builders
<1>3. NothingEarly'
  BY DEF CloseChart, NothingEarly, Builders, Outcome, TypeOK
<1>4. ListedChartsAlive'
  BY DEF CloseChart, ListedChartsAlive, Open, IsChartInTicketlist, PostInit,
     TypeOK
<1> QED
  BY <1>1, <1>2, <1>3, <1>4

LEMMA OnSENCEvtIgnoredStep ==
    ASSUME IInv, OnSENCEvtIgnored
    PROVE  IInv'
<1> USE SencAssumption DEF IInv, chartVars, mainVars, queueVars
<1>a. /\ Len(frameQ) \in Nat \ {0} /\ Head(frameQ) = frameQ[1] /\ frameQ[1] \in Event
      /\ frameQ' \in Seq(Event) /\ Len(frameQ') = Len(frameQ) - 1
      /\ \A i \in 1..(Len(frameQ) - 1) : frameQ'[i] = frameQ[i+1]
  BY TailElements DEF OnSENCEvtIgnored, TypeOK
<1>1. TypeOK'
  BY <1>a DEF OnSENCEvtIgnored, TypeOK
<1>2. /\ CellsListedOnce' /\ ListedStatus' /\ WorkersListed' /\ NothingEarly'
      /\ ManagerEvents' /\ SlotsBounded' /\ ListedChartsAlive' /\ LockHeldByBuilder' /\ MainBuilds'
  BY DEF OnSENCEvtIgnored, CellsListedOnce, ListedStatus, WorkersListed,
     NothingEarly, ManagerEvents, SlotsBounded, ListedChartsAlive,
     LockHeldByBuilder, MainBuilds, Range, Running, Open, IsDone, Working,
     Builders
<1>3. FrameEvents'
  BY <1>a DEF OnSENCEvtIgnored, FrameEvents, IsDone, Builders, Outcome, TypeOK
<1>4. ReloadingLast'
  BY <1>a DEF OnSENCEvtIgnored, ReloadingLast, Builders, Outcome, TypeOK
<1> QED
  BY <1>1, <1>2, <1>3, <1>4

LEMMA OnSENCEvtDoneStep ==
    ASSUME IInv, OnSENCEvtDone
    PROVE  IInv'
<1> USE SencAssumption DEF IInv, chartVars, mainVars, queueVars
<1>a. /\ Len(frameQ) \in Nat \ {0} /\ Head(frameQ) = frameQ[1] /\ frameQ[1] \in Event
      /\ frameQ' \in Seq(Event) /\ Len(frameQ') = Len(frameQ) - 1
      /\ \A i \in 1..(Len(frameQ) - 1) : frameQ'[i] = frameQ[i+1]
  BY TailElements DEF OnSENCEvtDone, TypeOK
<1>1. TypeOK'
  BY <1>a DEF OnSENCEvtDone, TypeOK, ChartLife, PostInit, Event
<1>2. /\ CellsListedOnce' /\ ListedStatus' /\ WorkersListed'
      /\ ManagerEvents' /\ SlotsBounded' /\ LockHeldByBuilder'
  BY DEF OnSENCEvtDone, CellsListedOnce, ListedStatus, WorkersListed,
     ManagerEvents, SlotsBounded, LockHeldByBuilder, Range, Running, IsDone,
     Working, Builders
<1>3. NothingEarly'
  <2>1. \A c \in Charts : chart'[c] = "unborn" => chart[c] = "unborn"
    BY DEF OnSENCEvtDone, TypeOK, PostInit
  <2> QED
    BY <2>1 DEF NothingEarly, OnSENCEvtDone
<1>4. FrameEvents'
  BY <1>a DEF OnSENCEvtDone, FrameEvents, IsDone, Builders, Outcome, TypeOK
<1>5. ReloadingLast'
  <2> DEFINE t == frameQ[1].ticket
  <2>1. reloading' = t /\ IsDone(frameQ[1])
    BY <1>a DEF OnSENCEvtDone, IsDone
  <2>2. /\ ticket[t] = "started" /\ builder[t] = "exited" /\ t \notin Range(list)
        /\ \A j \in 2..Len(frameQ) : frameQ[j].ticket # t
        /\ \A j \in 1..Len(mgrQ) : mgrQ[j].ticket # t
    BY <1>a, <2>1 DEF FrameEvents
  <2>3. \A j \in 1..Len(frameQ') : frameQ'[j].ticket # t
    BY <1>a, <2>2
  <2> QED
    BY <2>1, <2>2, <2>3 DEF ReloadingLast, OnSENCEvtDone
<1>6. ListedChartsAlive'
  BY <1>a DEF OnSENCEvtDone, ListedChartsAlive, Open, IsChartInTicketlist,
     PostInit, TypeOK
<1>7. MainBuilds'
  BY <1>a DEF OnSENCEvtDone, MainBuilds, Builders, Outcome, MainIdle, TypeOK
<1> QED
  BY <1>1, <1>2, <1>3, <1>4, <1>5, <1>6, <1>7

LEMMA ReloadReturnsStep ==
    ASSUME IInv, ReloadReturns
    PROVE  IInv'
<1> USE SencAssumption DEF IInv, chartVars, mainVars, queueVars
<1>a. /\ reloading \in Charts /\ reloading \notin Range(list)
      /\ builder[reloading] = "exited"
      /\ \A j \in 1..Len(mgrQ) : mgrQ[j].ticket # reloading
      /\ \A j \in 1..Len(frameQ) : frameQ[j].ticket # reloading
  BY DEF ReloadReturns, ReloadingLast, TypeOK
<1>b. /\ ticket'[reloading] = "deleted"
      /\ \A c \in Charts : c # reloading => ticket'[c] = ticket[c]
  BY <1>a DEF ReloadReturns, TypeOK
<1>1. TypeOK'
  BY <1>a DEF ReloadReturns, TypeOK, TicketLife
<1>2. CellsListedOnce' /\ LockHeldByBuilder'
  BY DEF ReloadReturns, CellsListedOnce, LockHeldByBuilder, Builders
<1>3. ListedStatus'
  BY <1>a, <1>b, EventTickets DEF ReloadReturns, ListedStatus
<1>4. WorkersListed'
  BY <1>a, <1>b DEF ReloadReturns, WorkersListed, Working, Outcome
<1>5. NothingEarly'
  <2>1. chart[reloading] # "unborn"
    BY <1>a DEF NothingEarly, ReloadingLast, ReloadReturns
  <2> QED
    BY <1>a, <1>b, <2>1 DEF ReloadReturns, NothingEarly
<1>6. ManagerEvents'
  BY <1>a, <1>b, EventTickets DEF ReloadReturns, ManagerEvents, IsDone
<1>7. FrameEvents'
  BY <1>a, <1>b, EventTickets DEF ReloadReturns, FrameEvents, IsDone
<1>8. ReloadingLast'
  BY <1>a DEF ReloadReturns, ReloadingLast, Builders, Outcome, TypeOK
<1>9. SlotsBounded'
  <2>1. Running(list, ticket)' = Running(list, ticket)
    BY <1>a, <1>b, EventTickets DEF ReloadReturns, Running
  <2> QED
    BY <2>1 DEF SlotsBounded
<1>10. ListedChartsAlive'
  BY <1>a DEF ReloadReturns, ListedChartsAlive, Open, IsChartInTicketlist,
     PostInit, TypeOK
<1>11. MainBuilds'
  BY <1>a DEF ReloadReturns, MainBuilds, Builders, Outcome, MainIdle, TypeOK
<1> QED
  BY <1>1, <1>2, <1>3, <1>4, <1>5, <1>6, <1>7, <1>8, <1>9, <1>10, <1>11

LEMMA ParseNextStep ==
    ASSUME IInv, NEW p \in Paths, ParseNext(p)
    PROVE  IInv'
<1> USE SencAssumption DEF IInv, chartVars, mainVars, queueVars
<1>1. TypeOK'
  BY DEF ParseNext, TypeOK, Builders, Phase
<1>2. /\ CellsListedOnce' /\ ListedStatus'
      /\ SlotsBounded' /\ ListedChartsAlive'
  BY DEF ParseNext, CellsListedOnce, ListedStatus, SlotsBounded,
     ListedChartsAlive, Range, Running, Open
<1>3. WorkersListed'
  BY DEF ParseNext, WorkersListed, Working, Outcome, Builders, TypeOK
<1>4. NothingEarly'
  BY DEF ParseNext, NothingEarly, Builders, Outcome, TypeOK
<1>5. ManagerEvents'
  BY EventsKept DEF ParseNext, TypeOK, Builders
<1>6. FrameEvents'
  BY EventsKept DEF ParseNext, TypeOK, Builders
<1>7. ReloadingLast'
  BY DEF ParseNext, ReloadingLast, Builders, Outcome, TypeOK
<1>8. LockHeldByBuilder'
  <2>1. builder[MAIN] = "none"
    BY DEF ParseNext, MainIdle, MainBuilds
  <2> QED
    BY <2>1 DEF ParseNext, TypeOK, LockHeldByBuilder, Builders
<1>9. MainBuilds'
  BY DEF ParseNext, MainBuilds, Builders, Outcome, MainIdle, TypeOK
<1> QED
  BY <1>1, <1>2, <1>3, <1>4, <1>5, <1>6, <1>7, <1>8, <1>9

LEMMA ParseReturnsStep ==
    ASSUME IInv, NEW r \in Outcome, ParseReturns(r)
    PROVE  IInv'
<1> USE SencAssumption DEF IInv, chartVars, mainVars, queueVars
<1>1. TypeOK'
  BY DEF ParseReturns, TypeOK, Builders, Phase, SencAfter
<1>2. /\ CellsListedOnce' /\ ListedStatus'
      /\ SlotsBounded' /\ ListedChartsAlive'
  BY DEF ParseReturns, CellsListedOnce, ListedStatus, SlotsBounded,
     ListedChartsAlive, Range, Running, Open
<1>3. WorkersListed'
  BY DEF ParseReturns, WorkersListed, Working, Outcome, Builders, TypeOK
<1>4. NothingEarly'
  BY DEF ParseReturns, NothingEarly, Builders, Outcome, TypeOK
<1>5. ManagerEvents'
  BY DEF ParseReturns, ManagerEvents, IsDone, Builders, Outcome, TypeOK
<1>6. FrameEvents'
  BY DEF ParseReturns, FrameEvents, IsDone, Builders, Outcome, TypeOK
<1>7. ReloadingLast'
  BY DEF ParseReturns, ReloadingLast, Builders, Outcome, TypeOK
<1>8. LockHeldByBuilder'
  BY DEF ParseReturns, LockHeldByBuilder, Builders, Outcome, TypeOK
<1>9. MainBuilds'
  BY DEF ParseReturns, MainBuilds, Builders, Outcome, MainIdle, TypeOK
<1> QED
  BY <1>1, <1>2, <1>3, <1>4, <1>5, <1>6, <1>7, <1>8, <1>9

(* FinishJob takes exactly the ticket out of the list.                     *)
LEMMA FinishJobRemoves ==
    ASSUME TypeOK, CellsListedOnce, NEW t \in Charts, FinishJob(t)
    PROVE  /\ list' \in Seq(Charts) /\ CellsListedOnce'
           /\ \A c \in Charts : c \in Range(list') <=> c \in Range(list) /\ c # t
<1>1. CASE t \in Range(list)
  <2>1. PICK k \in 1..Len(list) : list[k] = t /\ list' = RemoveAt(list, k)
    BY <1>1 DEF FinishJob
  <2>2. /\ list' \in Seq(Charts) /\ Len(list') = Len(list) - 1
        /\ \A i \in 1..(Len(list) - 1) :
              list'[i] = IF i < k THEN list[i] ELSE list[i+1]
    BY <2>1, RemoveAtElements DEF TypeOK
  <2> DEFINE at(i) == IF i < k THEN i ELSE i+1
  <2>6. Len(list) \in Nat
    BY DEF TypeOK
  <2>7. \A i \in 1..(Len(list) - 1) :
            at(i) \in 1..Len(list) /\ at(i) # k /\ list'[i] = list[at(i)]
    BY <2>2, <2>6
  <2>8. \A i, j \in 1..(Len(list) - 1) : at(i) = at(j) => i = j
    BY <2>6
  <2> HIDE DEF at
  <2>3. CellsListedOnce'
    BY <2>2, <2>7, <2>8 DEF CellsListedOnce
  <2>4. ASSUME NEW c \in Charts, c \in Range(list')
        PROVE  c \in Range(list) /\ c # t
    <3>1. PICK i \in 1..(Len(list) - 1) : list'[i] = c
      BY <2>2, <2>4 DEF Range
    <3>2. PICK j \in 1..Len(list) : list[j] = c /\ j # k
      BY <2>7, <3>1
    <3> QED
      BY <2>1, <3>2 DEF Range, CellsListedOnce, TypeOK
  <2>5. ASSUME NEW c \in Charts, c \in Range(list), c # t
        PROVE  c \in Range(list')
    <3>1. PICK j \in 1..Len(list) : list[j] = c
      BY <2>5 DEF Range, TypeOK
    <3>2. CASE j < k
      <4>1. j \in 1..(Len(list) - 1) /\ list'[j] = c
        BY <2>2, <3>1, <3>2 DEF TypeOK
      <4> QED
        BY <2>2, <4>1 DEF Range
    <3>3. CASE ~(j < k)
      <4>1. j - 1 \in 1..(Len(list) - 1) /\ list'[j-1] = c
        BY <2>1, <2>2, <2>5, <3>1, <3>3 DEF TypeOK
      <4> QED
        BY <2>2, <4>1 DEF Range
    <3> QED
      BY <3>2, <3>3
  <2> QED
    BY <2>2, <2>3, <2>4, <2>5
<1>2. CASE t \notin Range(list)
  BY <1>2 DEF FinishJob, TypeOK, CellsListedOnce
<1> QED
  BY <1>1, <1>2

LEMMA OnEvtThreadDoneStep ==
    ASSUME IInv, OnEvtThreadDone
    PROVE  IInv'
<1> USE SencAssumption DEF IInv, chartVars, mainVars
<1> DEFINE t == mgrQ[1].ticket
<1>a. /\ Len(mgrQ) \in Nat \ {0} /\ Head(mgrQ) = mgrQ[1] /\ mgrQ[1] \in Event
      /\ mgrQ' \in Seq(Event) /\ Len(mgrQ') = Len(mgrQ) - 1
      /\ \A i \in 1..(Len(mgrQ) - 1) : mgrQ'[i] = mgrQ[i+1]
  BY TailElements DEF OnEvtThreadDone, TypeOK
<1>b. /\ frameQ' \in Seq(Event) /\ Len(frameQ') = Len(frameQ) + 1
      /\ \A i \in 1..(Len(frameQ) + 1) :
            frameQ'[i] = IF i =< Len(frameQ) THEN frameQ[i] ELSE mgrQ[1]
  BY <1>a, AppendElements DEF OnEvtThreadDone, TypeOK
<1>c. /\ t \in Charts /\ IsDone(mgrQ[1])
      /\ ticket[t] = "started" /\ builder[t] = "exited"
      /\ \A j \in 2..Len(mgrQ) : mgrQ[j].ticket # t
  BY <1>a, EventTickets DEF ManagerEvents, IsDone, OnEvtThreadDone
<1>d. FinishJob(t) /\ StartTopJob(list', ticket)
  BY <1>a DEF OnEvtThreadDone
<1>e. /\ list' \in Seq(Charts) /\ CellsListedOnce'
      /\ \A c \in Charts : c \in Range(list') <=> c \in Range(list) /\ c # t
  BY <1>c, <1>d, FinishJobRemoves
<1>f. Cardinality(Running(list', ticket)) =< MaxJobs
  <2>1. Running(list', ticket) \subseteq Running(list, ticket)
    BY <1>e DEF Running, Range
  <2>2. IsFiniteSet(Running(list, ticket))
    BY EventTickets, FS_Subset DEF Running
  <2>3. /\ Cardinality(Running(list', ticket)) =< Cardinality(Running(list, ticket))
        /\ Cardinality(Running(list', ticket)) \in Nat
        /\ Cardinality(Running(list, ticket)) \in Nat
    BY <2>1, <2>2, FS_Subset, FS_CardinalityType
  <2> QED
    BY <2>3 DEF SlotsBounded
<1>g. /\ ticket' \in [Charts -> TicketLife]
      /\ builder' \in [Builders -> Phase]
      /\ \A c \in Charts : \/ ticket'[c] = ticket[c] /\ builder'[c] = builder[c]
                           \/ /\ ticket[c] = "pending" /\ c \in Range(list')
                              /\ ticket'[c] = "started"
                              /\ builder'[c] = "created"
      /\ builder'[MAIN] = builder[MAIN]
      /\ SlotsBounded'
  BY <1>d, <1>e, <1>f, StartTopJobBounded DEF TypeOK, SlotsBounded
<1> HIDE DEF t
<1>1. TypeOK'
  BY <1>a, <1>b, <1>e, <1>g DEF OnEvtThreadDone, TypeOK
<1>2. ListedStatus' /\ ListedChartsAlive'
  <2>1. \A c \in Range(list') : c \in Charts /\ c \in Range(list)
    BY <1>e DEF Range
  <2>2. ListedChartsAlive'
    BY <2>1 DEF ListedChartsAlive, Open, OnEvtThreadDone
  <2>3. ListedStatus'
    BY <1>g, <2>1 DEF ListedStatus
  <2> QED
    BY <2>2, <2>3
<1>3. WorkersListed'
  BY <1>c, <1>e, <1>g DEF WorkersListed, Working, Outcome
<1>4. NothingEarly'
  BY <1>e, <1>g DEF NothingEarly, OnEvtThreadDone
<1>5. ManagerEvents'
  <2> SUFFICES ASSUME NEW i \in 1..Len(mgrQ')
               PROVE  /\ ticket'[mgrQ'[i].ticket] = "started"
                      /\ IsDone(mgrQ'[i]) =>
                           /\ builder'[mgrQ'[i].ticket] = "exited"
                           /\ \A j \in (i+1)..Len(mgrQ') :
                                 mgrQ'[j].ticket # mgrQ'[i].ticket
    BY DEF ManagerEvents, IsDone
  <2>1. /\ i + 1 \in 1..Len(mgrQ) /\ mgrQ'[i] = mgrQ[i+1]
        /\ mgrQ[i+1].ticket \in Charts
    BY <1>a, EventTickets
  <2>2. /\ ticket[mgrQ[i+1].ticket] = "started"
        /\ IsDone(mgrQ[i+1]) => builder[mgrQ[i+1].ticket] = "exited"
    BY <2>1 DEF ManagerEvents
  <2>3. ASSUME IsDone(mgrQ[i+1]), NEW j \in (i+1)..Len(mgrQ')
        PROVE  mgrQ'[j].ticket # mgrQ[i+1].ticket
    <3>1. j + 1 \in (i+2)..Len(mgrQ) /\ mgrQ'[j] = mgrQ[j+1]
      BY <1>a
    <3> QED
      BY <2>1, <2>3, <3>1 DEF ManagerEvents
  <2> QED
    BY <1>g, <2>1, <2>2, <2>3
<1>6. FrameEvents'
  <2> SUFFICES ASSUME NEW i \in 1..Len(frameQ')
               PROVE  /\ ticket'[frameQ'[i].ticket] = "started"
                      /\ IsDone(frameQ'[i]) =>
                           /\ builder'[frameQ'[i].ticket] = "exited"
                           /\ frameQ'[i].ticket \notin Range(list')
                           /\ \A j \in (i+1)..Len(frameQ') :
                                 frameQ'[j].ticket # frameQ'[i].ticket
                           /\ \A j \in 1..Len(mgrQ') :
                                 mgrQ'[j].ticket # frameQ'[i].ticket
    BY DEF FrameEvents, IsDone
  <2>0. Len(frameQ) \in Nat
    BY DEF TypeOK
  <2>1. CASE i =< Len(frameQ)
    <3>1. frameQ'[i] = frameQ[i] /\ frameQ[i].ticket \in Charts
      BY <1>b, <2>0, <2>1, EventTickets
    <3>2. ticket'[frameQ[i].ticket] = "started"
      BY <1>g, <2>0, <2>1, <3>1 DEF FrameEvents
    <3>3. ASSUME IsDone(frameQ[i])
          PROVE  /\ builder'[frameQ[i].ticket] = "exited"
                 /\ frameQ[i].ticket \notin Range(list')
      BY <1>e, <1>g, <2>0, <2>1, <3>1, <3>3 DEF FrameEvents
    <3>4. ASSUME IsDone(frameQ[i]), NEW j \in (i+1)..Len(frameQ')
          PROVE  frameQ'[j].ticket # frameQ[i].ticket
      BY <1>a, <1>b, <2>0, <2>1, <3>4 DEF FrameEvents
    <3>5. ASSUME IsDone(frameQ[i]), NEW j \in 1..Len(mgrQ')
          PROVE  mgrQ'[j].ticket # frameQ[i].ticket
      BY <1>a, <2>0, <2>1, <3>5 DEF FrameEvents
    <3> QED
      BY <3>1, <3>2, <3>3, <3>4, <3>5
  <2>2. CASE i = Len(frameQ) + 1
    <3>1. frameQ'[i] = mgrQ[1]
      BY <1>b, <2>0, <2>2
    <3>2. \A j \in 1..Len(mgrQ') : mgrQ'[j].ticket # t
      BY <1>a, <1>c
    <3> QED
      BY <1>b, <1>c, <1>e, <1>g, <2>0, <2>2, <3>1, <3>2 DEF t
  <2> QED
    BY <1>b, <2>0, <2>1, <2>2
<1>7. ReloadingLast'
  BY DEF ReloadingLast, OnEvtThreadDone, MainIdle
<1>8. LockHeldByBuilder'
  BY <1>g DEF LockHeldByBuilder, OnEvtThreadDone, NothingEarly, Builders
<1>9. MainBuilds'
  BY <1>g DEF MainBuilds, OnEvtThreadDone
<1> QED
  BY <1>1, <1>2, <1>3, <1>4, <1>5, <1>6, <1>7, <1>8, <1>9, <1>e, <1>g

LEMMA OpenChartStep ==
    ASSUME IInv, NEW c \in Charts, OpenChart(c)
    PROVE  IInv'
<1> USE SencAssumption DEF IInv, chartVars, mainVars, queueVars
<1>a. /\ ticket[c] = "none" /\ builder[c] = "none" /\ c \notin Range(list)
      /\ chart[c] = "unborn" /\ Len(list) \in Nat
  BY DEF OpenChart, NothingEarly, TypeOK
<1>b. /\ chart' \in [Charts -> ChartLife] /\ chart'[c] \in {"placeholder", "drawn"}
      /\ \A d \in Charts : d # c => chart'[d] = chart[d]
      /\ linked' \subseteq Charts /\ linked \subseteq linked'
  BY DEF OpenChart, FindOrCreateSenc, BuildSENCFile, TypeOK, ChartLife, PostInit
\* Whatever OpenChart does, only ticket c and the thread it starts change.
<1>c. /\ list' \in Seq(Charts) /\ CellsListedOnce'
      /\ \A d \in Charts : d # c => (d \in Range(list') <=> d \in Range(list))
      /\ ticket' \in [Charts -> TicketLife] /\ builder' \in [Builders -> Phase]
      /\ \A d \in Charts :
            \/ ticket'[d] = ticket[d] /\ builder'[d] = builder[d] /\ d # c
            \/ /\ ticket[d] = "pending" /\ d \in Range(list') /\ d # c
               /\ ticket'[d] = "started" /\ builder'[d] = "created"
            \/ /\ d = c /\ builder'[c] = "none"
               /\ \/ ticket'[c] \in {"none", "refused"} /\ c \notin Range(list')
                  \/ ticket'[c] = "pending" /\ c \in Range(list')
            \/ /\ d = c /\ builder'[c] = "created"
               /\ ticket'[c] = "started" /\ c \in Range(list')
      /\ builder'[MAIN] = builder[MAIN]
      /\ \A d \in Charts : d # c => (d \in linked' <=> d \in linked)
      /\ SlotsBounded'
  <2>1. CASE senc[PathOf[c]] = "current"
    BY <1>a, <2>1 DEF OpenChart, FindOrCreateSenc, TypeOK, CellsListedOnce,
                      SlotsBounded, Running
  <2>2. CASE senc[PathOf[c]] # "current" /\ AlreadyListed(c)
    <3>1. /\ ticket' = [ticket EXCEPT ![c] = "refused"] /\ UNCHANGED <<list, builder>>
          /\ linked' = linked \union {c}
      BY <2>2 DEF OpenChart, FindOrCreateSenc, BuildSENCFile, ScheduleJob
    <3>2. Running(list, ticket)' = Running(list, ticket)
      BY <1>a, <3>1, EventTickets DEF Running, TypeOK
    <3>3. SlotsBounded'
      BY <3>2 DEF SlotsBounded
    <3> QED
      BY <1>a, <3>1, <3>3 DEF TypeOK, CellsListedOnce, TicketLife
  <2>3. CASE senc[PathOf[c]] # "current" /\ ~AlreadyListed(c)
    <3> DEFINE tk == [ticket EXCEPT ![c] = "pending"]
    <3>1. list' = Append(list, c) /\ StartTopJob(list', tk) /\ linked' = linked \union {c}
      BY <2>3 DEF OpenChart, FindOrCreateSenc, BuildSENCFile, ScheduleJob
    <3>2. /\ list' \in Seq(Charts) /\ Len(list') = Len(list) + 1
          /\ \A i \in 1..(Len(list) + 1) :
                list'[i] = IF i =< Len(list) THEN list[i] ELSE c
      BY <3>1, AppendElements DEF TypeOK
    <3>3. CellsListedOnce'
      BY <1>a, <2>3, <3>2 DEF CellsListedOnce, AlreadyListed
    <3>4. \A d \in Charts : d \in Range(list') <=> d \in Range(list) \/ d = c
      <4>1. ASSUME NEW d \in Charts, d \in Range(list')
            PROVE  d \in Range(list) \/ d = c
        BY <1>a, <3>2, <4>1 DEF Range, TypeOK
      <4>2. ASSUME NEW d \in Charts, d \in Range(list) \/ d = c
            PROVE  d \in Range(list')
        <5>1. CASE d = c
          BY <1>a, <3>2, <5>1 DEF Range
        <5>2. CASE d \in Range(list)
          <6>1. PICK i \in 1..Len(list) : list[i] = d
            BY <5>2 DEF Range, TypeOK
          <6>2. i \in 1..Len(list') /\ list'[i] = d
            BY <1>a, <3>2, <6>1
          <6> QED
            BY <3>2, <6>2 DEF Range
        <5> QED
          BY <4>2, <5>1, <5>2
      <4> QED
        BY <4>1, <4>2
    <3>5. tk \in [Charts -> TicketLife]
      BY DEF TypeOK, TicketLife
    <3>6. Running(list', tk) = Running(list, ticket)
      <4>1. Range(list') \subseteq Charts /\ Range(list) \subseteq Charts
        BY <3>2, EventTickets DEF Range
      <4> QED
        BY <1>a, <3>4, <4>1 DEF Running, TypeOK
    <3>7. tk[c] = "pending" /\ \A d \in Charts : d # c => tk[d] = ticket[d]
      BY DEF TypeOK
    <3> HIDE DEF tk
    <3>8. /\ ticket' \in [Charts -> TicketLife] /\ builder' \in [Builders -> Phase]
          /\ \A d \in Charts : \/ ticket'[d] = tk[d] /\ builder'[d] = builder[d]
                               \/ /\ tk[d] = "pending" /\ d \in Range(list')
                                  /\ ticket'[d] = "started"
                                  /\ builder'[d] = "created"
          /\ builder'[MAIN] = builder[MAIN]
          /\ SlotsBounded'
      <4>1. builder \in [Builders -> Phase] /\ Cardinality(Running(list', tk)) =< MaxJobs
        BY <3>6 DEF TypeOK, SlotsBounded
      <4> QED
        BY <3>1, <3>2, <3>5, <4>1, StartTopJobBounded DEF SlotsBounded
    <3> QED
      BY <1>a, <3>1, <3>2, <3>3, <3>4, <3>8, <3>7
  <2> QED
    BY <2>1, <2>2, <2>3
<1>d. \A d \in Charts : ticket[d] = "started" =>
          /\ d # c /\ ticket'[d] = "started" /\ builder'[d] = builder[d]
          /\ (d \in Range(list') <=> d \in Range(list))
  BY <1>a, <1>c
<1>e. Range(list') \subseteq Charts
  BY <1>c DEF Range
<1>1. TypeOK'
  BY <1>b, <1>c DEF OpenChart, TypeOK
<1>2. ListedStatus'
  BY <1>c, <1>e DEF ListedStatus
<1>3. ListedChartsAlive'
  BY <1>b, <1>c, <1>e DEF ListedChartsAlive, Open
<1>4. WorkersListed'
  BY <1>c DEF WorkersListed, Working, Outcome
<1>5. NothingEarly'
  BY <1>b, <1>c DEF NothingEarly
<1>6. ManagerEvents'
  BY <1>d, EventTickets DEF ManagerEvents, IsDone, OpenChart
<1>7. FrameEvents'
  BY <1>d, EventTickets DEF FrameEvents, IsDone, OpenChart
<1>8. ReloadingLast'
  BY <1>d DEF ReloadingLast, OpenChart, TypeOK
<1>9. LockHeldByBuilder'
  BY <1>a, <1>c DEF LockHeldByBuilder, OpenChart, NothingEarly, Builders
<1>10. MainBuilds'
  BY <1>c DEF MainBuilds, OpenChart
<1> QED
  BY <1>c, <1>1, <1>2, <1>3, <1>4, <1>5, <1>6, <1>7, <1>8, <1>9, <1>10

-----------------------------------------------------------------------------
(* Theorems *)

LEMMA InitIInv == Init => IInv
<1> SUFFICES ASSUME Init PROVE IInv
  OBVIOUS
<1> USE SencAssumption DEF Init
<1>1. list = <<>> /\ Range(list) = {}
  BY DEF Range
<1>2. TypeOK
  BY DEF TypeOK, ChartLife, TicketLife, Phase, Builders
<1>3. SlotsBounded
  <2>1. Running(list, ticket) = {}
    BY <1>1 DEF Running
  <2> QED
    <3>1. Cardinality({}) = 0
      BY FS_EmptySet
    <3>2. MaxJobs \in Nat
      BY DEF SencAssumption
    <3>3. Cardinality(Running(list, ticket)) = 0
      BY <2>1, <3>1
    <3> HIDE DEF Init
    <3> QED
      BY <3>2, <3>3 DEF SlotsBounded
<1>4. CellsListedOnce /\ ListedStatus /\ ListedChartsAlive /\ NothingEarly
  BY <1>1 DEF CellsListedOnce, ListedStatus, ListedChartsAlive, NothingEarly,
     Builders
<1>5. WorkersListed /\ ManagerEvents /\ FrameEvents /\ ReloadingLast
  BY DEF WorkersListed, Working, Outcome, ManagerEvents, FrameEvents,
     ReloadingLast,
         Builders
<1>6. LockHeldByBuilder /\ MainBuilds
  BY DEF LockHeldByBuilder, MainBuilds, Builders
<1> QED
  BY <1>2, <1>3, <1>4, <1>5, <1>6 DEF IInv

LEMMA StutterIInv == ASSUME IInv, UNCHANGED vars PROVE IInv'
<1>1. /\ UNCHANGED <<chart, ticket, linked, list, builder, sencLock, senc>>
      /\ UNCHANGED <<mgrQ, frameQ, reloading, parsing, todo>>
  BY DEF vars
<1>2. TypeOK' /\ CellsListedOnce' /\ ListedStatus' /\ SlotsBounded'
  BY <1>1 DEF IInv, TypeOK, CellsListedOnce, ListedStatus, SlotsBounded,
     Running
<1>3. WorkersListed' /\ NothingEarly' /\ ReloadingLast' /\ MainBuilds'
  BY <1>1 DEF IInv, WorkersListed, Working, NothingEarly, ReloadingLast,
     MainBuilds
<1>4. ManagerEvents' /\ FrameEvents' /\ ListedChartsAlive' /\ LockHeldByBuilder'
  BY <1>1 DEF IInv, ManagerEvents, FrameEvents, IsDone, ListedChartsAlive,
     Open,
              LockHeldByBuilder
<1> QED
  BY <1>2, <1>3, <1>4 DEF IInv

LEMMA NextIInv == IInv /\ [Next]_vars => IInv'
<1> SUFFICES ASSUME IInv, [Next]_vars PROVE IInv'
  OBVIOUS
<1>1. CASE UNCHANGED vars
  BY <1>1, StutterIInv
<1>2. ASSUME NEW c \in Charts, OpenChart(c) \/ CloseChart(c) \/ Worker(c)
      PROVE  IInv'
  BY <1>2, OpenChartStep, CloseChartStep, EntryStartStep, BuildReturnsStep,
     EntryDoneStep, EntryThrowsStep DEF Worker
<1>3. ASSUME NEW b \in Builders, Building(b)
      PROVE  IInv'
  BY <1>3, AcquireLockStep, TessellateStep, TessellationDoneStep DEF Building
<1>4. CASE MainLoop
  BY <1>4, OnEvtThreadStartedStep, OnEvtThreadDoneStep, OnSENCEvtIgnoredStep,
     OnSENCEvtDoneStep, ReloadReturnsStep, ParseNextStep, ParseReturnsStep
     DEF MainLoop
<1>5. CASE Quiescent
  BY <1>5, StutterIInv DEF Quiescent
<1> QED
  BY <1>1, <1>2, <1>3, <1>4, <1>5 DEF Next

(* The inductive invariant holds in every reachable state.                 *)
THEOREM Invariance == Spec => []IInv
<1>1. Init => IInv
  BY InitIInv
<1>2. IInv /\ [Next]_vars => IInv'
  BY NextIInv
<1> QED
  BY <1>1, <1>2, PTL DEF Spec

(* Every variable keeps its type: no thread is ever started without a      *)
(* ticket, and no event is about anything but a ticket.                    *)
THEOREM TypeCorrectness == Spec => []TypeOK
<1>1. IInv => TypeOK
  BY DEF IInv
<1> QED
  BY <1>1, Invariance, PTL

(* Two worker threads never build the SENC file of one cell at a time,     *)
(* whatever is opened, closed, thrown or reported meanwhile.               *)
THEOREM NoCellBuiltTwice == Spec => []OneWorkerPerCell
<1>1. IInv => OneWorkerPerCell
  BY DEF IInv, OneWorkerPerCell, WorkersListed, CellsListedOnce, Range, TypeOK
<1> QED
  BY <1>1, Invariance, PTL

(* At most m_max_jobs worker threads build at a time.                      *)
THEOREM WorkersWithinLimit == Spec => []WorkersBounded
<1>1. ASSUME IInv PROVE WorkersBounded
  <2> DEFINE W == {c \in Charts : Working(c)}
  <2>1. W \subseteq Running(list, ticket)
    BY <1>1 DEF IInv, WorkersListed, Running
  <2>2. IsFiniteSet(Running(list, ticket))
    BY <1>1, SencAssumption, EventTickets, FS_Subset DEF IInv, Running
  <2>3. /\ Cardinality(W) =< Cardinality(Running(list, ticket))
        /\ Cardinality(W) \in Nat /\ Cardinality(Running(list, ticket)) \in Nat
    BY <2>1, <2>2, FS_Subset, FS_CardinalityType
  <2> QED
    BY <1>1, <2>3, SencAssumption DEF IInv, SlotsBounded, WorkersBounded
<1> QED
  BY <1>1, Invariance, PTL

(* A set of numbers has a least one.                                       *)
LEMMA LeastNumber ==
    ASSUME NEW K, K \subseteq Nat, K # {}
    PROVE  \E k \in K : \A j \in K : k =< j
<1> DEFINE R == OpToRel(<, Nat)
<1>1. IsWellFoundedOn(R, Nat)
  BY NatLessThanWellFounded
<1>2. \A x, y \in Nat : x < y => <<x, y>> \in R
  BY DEF OpToRel
<1> HIDE DEF R
<1>3. PICK k \in K : \A j \in K : ~(<<j, k>> \in R)
  BY <1>1, WFMin
<1>4. ASSUME NEW j \in K PROVE k =< j
  <2>1. j \in Nat /\ k \in Nat /\ ~(j < k)
    BY <1>2, <1>3
  <2> QED
    BY <2>1
<1> QED
  BY <1>4

(* Where a ticket is pending there is a first one.                         *)
LEMMA FirstPendingExists ==
    ASSUME NEW lst \in Seq(Charts), NEW tk, NEW c \in Range(lst), tk[c] = "pending"
    PROVE  FirstPending(lst, tk) # {}
<1> DEFINE K == {k \in 1..Len(lst) : tk[lst[k]] = "pending"}
<1>1. K \subseteq Nat /\ K # {}
  BY DEF Range
<1>2. PICK k \in K : \A j \in K : k =< j
  BY <1>1, LeastNumber
<1>3. /\ k \in 1..Len(lst) /\ lst[k] \in Charts /\ tk[lst[k]] = "pending"
      /\ \A j \in 1..(k-1) : tk[lst[j]] # "pending"
  BY <1>2
<1> QED
  BY <1>3 DEF FirstPending

(* After StartTopJob no slot is idle, if one slot at most was, or one      *)
(* ticket at most was waiting.                                             *)
LEMMA StartTopJobFills ==
    ASSUME NEW lst \in Seq(Charts), NEW tk \in [Charts -> TicketLife],
           builder \in [Builders -> Phase],
           Cardinality(Running(lst, tk)) =< MaxJobs,
           \/ Cardinality(Running(lst, tk)) >= MaxJobs - 1
           \/ \A c, d \in Range(lst) : tk[c] = "pending" /\ tk[d] = "pending" => c = d,
           StartTopJob(lst, tk),
           NEW x \in Range(lst), ticket'[x] = "pending"
    PROVE  Cardinality(Running(lst, ticket')) = MaxJobs
<1> USE SencAssumption
<1> DEFINE top == TopJob(lst, tk)
<1>0. /\ Range(lst) \subseteq Charts
      /\ Running(lst, tk) \subseteq Charts /\ IsFiniteSet(Running(lst, tk))
      /\ Cardinality(Running(lst, tk)) \in Nat /\ MaxJobs \in Nat
  <2>1. Range(lst) \subseteq Charts /\ Running(lst, tk) \subseteq Charts
    BY DEF Running, Range
  <2>2. IsFiniteSet(Running(lst, tk))
    BY <2>1, FS_Subset
  <2> QED
    BY <2>1, <2>2, FS_CardinalityType
<1>1. /\ \A c \in top : c \in Charts /\ c \in Range(lst) /\ tk[c] = "pending"
      /\ \A c, d \in top : c = d
  BY FirstPendingUnique DEF TopJob
<1>2. ticket' = [c \in Charts |-> IF c \in top THEN "started" ELSE tk[c]]
  BY DEF StartTopJob
<1> HIDE DEF top
<1>3. x \in Charts /\ x \notin top /\ tk[x] = "pending"
  BY <1>0, <1>2
<1>4. CASE Cardinality(Running(lst, tk)) < MaxJobs
  <2>1. top = FirstPending(lst, tk)
    BY <1>4 DEF top, TopJob
  <2>2. PICK t \in top : TRUE
    BY <1>3, <2>1, FirstPendingExists
  <2>3. top = {t} /\ t \in Range(lst) /\ tk[t] = "pending" /\ t # x
    BY <1>1, <1>3, <2>2
  <2>4. Running(lst, ticket') = Running(lst, tk) \union {t}
    BY <1>0, <1>1, <1>2, <2>3 DEF Running
  <2>5. t \notin Running(lst, tk)
    BY <2>3 DEF Running
  <2>6. Cardinality(Running(lst, ticket')) = Cardinality(Running(lst, tk)) + 1
    BY <1>0, <2>4, <2>5, FS_AddElement
  <2>7. Cardinality(Running(lst, tk)) >= MaxJobs - 1
    BY <1>3, <2>3
  <2> QED
    BY <1>0, <1>4, <2>6, <2>7
<1>5. CASE ~(Cardinality(Running(lst, tk)) < MaxJobs)
  <2>1. top = {}
    BY <1>5 DEF top, TopJob
  <2>2. Running(lst, ticket') = Running(lst, tk)
    BY <1>0, <1>2, <2>1 DEF Running
  <2> QED
    BY <1>0, <1>5, <2>2
<1> QED
  BY <1>4, <1>5

LEMMA SlotsAfterDone ==
    ASSUME IInv, NoIdleSlot, OnEvtThreadDone
    PROVE  NoIdleSlot'
<1> USE SencAssumption DEF IInv
<1> DEFINE t == mgrQ[1].ticket
<1>a. Len(mgrQ) \in Nat \ {0} /\ Head(mgrQ) = mgrQ[1] /\ mgrQ[1] \in Event
  BY TailElements DEF OnEvtThreadDone, TypeOK
<1>b. t \in Charts /\ FinishJob(t) /\ StartTopJob(list', ticket)
  BY <1>a DEF OnEvtThreadDone, Event
<1> HIDE DEF t
<1>c. /\ list' \in Seq(Charts)
      /\ \A c \in Charts : c \in Range(list') <=> c \in Range(list) /\ c # t
  BY <1>b, FinishJobRemoves
<1>d. Range(list) \subseteq Charts /\ Range(list') \subseteq Charts
  BY <1>c, EventTickets DEF Range
<1>e. /\ Running(list, ticket) \subseteq Charts
      /\ IsFiniteSet(Running(list, ticket))
      /\ Running(list', ticket) = Running(list, ticket) \ {t}
  <2>1. Running(list, ticket) \subseteq Charts
    BY <1>d DEF Running
  <2>2. IsFiniteSet(Running(list, ticket))
    BY <2>1, FS_Subset
  <2>3. Running(list', ticket) = Running(list, ticket) \ {t}
    BY <1>c, <1>d DEF Running
  <2> QED
    BY <2>1, <2>2, <2>3
<1>f. /\ Cardinality(Running(list, ticket)) \in Nat
      /\ Cardinality(Running(list', ticket)) \in Nat
      /\ Cardinality(Running(list', ticket)) >= Cardinality(Running(list, ticket)) - 1
      /\ Cardinality(Running(list', ticket)) =< Cardinality(Running(list, ticket))
  <2> DEFINE R == Running(list, ticket)
             Q == Running(list', ticket)
  <2>1. IsFiniteSet(R) /\ Q = R \ {t}
    BY <1>e
  <2> HIDE DEF R, Q
  <2>2. Cardinality(R) \in Nat
    BY <2>1, FS_CardinalityType
  <2>3. Cardinality(Q) = IF t \in R THEN Cardinality(R) - 1 ELSE Cardinality(R)
    BY <2>1, FS_RemoveElement
  <2>4. Cardinality(Q) \in Nat
    BY <2>1, FS_RemoveElement, FS_CardinalityType
  <2>5. /\ Cardinality(Q) >= Cardinality(R) - 1
        /\ Cardinality(Q) =< Cardinality(R)
    BY <2>2, <2>3
  <2> QED
    BY <2>2, <2>4, <2>5 DEF R, Q
<1>g. ticket \in [Charts -> TicketLife] /\ builder \in [Builders -> Phase]
  BY DEF TypeOK
<1> SUFFICES ASSUME NEW x \in Range(list'), ticket'[x] = "pending"
             PROVE  Cardinality(Running(list', ticket')) = MaxJobs
  BY DEF NoIdleSlot
<1>h. ticket[x] = "pending" /\ x \in Range(list)
  BY <1>b, <1>c, <1>d, <1>g DEF StartTopJob
<1>i. Cardinality(Running(list, ticket)) = MaxJobs
  BY <1>h DEF NoIdleSlot
<1> QED
  BY <1>b, <1>c, <1>f, <1>g, <1>i, StartTopJobFills

LEMMA SlotsAfterOpen ==
    ASSUME IInv, NoIdleSlot, NEW c \in Charts, OpenChart(c)
    PROVE  NoIdleSlot'
<1> USE SencAssumption DEF IInv
<1>a. /\ ticket[c] = "none" /\ c \notin Range(list)
      /\ ticket \in [Charts -> TicketLife] /\ builder \in [Builders -> Phase]
  BY DEF OpenChart, NothingEarly, TypeOK
<1>b. Range(list) \subseteq Charts
  BY EventTickets
<1>1. CASE senc[PathOf[c]] = "current"
  BY <1>1 DEF OpenChart, FindOrCreateSenc, NoIdleSlot
<1>2. CASE senc[PathOf[c]] # "current" /\ AlreadyListed(c)
  <2>1. ticket' = [ticket EXCEPT ![c] = "refused"] /\ list' = list
    BY <1>2 DEF OpenChart, FindOrCreateSenc, BuildSENCFile, ScheduleJob
  <2>2. \A d \in Range(list) : ticket'[d] = ticket[d]
    BY <1>a, <1>b, <2>1
  <2>3. Running(list', ticket') = Running(list, ticket)
    BY <2>1, <2>2 DEF Running
  <2> QED
    BY <2>1, <2>2, <2>3 DEF NoIdleSlot
<1>3. CASE senc[PathOf[c]] # "current" /\ ~AlreadyListed(c)
  <2> DEFINE tk == [ticket EXCEPT ![c] = "pending"]
  <2>1. list' = Append(list, c) /\ StartTopJob(list', tk)
    BY <1>3 DEF OpenChart, FindOrCreateSenc, BuildSENCFile, ScheduleJob
  <2>2. /\ list' \in Seq(Charts) /\ Len(list') = Len(list) + 1
        /\ Len(list) \in Nat
        /\ \A i \in 1..(Len(list) + 1) :
              list'[i] = IF i =< Len(list) THEN list[i] ELSE c
    BY <2>1, AppendElements DEF TypeOK
  <2>3. Range(list') = Range(list) \union {c}
    <3>1. Range(list') \subseteq Range(list) \union {c}
      BY <2>2 DEF Range, TypeOK
    <3>2. \A i \in 1..Len(list) : list[i] \in Range(list')
      <4> SUFFICES ASSUME NEW i \in 1..Len(list) PROVE list[i] \in Range(list')
        OBVIOUS
      <4>1. i \in 1..Len(list') /\ list'[i] = list[i]
        BY <2>2
      <4> QED
        BY <2>2, <4>1 DEF Range
    <3>3. c \in Range(list')
      BY <2>2 DEF Range
    <3>4. Range(list) \subseteq Range(list')
      BY <3>2 DEF Range, TypeOK
    <3> QED
      BY <3>1, <3>3, <3>4
  <2>4. /\ tk \in [Charts -> TicketLife] /\ tk[c] = "pending"
        /\ \A d \in Range(list) : tk[d] = ticket[d]
    BY <1>a, <1>b DEF TicketLife
  <2> HIDE DEF tk
  <2>5. Running(list', tk) = Running(list, ticket)
    BY <2>3, <2>4 DEF Running
  <2>6. /\ Cardinality(Running(list', tk)) =< MaxJobs
        /\ \/ Cardinality(Running(list', tk)) >= MaxJobs - 1
           \/ \A d, e \in Range(list') : tk[d] = "pending" /\ tk[e] = "pending"
                                            => d = e
    <3>1. CASE \E d \in Range(list) : ticket[d] = "pending"
      BY <2>5, <3>1 DEF NoIdleSlot
    <3>2. CASE \A d \in Range(list) : ticket[d] # "pending"
      BY <2>3, <2>4, <2>5, <3>2 DEF SlotsBounded
    <3> QED
      BY <2>5, <3>1, <3>2 DEF SlotsBounded
  <2> QED
    BY <1>a, <2>1, <2>2, <2>4, <2>6, StartTopJobFills DEF NoIdleSlot
<1> QED
  BY <1>1, <1>2, <1>3

LEMMA SlotsStep ==
    ASSUME IInv, NoIdleSlot, [Next]_vars
    PROVE  NoIdleSlot'
<1>1. ASSUME UNCHANGED <<list, ticket>> PROVE NoIdleSlot'
  BY <1>1 DEF NoIdleSlot, Running
<1>2. ASSUME ReloadReturns PROVE NoIdleSlot'
  <2>1. reloading \notin Range(list)
    BY <1>2 DEF IInv, ReloadingLast, ReloadReturns
  <2>2. /\ list' = list /\ Range(list) \subseteq Charts
        /\ \A d \in Range(list) : ticket'[d] = ticket[d]
    BY <1>2, <2>1, EventTickets DEF IInv, TypeOK, ReloadReturns
  <2>3. Running(list', ticket') = Running(list, ticket)
    BY <2>2 DEF Running
  <2> QED
    BY <2>2, <2>3 DEF NoIdleSlot
<1>3. ASSUME NEW c \in Charts, CloseChart(c) \/ Worker(c) PROVE NoIdleSlot'
  BY <1>1, <1>3 DEF CloseChart, Worker, EntryStart, BuildReturns, EntryDone,
                    EntryThrows
<1>4. ASSUME NEW b \in Builders, Building(b) PROVE NoIdleSlot'
  BY <1>1, <1>4 DEF Building, AcquireLock, Tessellate, TessellationDone
<1>5. CASE MainLoop
  BY <1>1, <1>2, <1>5, SlotsAfterDone
     DEF MainLoop, OnEvtThreadStarted, OnSENCEvtIgnored, OnSENCEvtDone,
         ParseNext, ParseReturns
<1>6. CASE Quiescent \/ UNCHANGED vars
  BY <1>1, <1>6 DEF Quiescent, vars
<1> QED
  BY <1>3, <1>4, <1>5, <1>6, SlotsAfterOpen DEF Next

(* A ticket waits only while m_max_jobs others are started: StartTopJob    *)
(* starts one ticket per call, but is called whenever a slot or a ticket   *)
(* is added.                                                               *)
THEOREM NoSlotWasted == Spec => []NoIdleSlot
<1>1. Init => NoIdleSlot
  BY DEF Init, NoIdleSlot, Range
<1>2. IInv /\ NoIdleSlot /\ [Next]_vars => NoIdleSlot'
  BY SlotsStep
<1> QED
  BY <1>1, <1>2, Invariance, PTL DEF Spec

(* No list entry, thread, event or handler refers to a deleted ticket.     *)
THEOREM NoTicketUsedAfterDelete == Spec => []TicketsInUseExist
<1>1. ASSUME IInv PROVE TicketsInUseExist
  <2>1. /\ \A i \in 1..Len(mgrQ) : ticket[mgrQ[i].ticket] = "started"
        /\ \A i \in 1..Len(frameQ) : ticket[frameQ[i].ticket] = "started"
    BY <1>1 DEF IInv, ManagerEvents, FrameEvents
  <2>2. \A e \in Range(mgrQ) \union Range(frameQ) : ticket[e.ticket] = "started"
    BY <1>1, <2>1 DEF IInv, TypeOK, Range
  <2> QED
    BY <1>1, <2>2, SMTT(20) DEF IInv, TicketsInUseExist, ListedStatus,
                                WorkersListed, ReloadingLast
<1> QED
  BY <1>1, Invariance, PTL

(* The destructor of a chart leaves no pointer to it in the ticket list.   *)
THEOREM NoDeadChartListed == Spec => []ListedChartsAlive
<1>1. IInv => ListedChartsAlive
  BY DEF IInv
<1> QED
  BY <1>1, Invariance, PTL

(* The SENC mutex is held exactly while its holder is building, so two     *)
(* builders never write at a time.                                         *)
THEOREM SencMutualExclusion == Spec => []LockHeldByBuilder
<1>1. IInv => LockHeldByBuilder
  BY DEF IInv
<1> QED
  BY <1>1, Invariance, PTL

-----------------------------------------------------------------------------
(* Refused requests                                                        *)

(* A listed ticket still has a result to deliver, or its worker threw.     *)
AtWork(c) == StillAtWork(c) \/ builder[c] = "crashed"

ListedAtWork == \A c \in Range(list) : AtWork(c)

LEMMA AtWorkKept ==
    ASSUME TypeOK, ListedAtWork, UNCHANGED <<list, ticket>>,
           \A c \in Charts :
              Working(c) => Working(c)' \/ builder'[c] \in Outcome \union {"crashed"},
           \A c \in Charts : builder[c] \in Outcome \union {"crashed"}
                                 => builder'[c] = builder[c],
           mgrQ' = mgrQ
    PROVE  ListedAtWork'
<1>1. Range(list') = Range(list) /\ Range(list) \subseteq Charts
  BY EventTickets DEF Range
<1>2. Range(mgrQ') = Range(mgrQ)
  OBVIOUS
<1> SUFFICES ASSUME NEW c \in Range(list') PROVE AtWork(c)'
  BY DEF ListedAtWork
<1>3. c \in Charts /\ AtWork(c)
  BY <1>1 DEF ListedAtWork
<1> QED
  BY <1>2, <1>3 DEF AtWork, StillAtWork

(* The events of a queue are what its positions hold.                      *)
LEMMA QueuedEvents ==
    ASSUME NEW q \in Seq(Event), NEW x
    PROVE  x \in Range(q) <=> \E k \in 1..Len(q) : q[k] = x
<1>1. DOMAIN q = 1..Len(q)
  OBVIOUS
<1> QED
  BY <1>1 DEF Range

LEMMA AtWorkAppend ==
    ASSUME TypeOK, ListedAtWork, UNCHANGED <<list, ticket>>, NEW c \in Charts,
           NEW type \in EventType,
           mgrQ' = Append(mgrQ, [type |-> type, ticket |-> c]),
           \/ Working(c)'
           \/ type # "STARTED",
           \A d \in Charts \ {c} : builder'[d] = builder[d]
    PROVE  ListedAtWork'
<1> DEFINE new == [type |-> type, ticket |-> c]
<1>1. /\ Range(list') = Range(list) /\ Range(list) \subseteq Charts
      /\ new \in Event /\ mgrQ \in Seq(Event) /\ Len(mgrQ) \in Nat
  BY EventTickets DEF Range, Event, TypeOK
<1>2. /\ mgrQ' \in Seq(Event) /\ Len(mgrQ') = Len(mgrQ) + 1
      /\ \A i \in 1..(Len(mgrQ) + 1) :
            mgrQ'[i] = IF i =< Len(mgrQ) THEN mgrQ[i] ELSE new
  BY <1>1, AppendElements
<1>3. \A e \in Range(mgrQ) : e \in Range(mgrQ')
  <2> SUFFICES ASSUME NEW e \in Range(mgrQ) PROVE e \in Range(mgrQ')
    OBVIOUS
  <2>1. PICK k \in 1..Len(mgrQ) : mgrQ[k] = e
    BY <1>1, QueuedEvents
  <2>2. k \in 1..Len(mgrQ') /\ mgrQ'[k] = e
    BY <1>1, <1>2, <2>1
  <2> QED
    BY <1>2, <2>2, QueuedEvents
<1>4. new \in Range(mgrQ')
  <2>1. Len(mgrQ') \in 1..Len(mgrQ') /\ mgrQ'[Len(mgrQ')] = new
    BY <1>1, <1>2
  <2> QED
    BY <1>2, <2>1, QueuedEvents
<1> SUFFICES ASSUME NEW d \in Range(list') PROVE AtWork(d)'
  BY DEF ListedAtWork
<1>5. d \in Charts /\ AtWork(d)
  BY <1>1 DEF ListedAtWork
<1>6. CASE d = c
  BY <1>4, <1>6 DEF AtWork, StillAtWork
<1>7. CASE d # c
  BY <1>3, <1>5, <1>7 DEF AtWork, StillAtWork, Working
<1> QED
  BY <1>6, <1>7

LEMMA AtWorkDone ==
    ASSUME IInv, ListedAtWork, OnEvtThreadDone
    PROVE  ListedAtWork'
<1> USE SencAssumption DEF IInv
<1> DEFINE t == mgrQ[1].ticket
<1>1. /\ Len(mgrQ) \in Nat \ {0} /\ Head(mgrQ) = mgrQ[1] /\ mgrQ[1] \in Event
      /\ mgrQ' \in Seq(Event) /\ Len(mgrQ') = Len(mgrQ) - 1
      /\ \A i \in 1..(Len(mgrQ) - 1) : mgrQ'[i] = mgrQ[i+1]
  BY TailElements DEF OnEvtThreadDone, TypeOK
<1>2. t \in Charts /\ FinishJob(t) /\ StartTopJob(list', ticket)
  BY <1>1 DEF OnEvtThreadDone, Event
<1>3. /\ list' \in Seq(Charts)
      /\ \A c \in Charts : c \in Range(list') <=> c \in Range(list) /\ c # t
  BY <1>2, FinishJobRemoves
<1> SUFFICES ASSUME NEW c \in Range(list') PROVE AtWork(c)'
  BY DEF ListedAtWork
<1>4. c \in Charts /\ c \in Range(list) /\ c # t /\ AtWork(c)
  BY <1>3 DEF Range, ListedAtWork
<1>5. CASE c \in TopJob(list', ticket)
  <2>1. builder'[c] = "created"
    BY <1>2, <1>4, <1>5 DEF StartTopJob, Builders
  <2> QED
    BY <2>1 DEF AtWork, StillAtWork, Working
<1>6. CASE c \notin TopJob(list', ticket)
  <2>1. ticket'[c] = ticket[c] /\ builder'[c] = builder[c]
    BY <1>2, <1>4, <1>6 DEF StartTopJob, Builders
  <2>2. CASE \E e \in Range(mgrQ) : e.ticket = c /\ e.type # "STARTED"
    <3>1. PICK k \in 1..Len(mgrQ) : mgrQ[k].ticket = c /\ mgrQ[k].type # "STARTED"
      BY <2>2, QueuedEvents DEF TypeOK
    <3>2. k - 1 \in 1..Len(mgrQ') /\ mgrQ'[k-1] = mgrQ[k]
      BY <1>1, <1>4, <3>1
    <3>3. mgrQ[k] \in Range(mgrQ')
      BY <1>1, <3>2, QueuedEvents
    <3> QED
      BY <3>1, <3>3 DEF AtWork, StillAtWork
  <2> QED
    BY <1>4, <2>1, <2>2 DEF AtWork, StillAtWork, Working
<1> QED
  BY <1>5, <1>6

LEMMA AtWorkStarted ==
    ASSUME IInv, ListedAtWork, OnEvtThreadStarted
    PROVE  ListedAtWork'
<1> USE DEF IInv
<1>1. /\ Len(mgrQ) \in Nat \ {0} /\ Head(mgrQ) = mgrQ[1]
      /\ mgrQ' \in Seq(Event) /\ Len(mgrQ') = Len(mgrQ) - 1
      /\ \A i \in 1..(Len(mgrQ) - 1) : mgrQ'[i] = mgrQ[i+1]
      /\ UNCHANGED <<list, ticket, builder>>
  BY TailElements DEF OnEvtThreadStarted, TypeOK
<1> SUFFICES ASSUME NEW c \in Range(list') PROVE AtWork(c)'
  BY DEF ListedAtWork
<1>2. AtWork(c)
  BY <1>1 DEF Range, ListedAtWork
<1>3. CASE \E e \in Range(mgrQ) : e.ticket = c /\ e.type # "STARTED"
  <2>1. PICK k \in 1..Len(mgrQ) : mgrQ[k].ticket = c /\ mgrQ[k].type # "STARTED"
    BY <1>3, QueuedEvents DEF TypeOK
  <2>2. k - 1 \in 1..Len(mgrQ') /\ mgrQ'[k-1] = mgrQ[k]
    BY <1>1, <2>1 DEF OnEvtThreadStarted
  <2>3. mgrQ[k] \in Range(mgrQ')
    BY <1>1, <2>2, QueuedEvents
  <2> QED
    BY <2>1, <2>3 DEF AtWork, StillAtWork
<1> QED
  BY <1>1, <1>2, <1>3 DEF AtWork, StillAtWork, Working

LEMMA AtWorkOpen ==
    ASSUME IInv, ListedAtWork, NEW c \in Charts, OpenChart(c)
    PROVE  ListedAtWork'
<1> USE SencAssumption DEF IInv
<1>1. mgrQ' = mgrQ /\ ticket \in [Charts -> TicketLife] /\ builder \in [Builders -> Phase]
  BY DEF OpenChart, queueVars, TypeOK
<1>2. c \notin Range(list) /\ Range(list) \subseteq Charts
  BY EventTickets DEF OpenChart, NothingEarly
<1> SUFFICES ASSUME NEW d \in Range(list') PROVE AtWork(d)'
  BY DEF ListedAtWork
<1>3. CASE senc[PathOf[c]] = "current"
  <2>1. UNCHANGED <<list, ticket, builder>>
    BY <1>3 DEF OpenChart, FindOrCreateSenc
  <2> QED
    BY <1>1, <2>1 DEF ListedAtWork, AtWork, StillAtWork, Working, Range
<1>4. CASE senc[PathOf[c]] # "current" /\ AlreadyListed(c)
  <2>1. ticket' = [ticket EXCEPT ![c] = "refused"] /\ UNCHANGED <<list, builder>>
    BY <1>4 DEF OpenChart, FindOrCreateSenc, BuildSENCFile, ScheduleJob
  <2>2. d \in Range(list) /\ ticket'[d] = ticket[d]
    BY <1>1, <1>2, <2>1 DEF Range
  <2> QED
    BY <1>1, <2>1, <2>2 DEF ListedAtWork, AtWork, StillAtWork, Working
<1>5. CASE senc[PathOf[c]] # "current" /\ ~AlreadyListed(c)
  <2> DEFINE tk == [ticket EXCEPT ![c] = "pending"]
  <2>1. list' = Append(list, c) /\ StartTopJob(list', tk)
    BY <1>5 DEF OpenChart, FindOrCreateSenc, BuildSENCFile, ScheduleJob
  <2>2. d \in Charts /\ (d = c \/ d \in Range(list))
    <3>1. /\ list' \in Seq(Charts) /\ Len(list') = Len(list) + 1
          /\ Len(list) \in Nat
          /\ \A i \in 1..(Len(list) + 1) :
                list'[i] = IF i =< Len(list) THEN list[i] ELSE c
      BY <2>1, AppendElements DEF TypeOK
    <3> QED
      BY <3>1 DEF Range, TypeOK
  <2>3. d # c => AtWork(d)
    BY <2>2 DEF ListedAtWork
  <2>4. CASE d \in TopJob(list', tk)
    <3>1. builder'[d] = "created"
      BY <2>1, <2>2, <2>4 DEF StartTopJob, Builders
    <3> QED
      BY <3>1 DEF AtWork, StillAtWork, Working
  <2>5. CASE d \notin TopJob(list', tk)
    <3>1. ticket'[d] = tk[d] /\ builder'[d] = builder[d]
      BY <2>1, <2>2, <2>5 DEF StartTopJob, Builders
    <3>2. tk[d] = IF d = c THEN "pending" ELSE ticket[d]
      BY <1>1, <2>2
    <3> QED
      BY <1>1, <2>3, <3>1, <3>2 DEF AtWork, StillAtWork, Working
  <2> QED
    BY <2>4, <2>5
<1> QED
  BY <1>3, <1>4, <1>5

LEMMA AtWorkStep ==
    ASSUME IInv, ListedAtWork, [Next]_vars
    PROVE  ListedAtWork'
<1> USE SencAssumption
<1>a. TypeOK /\ builder \in [Builders -> Phase] /\ Charts \subseteq Builders
  BY DEF IInv, TypeOK, Builders
<1>1. ASSUME NEW c \in Charts, EntryStart(c) PROVE ListedAtWork'
  <2>1. Working(c)' /\ \A d \in Charts \ {c} : builder'[d] = builder[d]
    BY <1>a, <1>1 DEF EntryStart, Working
  <2> QED
    BY <1>1, <1>a, <2>1, AtWorkAppend DEF EntryStart, EventType
<1>2. ASSUME NEW c \in Charts, EntryDone(c) PROVE ListedAtWork'
  <2>1. \A d \in Charts \ {c} : builder'[d] = builder[d]
    BY <1>a, <1>2 DEF EntryDone
  <2>2. DoneType(builder[c]) \in EventType /\ DoneType(builder[c]) # "STARTED"
    BY DEF DoneType, EventType
  <2> QED
    BY <1>2, <1>a, <2>1, <2>2, AtWorkAppend DEF EntryDone
<1>3. ASSUME NEW c \in Charts, NEW r \in Outcome, BuildReturns(c, r)
      PROVE  ListedAtWork'
  <2>1. /\ \A d \in Charts : Working(d) => Working(d)' \/ builder'[d] \in Outcome
        /\ \A d \in Charts : builder[d] \in Outcome \union {"crashed"}
                                 => builder'[d] = builder[d]
    BY <1>a, <1>3 DEF BuildReturns, Working, Outcome
  <2> QED
    BY <1>3, <1>a, <2>1, AtWorkKept DEF BuildReturns, queueVars
<1>4. ASSUME NEW b \in Builders, Building(b) PROVE ListedAtWork'
  <2>1. /\ \A d \in Charts : Working(d) => Working(d)' \/ builder'[d] \in Outcome
        /\ \A d \in Charts : builder[d] \in Outcome \union {"crashed"}
                                 => builder'[d] = builder[d]
    BY <1>a, <1>4 DEF Building, AcquireLock, Tessellate, TessellationDone, Working,
                      Outcome
  <2>2. UNCHANGED <<list, ticket, mgrQ>>
    BY <1>4 DEF Building, AcquireLock, Tessellate, TessellationDone, queueVars
  <2> QED
    BY <1>a, <2>1, <2>2, AtWorkKept
<1>5. ASSUME UNCHANGED <<list, ticket, mgrQ>>,
             \A d \in Charts : builder'[d] = builder[d]
      PROVE  ListedAtWork'
  BY <1>a, <1>5, AtWorkKept DEF Working
<1>6. ASSUME ReloadReturns PROVE ListedAtWork'
  <2>1. reloading \notin Range(list)
    BY <1>6 DEF IInv, ReloadingLast, ReloadReturns
  <2>2. /\ UNCHANGED <<list, builder, mgrQ>>
        /\ \A d \in Range(list) : ticket'[d] = ticket[d]
    BY <1>6, <2>1, EventTickets DEF IInv, TypeOK, ReloadReturns, queueVars
  <2> QED
    BY <2>2 DEF ListedAtWork, AtWork, StillAtWork, Working, Range
<1>7. ASSUME NEW p \in Paths, ParseNext(p) PROVE ListedAtWork'
  BY <1>5, <1>7, <1>a DEF ParseNext, queueVars
<1>8. ASSUME NEW r \in Outcome, ParseReturns(r) PROVE ListedAtWork'
  BY <1>5, <1>8, <1>a DEF ParseReturns, queueVars
<1>9. ASSUME OnSENCEvtIgnored \/ OnSENCEvtDone \/ Quiescent \/ UNCHANGED vars
      PROVE  ListedAtWork'
  BY <1>5, <1>9 DEF OnSENCEvtIgnored, OnSENCEvtDone, Quiescent, vars
<1>10. ASSUME NEW c \in Charts, CloseChart(c) PROVE ListedAtWork'
  BY <1>5, <1>10 DEF CloseChart, queueVars
<1>11. ASSUME NEW c \in Charts, EntryThrows(c) PROVE ListedAtWork'
  <2>1. /\ \A d \in Charts : Working(d) => Working(d)' \/ builder'[d] = "crashed"
        /\ \A d \in Charts : builder[d] \in Outcome \union {"crashed"}
                                 => builder'[d] = builder[d]
    BY <1>a, <1>11 DEF EntryThrows, Working, Outcome
  <2> QED
    BY <1>11, <1>a, <2>1, AtWorkKept DEF EntryThrows, queueVars
<1> QED
  BY <1>1, <1>2, <1>3, <1>4, <1>6, <1>7, <1>8, <1>9, <1>10, <1>11,
     AtWorkStarted, AtWorkDone, AtWorkOpen
     DEF Next, Worker, MainLoop

(* A request for a cell that is listed already is dropped, and relies on a *)
(* ticket that still waits, is being built, or whose result is on the way; *)
(* the only other tickets it may meet are those whose worker left          *)
(* createSenc200 by an exception (SencManager.cpp:302, 347).               *)
THEOREM RefusedRequestsAreAnswered == Spec => RefusalReliesOnLiveJob
<1>1. Init => ListedAtWork
  BY DEF Init, ListedAtWork, Range
<1>2. IInv /\ ListedAtWork /\ [Next]_vars => ListedAtWork'
  BY AtWorkStep
<1> DEFINE Relies == \A c \in Charts : ticket'[c] = "refused" /\ ticket[c] # "refused" =>
                        \E d \in Range(list) : PathOf[d] = PathOf[c] /\ AtWork(d)
<1>3. IInv /\ ListedAtWork /\ [Next]_vars => [Relies]_vars
  <2> SUFFICES ASSUME IInv, ListedAtWork, [Next]_vars, NEW c \in Charts,
                      ticket'[c] = "refused", ticket[c] # "refused"
               PROVE  \E d \in Range(list) : PathOf[d] = PathOf[c] /\ AtWork(d)
    OBVIOUS
  <2>1. PICK e \in Charts : OpenChart(e)
    <3>1. ticket' # ticket
      OBVIOUS
    <3>2. ~ReloadReturns
      BY DEF ReloadReturns, IInv, TypeOK
    <3>3. ~OnEvtThreadDone
      <4>1. ASSUME OnEvtThreadDone PROVE ticket'[c] \in {"started", ticket[c]}
        BY <4>1 DEF OnEvtThreadDone, StartTopJob
      <4> QED
        BY <4>1
    <3> QED
      BY <3>1, <3>2, <3>3
         DEF Next, CloseChart, Worker, EntryStart, BuildReturns, EntryDone, EntryThrows,
             Building, AcquireLock, Tessellate, TessellationDone, MainLoop,
             OnEvtThreadStarted, OnSENCEvtIgnored, OnSENCEvtDone, ParseNext,
             ParseReturns, Quiescent, vars
  <2>2. AlreadyListed(e) /\ e = c
    <3>1. senc[PathOf[e]] # "current"
      BY <2>1 DEF OpenChart, FindOrCreateSenc
    <3>2. ScheduleJob(e)
      BY <2>1, <3>1 DEF OpenChart, FindOrCreateSenc, BuildSENCFile
    <3>3. AlreadyListed(e)
      <4>1. ASSUME ~AlreadyListed(e)
            PROVE  ticket'[c] \in {"started", "pending", ticket[c]}
        BY <3>2, <4>1 DEF ScheduleJob, StartTopJob, IInv, TypeOK
      <4> QED
        BY <4>1
    <3>4. ticket' = [ticket EXCEPT ![e] = "refused"]
      BY <3>2, <3>3 DEF ScheduleJob
    <3> QED
      BY <3>3, <3>4 DEF IInv, TypeOK
  <2>3. PICK k \in 1..Len(list) : PathOf[list[k]] = PathOf[c]
    BY <2>2 DEF AlreadyListed
  <2>4. list[k] \in Range(list)
    BY DEF Range, IInv, TypeOK
  <2> QED
    BY <2>3, <2>4 DEF ListedAtWork
<1> HIDE DEF Relies
<1> QED
  BY <1>1, <1>2, <1>3, Invariance, PTL DEF Spec, RefusalReliesOnLiveJob, Relies, AtWork

-----------------------------------------------------------------------------
(* The pool of slots                                                       *)

(* The started tickets of a list are those of its first n places.          *)
StartedUpTo(lst, tk, n) ==
    /\ n \in 0..Len(lst)
    /\ \A k \in 1..n : tk[lst[k]] = "started"
    /\ \A k \in (n+1)..Len(lst) : tk[lst[k]] = "pending"

(* Tickets are started in the order of the list.                           *)
StartedFirst == \E n \in Nat : StartedUpTo(list, ticket, n)

LEMMA WaitingAre ==
    ASSUME NEW lst \in Seq(Charts), NEW tk, NEW n \in Nat, StartedUpTo(lst, tk, n)
    PROVE  /\ n = Len(lst) => Waiting(lst, tk) = <<>>
           /\ n < Len(lst) => Waiting(lst, tk) = SubSeq(lst, n+1, Len(lst))
<1> DEFINE P == {k \in 1..Len(lst) : tk[lst[k]] = "pending"}
<1>1. Len(lst) \in Nat /\ P = (n+1)..Len(lst)
  BY DEF StartedUpTo
<1>2. Waiting(lst, tk) = IF P = {} THEN <<>> ELSE SubSeq(lst, Min(P), Len(lst))
  BY DEF Waiting
<1> HIDE DEF P
<1>3. CASE n = Len(lst)
  BY <1>1, <1>2, <1>3
<1>4. CASE n < Len(lst)
  <2>1. n + 1 \in P /\ \A k \in P : n + 1 =< k
    BY <1>1, <1>4
  <2>2. Min(P) \in P /\ \A k \in P : Min(P) =< k
    BY <2>1 DEF Min
  <2>3. Min(P) = n + 1
    BY <1>1, <2>1, <2>2
  <2> QED
    BY <1>2, <1>4, <2>1, <2>3
<1> QED
  BY <1>1, <1>3, <1>4

(* The first pending ticket is the one behind the started ones.            *)
LEMMA FirstPendingIs ==
    ASSUME NEW lst \in Seq(Charts), NEW tk, NEW n \in Nat, StartedUpTo(lst, tk, n)
    PROVE  /\ n = Len(lst) => FirstPending(lst, tk) = {}
           /\ n < Len(lst) => FirstPending(lst, tk) = {lst[n+1]}
<1>1. Len(lst) \in Nat
  OBVIOUS
<1>2. CASE n = Len(lst)
  BY <1>1, <1>2 DEF StartedUpTo, FirstPending
<1>3. CASE n < Len(lst)
  <2>1. lst[n+1] \in Charts /\ n + 1 \in 1..Len(lst) /\ tk[lst[n+1]] = "pending"
    BY <1>1, <1>3 DEF StartedUpTo
  <2>2. \A j \in 1..n : tk[lst[j]] # "pending"
    BY DEF StartedUpTo
  <2>3. lst[n+1] \in FirstPending(lst, tk)
    BY <2>1, <2>2 DEF FirstPending
  <2>4. \A c \in FirstPending(lst, tk) : c = lst[n+1]
    BY <2>3, FirstPendingUnique
  <2> QED
    BY <1>1, <1>3, <2>3, <2>4
<1> QED
  BY <1>2, <1>3

LEMMA PoolUnchanged ==
    ASSUME TypeOK, StartedFirst, list' = list,
           \A c \in Range(list) : ticket'[c] = ticket[c]
    PROVE  /\ StartedFirst'
           /\ Waiting(list, ticket)' = Waiting(list, ticket)
           /\ Running(list, ticket)' = Running(list, ticket)
<1>1. PICK n \in Nat : StartedUpTo(list, ticket, n)
  BY DEF StartedFirst
<1>2. \A k \in 1..Len(list) : list[k] \in Range(list)
  BY DEF Range, TypeOK
<1>3. n \in 0..Len(list) /\ Len(list) \in Nat /\ list \in Seq(Charts)
  BY <1>1 DEF StartedUpTo, TypeOK
<1>4. StartedUpTo(list', ticket', n)
  <2>1. \A k \in 1..n : ticket'[list[k]] = "started"
    BY <1>1, <1>2, <1>3 DEF StartedUpTo
  <2>2. \A k \in (n+1)..Len(list) : ticket'[list[k]] = "pending"
    BY <1>1, <1>2, <1>3 DEF StartedUpTo
  <2> QED
    BY <1>3, <2>1, <2>2 DEF StartedUpTo
<1>5. Waiting(list', ticket') = Waiting(list, ticket)
  <2>1. CASE n = Len(list)
    <3>1. Waiting(list', ticket') = <<>>
      BY <1>3, <1>4, <2>1, WaitingAre
    <3>2. Waiting(list, ticket) = <<>>
      BY <1>1, <1>3, <2>1, WaitingAre
    <3> QED
      BY <3>1, <3>2
  <2>2. CASE n < Len(list)
    <3>1. Waiting(list', ticket') = SubSeq(list, n+1, Len(list))
      BY <1>3, <1>4, <2>2, WaitingAre
    <3>2. Waiting(list, ticket) = SubSeq(list, n+1, Len(list))
      BY <1>1, <1>3, <2>2, WaitingAre
    <3> QED
      BY <3>1, <3>2
  <2> QED
    BY <1>3, <2>1, <2>2
<1>6. Running(list', ticket') = Running(list, ticket)
  BY DEF Running
<1> QED
  BY <1>4, <1>5, <1>6 DEF StartedFirst

LEMMA ElementsOnce ==
    ASSUME TypeOK, CellsListedOnce
    PROVE  \A i, j \in 1..Len(list) : list[i] = list[j] => i = j
  BY DEF CellsListedOnce

(* JobPool counts as SencBuild does.                                       *)
LEMMA PoolCardinality ==
    ASSUME NEW S
    PROVE  Pool!Cardinality(S) = Cardinality(S)
  BY DEF Pool!Cardinality, Cardinality

(* A ticket that is listed and not refused is submitted.                   *)
LEMMA PoolSubmit ==
    ASSUME IInv, NoIdleSlot, StartedFirst, NEW c \in Charts, OpenChart(c),
           senc[PathOf[c]] # "current", ~AlreadyListed(c)
    PROVE  StartedFirst' /\ Pool!Submit(c)
<1> USE SencAssumption
<1> DEFINE tk == [ticket EXCEPT ![c] = "pending"]
           L == Len(list)
<1>1. list' = Append(list, c) /\ StartTopJob(list', tk)
  BY DEF OpenChart, FindOrCreateSenc, BuildSENCFile, ScheduleJob
<1>2. /\ list' \in Seq(Charts) /\ Len(list') = L + 1 /\ L \in Nat
      /\ \A i \in 1..(L + 1) : list'[i] = IF i =< L THEN list[i] ELSE c
      /\ list \in Seq(Charts)
  BY <1>1, AppendElements DEF IInv, TypeOK
<1>3. /\ c \notin Range(list) /\ \A k \in 1..L : list[k] \in Range(list)
      /\ ticket \in [Charts -> TicketLife] /\ Range(list) \subseteq Charts
      /\ \A d \in Charts : d \in Range(list) => \E k \in 1..L : list[k] = d
  BY EventTickets DEF OpenChart, IInv, NothingEarly, TypeOK, Range
<1>4. PICK n \in Nat : StartedUpTo(list, ticket, n)
  BY DEF StartedFirst
<1>5. tk[c] = "pending" /\ \A d \in Range(list) : tk[d] = ticket[d]
  BY <1>3
<1>6. ticket' = [d \in Charts |-> IF d \in TopJob(list', tk) THEN "started" ELSE tk[d]]
  BY <1>1 DEF StartTopJob
<1> HIDE DEF tk
<1>7. StartedUpTo(list', tk, n)
  <2>1. n \in 0..L
    BY <1>4 DEF StartedUpTo
  <2>2. \A k \in 1..L : list'[k] = list[k] /\ tk[list[k]] = ticket[list[k]]
    BY <1>2, <1>3, <1>5
  <2>3. \A k \in 1..n : tk[list'[k]] = "started"
    BY <1>2, <1>4, <2>1, <2>2 DEF StartedUpTo
  <2>4. \A k \in (n+1)..Len(list') : tk[list'[k]] = "pending"
    <3> SUFFICES ASSUME NEW k \in (n+1)..(L+1) PROVE tk[list'[k]] = "pending"
      BY <1>2
    <3>1. CASE k = L + 1
      BY <1>2, <1>5, <3>1
    <3>2. CASE k # L + 1
      <4>1. k \in (n+1)..L /\ k \in 1..L
        BY <1>2, <2>1, <3>2
      <4> QED
        BY <1>4, <2>2, <4>1 DEF StartedUpTo
    <3> QED
      BY <3>1, <3>2
  <2> QED
    BY <1>2, <2>1, <2>3, <2>4 DEF StartedUpTo
<1>8. \A d \in Charts : d \in Range(list') <=> d \in Range(list) \/ d = c
  <2>1. ASSUME NEW d \in Charts, d \in Range(list') PROVE d \in Range(list) \/ d = c
    BY <1>2, <1>3, <2>1 DEF Range
  <2>2. ASSUME NEW d \in Charts, d \in Range(list) PROVE d \in Range(list')
    <3>1. PICK k \in 1..L : list[k] = d
      BY <1>3, <2>2
    <3>2. k \in 1..Len(list') /\ list'[k] = d
      BY <1>2, <3>1
    <3> QED
      BY <1>2, <3>2 DEF Range
  <2>3. c \in Range(list')
    <3>1. L + 1 \in 1..Len(list') /\ list'[L + 1] = c
      BY <1>2
    <3> QED
      BY <1>2, <3>1 DEF Range
  <2> QED
    BY <2>1, <2>2, <2>3
<1>9. Running(list', tk) = Running(list, ticket) /\ Range(list') \subseteq Charts
  <2>1. Range(list') \subseteq Charts
    BY <1>2 DEF Range
  <2> QED
    BY <1>3, <1>5, <1>8, <2>1 DEF Running
<1>10. /\ c \notin Running(list, ticket)
       /\ \A k \in 1..Len(Waiting(list, ticket)) : Waiting(list, ticket)[k] # c
  <2>1. c \notin Running(list, ticket)
    BY <1>3 DEF Running
  <2>2. CASE n = L
    <3>1. Waiting(list, ticket) = <<>>
      BY <1>2, <1>4, <2>2, WaitingAre
    <3> QED
      BY <2>1, <3>1
  <2>3. CASE n < L
    <3>1. Waiting(list, ticket) = SubSeq(list, n+1, L)
      BY <1>2, <1>4, <2>3, WaitingAre
    <3>2. \A k \in 1..(L - n) : SubSeq(list, n+1, L)[k] = list[n + k] /\ n + k \in 1..L
      BY <1>2, <2>3
    <3>3. Len(SubSeq(list, n+1, L)) = L - n
      BY <1>2, <2>3
    <3> QED
      BY <1>3, <2>1, <3>1, <3>2, <3>3
  <2> QED
    BY <1>2, <1>4, <2>1, <2>2, <2>3 DEF StartedUpTo
<1>c. Pool!Cardinality(Running(list, ticket)) = Cardinality(Running(list, ticket))
  BY PoolCardinality
<1>11. CASE Cardinality(Running(list, ticket)) < MaxJobs
  <2>1. \A d \in Range(list) : ticket[d] # "pending"
    BY <1>11 DEF NoIdleSlot
  <2>2. n = L
    <3>1. n < L => n + 1 \in 1..L /\ ticket[list[n+1]] = "pending"
      BY <1>2, <1>4 DEF StartedUpTo
    <3> QED
      BY <1>2, <1>3, <1>4, <2>1, <3>1 DEF StartedUpTo
  <2>3. TopJob(list', tk) = {c}
    <3>1. FirstPending(list', tk) = {list'[n+1]}
      BY <1>2, <1>7, <2>2, FirstPendingIs
    <3> QED
      BY <1>2, <1>9, <1>11, <2>2, <3>1 DEF TopJob
  <2>4. ticket'[c] = "started" /\ \A d \in Range(list) : ticket'[d] = ticket[d]
    BY <1>3, <1>5, <1>6, <2>3
  <2>5. StartedUpTo(list', ticket', L + 1)
    BY <1>2, <1>3, <1>4, <2>2, <2>4 DEF StartedUpTo
  <2>6. Waiting(list', ticket') = <<>> /\ Waiting(list, ticket) = <<>>
    BY <1>2, <1>4, <2>2, <2>5, WaitingAre
  <2>7. Running(list', ticket') = Running(list, ticket) \union {c}
    BY <1>8, <1>9, <2>4 DEF Running
  <2>8. StartedFirst'
    BY <1>2, <2>5 DEF StartedFirst
  <2> QED
    BY <1>c, <1>10, <1>11, <2>6, <2>7, <2>8 DEF Pool!Submit
<1>12. CASE ~(Cardinality(Running(list, ticket)) < MaxJobs)
  <2>1. TopJob(list', tk) = {}
    BY <1>9, <1>12 DEF TopJob
  <2>2. \A d \in Charts : ticket'[d] = tk[d]
    BY <1>6, <2>1
  <2>3. Running(list', ticket') = Running(list, ticket)
    BY <1>9, <2>2 DEF Running
  <2>4. StartedUpTo(list', ticket', n)
    <3>1. \A k \in 1..Len(list') : list'[k] \in Charts
      BY <1>2
    <3> QED
      BY <1>2, <1>7, <2>2, <3>1 DEF StartedUpTo
  <2>5. Waiting(list', ticket') = SubSeq(list', n+1, L+1)
    <3>1. n < L + 1
      BY <1>2, <1>4 DEF StartedUpTo
    <3> QED
      BY <1>2, <2>4, <3>1, WaitingAre
  <2>6. Waiting(list', ticket') = Append(Waiting(list, ticket), c)
    <3>1. CASE n = L
      <4>1. Waiting(list, ticket) = <<>>
        BY <1>2, <1>4, <3>1, WaitingAre
      <4>2. SubSeq(list', L+1, L+1) = Append(<<>>, c)
        <5> DEFINE s == SubSeq(list', L+1, L+1)
        <5>1. s \in Seq(Charts) /\ Len(s) = 1 /\ s[1] = c
          BY <1>2
        <5>2. /\ Append(<<>>, c) \in Seq(Charts) /\ Len(Append(<<>>, c)) = 1
              /\ Append(<<>>, c)[1] = c
          OBVIOUS
        <5> HIDE DEF s
        <5>3. \A k \in 1..Len(s) : s[k] = Append(<<>>, c)[k]
          BY <5>1, <5>2
        <5>4. s = Append(<<>>, c)
          BY <5>1, <5>2, <5>3, SeqEqual
        <5> QED
          BY <5>4 DEF s
      <4> QED
        BY <2>5, <3>1, <4>1, <4>2
    <3>2. CASE n < L
      <4> DEFINE s == SubSeq(list', n+1, L+1)
                 w == SubSeq(list, n+1, L)
      <4>1. Waiting(list, ticket) = w
        BY <1>2, <1>4, <3>2, WaitingAre
      <4>2. /\ w \in Seq(Charts) /\ Len(w) = L - n
            /\ \A k \in 1..(L - n) : w[k] = list[n + k]
        BY <1>2, <3>2
      <4>3. /\ s \in Seq(Charts) /\ Len(s) = L - n + 1
            /\ \A k \in 1..(L - n + 1) : s[k] = list'[n + k]
        BY <1>2, <3>2
      <4> HIDE DEF s, w
      <4>4. /\ Append(w, c) \in Seq(Charts) /\ Len(Append(w, c)) = L - n + 1
            /\ \A k \in 1..(L - n + 1) :
                  Append(w, c)[k] = IF k =< L - n THEN w[k] ELSE c
        <5>1. /\ Append(w, c) \in Seq(Charts) /\ Len(Append(w, c)) = Len(w) + 1
              /\ \A k \in 1..(Len(w) + 1) :
                    Append(w, c)[k] = IF k =< Len(w) THEN w[k] ELSE c
          BY <4>2, AppendElements
        <5> QED
          BY <4>2, <5>1
      <4>5. \A k \in 1..(L - n + 1) : s[k] = Append(w, c)[k]
        <5> SUFFICES ASSUME NEW k \in 1..(L - n + 1) PROVE s[k] = Append(w, c)[k]
          OBVIOUS
        <5>1. s[k] = list'[n + k] /\ n + k \in 1..(L + 1)
          BY <1>2, <3>2, <4>3
        <5>2. CASE k =< L - n
          BY <1>2, <3>2, <4>2, <4>4, <5>1, <5>2
        <5>3. CASE ~(k =< L - n)
          <6>1. n + k = L + 1
            BY <1>2, <3>2, <5>3
          <6> QED
            BY <1>2, <4>4, <5>1, <5>3, <6>1
        <5> QED
          BY <5>2, <5>3
      <4>6. s = Append(w, c)
        BY <1>2, <3>2, <4>3, <4>4, <4>5, SeqEqual
      <4> QED
        BY <2>5, <4>1, <4>6 DEF s
    <3> QED
      BY <1>2, <1>4, <3>1, <3>2 DEF StartedUpTo
  <2>7. StartedFirst'
    BY <2>4 DEF StartedFirst
  <2> QED
    BY <1>c, <1>10, <1>12, <2>3, <2>6, <2>7 DEF Pool!Submit
<1> QED
  BY <1>11, <1>12

(* The ticket of a DONE event that is not listed has no effect.            *)
LEMMA PoolDoneUnlisted ==
    ASSUME IInv, NoIdleSlot, StartedFirst, NEW t \in Charts,
           t \notin Range(list), FinishJob(t), StartTopJob(list', ticket)
    PROVE  /\ StartedFirst'
           /\ Waiting(list, ticket)' = Waiting(list, ticket)
           /\ Running(list, ticket)' = Running(list, ticket)
<1>1. list' = list
  BY DEF FinishJob
<1>2. TopJob(list, ticket) = {}
  <2>1. ASSUME NEW c \in FirstPending(list, ticket), Cardinality(Running(list, ticket)) < MaxJobs
        PROVE  FALSE
    <3>1. PICK k \in 1..Len(list) : list[k] = c /\ ticket[c] = "pending"
      BY <2>1 DEF FirstPending
    <3>2. c \in Range(list)
      BY <3>1 DEF Range, IInv, TypeOK
    <3>3. Cardinality(Running(list, ticket)) = MaxJobs
      BY <3>1, <3>2 DEF NoIdleSlot
    <3> QED
      BY <2>1, <3>3, SencAssumption
  <2> QED
    BY <2>1 DEF TopJob
<1>3. \A c \in Range(list) : ticket'[c] = ticket[c]
  <2>1. ticket' = [c \in Charts |-> ticket[c]]
    BY <1>1, <1>2 DEF StartTopJob
  <2> QED
    BY <2>1, EventTickets DEF IInv
<1> QED
  BY <1>1, <1>3, PoolUnchanged DEF IInv

(* The ticket of a DONE event that is listed gives its slot to the first   *)
(* that waits.                                                             *)
LEMMA PoolComplete ==
    ASSUME IInv, NoIdleSlot, StartedFirst, NEW t \in Charts, ticket[t] = "started",
           t \in Range(list), FinishJob(t), StartTopJob(list', ticket)
    PROVE  StartedFirst' /\ Pool!Complete(t)
<1> USE SencAssumption
<1> DEFINE L == Len(list)
           R == Running(list, ticket)
<1>1. PICK k \in 1..L : list[k] = t /\ list' = RemoveAt(list, k)
  BY DEF FinishJob
<1>2. /\ list \in Seq(Charts) /\ L \in Nat /\ Range(list) \subseteq Charts
      /\ list' \in Seq(Charts) /\ Len(list') = L - 1
      /\ \A i \in 1..(L - 1) : list'[i] = IF i < k THEN list[i] ELSE list[i+1]
  <2>1. list \in Seq(Charts) /\ L \in Nat /\ Range(list) \subseteq Charts
    BY EventTickets DEF IInv, TypeOK
  <2> QED
    BY <1>1, <2>1, RemoveAtElements
<1>3. PICK n \in Nat : StartedUpTo(list, ticket, n)
  BY DEF StartedFirst
<1>4. k \in 1..n /\ n \in 1..L
  BY <1>1, <1>2, <1>3 DEF StartedUpTo
<1>5. \A c \in Charts : c \in Range(list') <=> c \in Range(list) /\ c # t
  BY FinishJobRemoves DEF IInv
<1>6. Running(list', ticket) = R \ {t} /\ t \in R /\ Range(list') \subseteq Charts
  <2>1. Range(list') \subseteq Charts
    BY <1>2 DEF Range
  <2> QED
    BY <1>2, <1>5, <2>1 DEF Running
<1>7. /\ Cardinality(R) \in Nat /\ Cardinality(R) =< MaxJobs
      /\ Cardinality(R \ {t}) = Cardinality(R) - 1
  <2>1. IsFiniteSet(R)
    BY <1>2, FS_Subset DEF Running
  <2> HIDE DEF R
  <2>2. Cardinality(R) \in Nat /\ Cardinality(R \ {t}) = Cardinality(R) - 1
    BY <1>6, <2>1, FS_CardinalityType, FS_RemoveElement
  <2> QED
    BY <2>2 DEF IInv, SlotsBounded, R
<1>8. StartedUpTo(list', ticket, n - 1)
  <2>1. n - 1 \in 0..Len(list')
    BY <1>2, <1>4
  <2>2. ASSUME NEW i \in 1..(n-1) PROVE ticket[list'[i]] = "started"
    <3>1. /\ i \in 1..(L-1) /\ i \in 1..n /\ i + 1 \in 1..n
      BY <1>2, <1>4
    <3> QED
      BY <1>2, <1>3, <3>1 DEF StartedUpTo
  <2>3. ASSUME NEW i \in n..(L-1) PROVE ticket[list'[i]] = "pending"
    <3>1. i \in 1..(L-1) /\ ~(i < k) /\ i + 1 \in (n+1)..L
      BY <1>2, <1>4
    <3> QED
      BY <1>2, <1>3, <3>1 DEF StartedUpTo
  <2> QED
    BY <1>2, <1>4, <2>1, <2>2, <2>3 DEF StartedUpTo
<1>9. ticket' = [c \in Charts |-> IF c \in TopJob(list', ticket) THEN "started" ELSE ticket[c]]
  BY DEF StartTopJob
<1>10. Cardinality(Running(list', ticket)) < MaxJobs
  BY <1>6, <1>7
<1>11. CASE n = L
  <2>1. TopJob(list', ticket) = {}
    <3>1. FirstPending(list', ticket) = {}
      BY <1>2, <1>4, <1>8, <1>11, FirstPendingIs
    <3> QED
      BY <3>1 DEF TopJob
  <2>2. \A c \in Charts : ticket'[c] = ticket[c]
    BY <1>9, <2>1
  <2>3. StartedUpTo(list', ticket', n - 1)
    <3>1. \A i \in 1..Len(list') : list'[i] \in Charts
      BY <1>2
    <3> QED
      BY <1>2, <1>4, <1>8, <2>2, <3>1 DEF StartedUpTo
  <2>4. Waiting(list, ticket) = <<>>
    BY <1>2, <1>3, <1>11, WaitingAre
  <2>5. Waiting(list', ticket') = <<>>
    BY <1>2, <1>4, <1>11, <2>3, WaitingAre
  <2>6. Running(list', ticket') = R \ {t}
    <3>1. Running(list', ticket') = Running(list', ticket)
      BY <1>6, <2>2 DEF Running
    <3> QED
      BY <1>6, <3>1
  <2>7. StartedFirst'
    BY <1>4, <2>3 DEF StartedFirst
  <2> QED
    BY <1>6, <2>4, <2>5, <2>6, <2>7 DEF Pool!Complete
<1>12. CASE n < L
  <2> DEFINE h == list[n+1]
  <2>1. TopJob(list', ticket) = {h} /\ h \in Charts
    <3>1. n - 1 < Len(list') /\ n - 1 \in Nat /\ (n - 1) + 1 = n
      BY <1>2, <1>4, <1>12
    <3>2. FirstPending(list', ticket) = {list'[(n - 1) + 1]}
      BY <1>2, <1>8, <3>1, FirstPendingIs
    <3>3. list'[n] = h /\ h \in Charts
      <4>1. n \in 1..(L-1) /\ ~(n < k) /\ n + 1 \in 1..L
        BY <1>2, <1>4, <1>12
      <4> QED
        BY <1>2, <4>1
    <3> QED
      BY <1>10, <3>1, <3>2, <3>3 DEF TopJob
  <2>2. /\ ticket'[h] = "started" /\ \A c \in Charts : c # h => ticket'[c] = ticket[c]
    BY <1>9, <2>1
  <2>3. \A i \in 1..(L-1) : list'[i] = h => i = n
    <3> SUFFICES ASSUME NEW i \in 1..(L-1), list'[i] = h PROVE i = n
      OBVIOUS
    <3>1. \A a, b \in 1..L : list[a] = list[b] => a = b
      BY ElementsOnce DEF IInv
    <3>2. n + 1 \in 1..L
      BY <1>2, <1>12
    <3>3. CASE i < k
      <4>1. i \in 1..L /\ list[i] = list[n+1]
        BY <1>2, <3>3
      <4>2. i = n + 1
        BY <3>1, <3>2, <4>1
      <4> QED
        BY <1>2, <1>4, <3>3, <4>2
    <3>4. CASE ~(i < k)
      <4>1. i + 1 \in 1..L /\ list[i+1] = list[n+1]
        BY <1>2, <3>4
      <4>2. i + 1 = n + 1
        BY <3>1, <3>2, <4>1
      <4> QED
        BY <1>2, <1>4, <4>2
    <3> QED
      BY <3>3, <3>4
  <2>4. list'[n] = h
    <3>1. n \in 1..(L-1) /\ ~(n < k)
      BY <1>2, <1>4, <1>12
    <3> QED
      BY <1>2, <3>1
  <2>5. StartedUpTo(list', ticket', n)
    <3>1. n \in 0..Len(list')
      BY <1>2, <1>4, <1>12
    <3>2. ASSUME NEW i \in 1..n PROVE ticket'[list'[i]] = "started"
      <4>1. i \in 1..(L-1) /\ list'[i] \in Charts
        BY <1>2, <1>4, <1>12
      <4>2. CASE i = n
        BY <2>2, <2>4, <4>2
      <4>3. CASE i # n
        <5>1. i \in 1..(n-1) /\ list'[i] # h
          BY <1>4, <2>3, <4>1, <4>3
        <5>2. ticket[list'[i]] = "started"
          BY <1>8, <5>1 DEF StartedUpTo
        <5> QED
          BY <2>2, <4>1, <5>1, <5>2
      <4> QED
        BY <4>2, <4>3
    <3>3. ASSUME NEW i \in (n+1)..(L-1) PROVE ticket'[list'[i]] = "pending"
      <4>1. i \in 1..(L-1) /\ list'[i] \in Charts /\ i # n /\ i \in ((n-1)+1)..(L-1)
        BY <1>2, <1>4
      <4>2. list'[i] # h
        BY <2>3, <4>1
      <4>3. ticket[list'[i]] = "pending"
        BY <1>2, <1>8, <4>1 DEF StartedUpTo
      <4> QED
        BY <2>2, <4>1, <4>2, <4>3
    <3> QED
      BY <1>2, <3>1, <3>2, <3>3 DEF StartedUpTo
  <2> DEFINE w == SubSeq(list, n+1, L)
  <2>6. Waiting(list, ticket) = w
    BY <1>2, <1>3, <1>12, WaitingAre
  <2>7. /\ w \in Seq(Charts) /\ Len(w) = L - n /\ Len(w) > 0
        /\ \A i \in 1..(L - n) : w[i] = list[n + i]
    BY <1>2, <1>4, <1>12
  <2>8. w # <<>> /\ Head(w) = h
    <3>1. w # <<>> /\ Head(w) = w[1]
      BY <2>7
    <3> QED
      BY <1>2, <1>12, <2>7, <3>1
  <2>9. Waiting(list', ticket') = Tail(w)
    <3> DEFINE v == SubSeq(list', n+1, L-1)
    <3>1. CASE n = L - 1
      <4>1. Waiting(list', ticket') = <<>>
        BY <1>2, <2>5, <3>1, WaitingAre
      <4>2. Len(w) = 1
        BY <1>2, <2>7, <3>1
      <4> HIDE DEF w
      <4>3. Tail(w) \in Seq(Charts) /\ Len(Tail(w)) = 0
        BY <2>7, <2>8, <4>2, TailElements
      <4>4. Tail(w) = <<>>
        <5> DEFINE r == Tail(w)
        <5>1. r \in Seq(Charts) /\ Len(r) = 0
          BY <4>3
        <5> HIDE DEF r
        <5>2. r = <<>>
          BY <5>1
        <5> QED
          BY <5>2 DEF r
      <4> QED
        BY <4>1, <4>4
    <3>2. CASE n < L - 1
      <4>1. Waiting(list', ticket') = v
        BY <1>2, <2>5, <3>2, WaitingAre
      <4>2. /\ v \in Seq(Charts) /\ Len(v) = L - 1 - n
            /\ \A i \in 1..(L - 1 - n) : v[i] = list'[n + i]
        BY <1>2, <3>2
      <4>3. \A i \in 1..(L - 1 - n) : list'[n + i] = list[n + i + 1]
        <5> SUFFICES ASSUME NEW i \in 1..(L - 1 - n) PROVE list'[n + i] = list[n + i + 1]
          OBVIOUS
        <5>1. n + i \in 1..(L - 1) /\ ~(n + i < k)
          BY <1>2, <1>4, <3>2
        <5> QED
          BY <1>2, <5>1
      <4> HIDE DEF w, v
      <4>4. /\ Tail(w) \in Seq(Charts) /\ Len(Tail(w)) = Len(w) - 1
            /\ \A i \in 1..(Len(w) - 1) : Tail(w)[i] = w[i+1]
        BY <2>7, <2>8, TailElements
      <4>5. \A i \in 1..Len(v) : v[i] = Tail(w)[i]
        <5> SUFFICES ASSUME NEW i \in 1..(L - 1 - n) PROVE v[i] = Tail(w)[i]
          BY <4>2
        <5>1. i \in 1..(Len(w) - 1) /\ i + 1 \in 1..(L - n) /\ n + (i + 1) = n + i + 1
          BY <1>2, <1>4, <2>7
        <5> QED
          BY <2>7, <4>2, <4>3, <4>4, <5>1
      <4>6. Len(v) = Len(Tail(w))
        <5>1. Len(w) = L - n /\ Len(Tail(w)) = Len(w) - 1 /\ Len(v) = L - 1 - n
          BY <2>7, <4>2, <4>4
        <5> QED
          BY <1>2, <5>1
      <4>7. v = Tail(w)
        BY <4>2, <4>4, <4>5, <4>6, SeqEqual
      <4> QED
        BY <4>1, <4>7 DEF v
    <3> QED
      BY <1>2, <1>4, <1>12, <3>1, <3>2
  <2>10. Running(list', ticket') = (R \ {t}) \union {h}
    <3>1. h \in Range(list')
      <4>1. n \in 1..Len(list')
        BY <1>2, <1>4, <1>12
      <4> QED
        BY <1>2, <2>4, <4>1 DEF Range
    <3>2. Running(list', ticket') = Running(list', ticket) \union {h}
      BY <1>6, <2>1, <2>2, <3>1 DEF Running
    <3> QED
      BY <1>6, <3>2
  <2>11. StartedFirst'
    BY <2>5 DEF StartedFirst
  <2> HIDE DEF w, h, R
  <2> QED
    BY <1>6, <2>6, <2>8, <2>9, <2>10, <2>11 DEF Pool!Complete, R
<1> QED
  BY <1>2, <1>4, <1>11, <1>12

(* Every step submits a job, completes one, or leaves the pool alone.      *)
LEMMA PoolStep ==
    ASSUME IInv, NoIdleSlot, StartedFirst, [Next]_vars
    PROVE  StartedFirst' /\ [Pool!Next]_(Pool!poolVars)
<1> USE SencAssumption
<1>t. TypeOK /\ Range(list) \subseteq Charts
  BY EventTickets DEF IInv
<1>0. ASSUME list' = list, \A c \in Range(list) : ticket'[c] = ticket[c]
      PROVE  StartedFirst' /\ UNCHANGED Pool!poolVars
  BY <1>0, <1>t, PoolUnchanged DEF Pool!poolVars
<1>1. ASSUME OnEvtThreadDone PROVE StartedFirst' /\ [Pool!Next]_(Pool!poolVars)
  <2> DEFINE t == mgrQ[1].ticket
  <2>1. Len(mgrQ) \in Nat \ {0} /\ Head(mgrQ) = mgrQ[1] /\ mgrQ[1] \in Event
    BY <1>1, TailElements DEF OnEvtThreadDone, IInv, TypeOK
  <2>2. t \in Charts /\ FinishJob(t) /\ StartTopJob(list', ticket) /\ ticket[t] = "started"
    BY <1>1, <2>1 DEF OnEvtThreadDone, Event, IInv, ManagerEvents
  <2> HIDE DEF t
  <2>3. CASE t \in Range(list)
    <3>1. StartedFirst' /\ Pool!Complete(t)
      BY <2>2, <2>3, PoolComplete
    <3> QED
      BY <2>2, <3>1 DEF Pool!Next
  <2>4. CASE t \notin Range(list)
    BY <2>2, <2>4, PoolDoneUnlisted DEF Pool!poolVars
  <2> QED
    BY <2>3, <2>4
<1>2. ASSUME NEW c \in Charts, OpenChart(c)
      PROVE  StartedFirst' /\ [Pool!Next]_(Pool!poolVars)
  <2>1. CASE senc[PathOf[c]] = "current"
    BY <1>0, <1>2, <2>1 DEF OpenChart, FindOrCreateSenc
  <2>2. CASE senc[PathOf[c]] # "current" /\ AlreadyListed(c)
    <3>1. ticket' = [ticket EXCEPT ![c] = "refused"] /\ list' = list
      BY <1>2, <2>2 DEF OpenChart, FindOrCreateSenc, BuildSENCFile, ScheduleJob
    <3>2. c \notin Range(list)
      BY <1>2 DEF OpenChart, IInv, NothingEarly
    <3>3. \A d \in Range(list) : ticket'[d] = ticket[d]
      BY <1>t, <3>1, <3>2 DEF TypeOK
    <3> QED
      BY <1>0, <3>1, <3>3
  <2>3. CASE senc[PathOf[c]] # "current" /\ ~AlreadyListed(c)
    <3>1. StartedFirst' /\ Pool!Submit(c)
      BY <1>2, <2>3, PoolSubmit
    <3> QED
      BY <3>1 DEF Pool!Next
  <2> QED
    BY <2>1, <2>2, <2>3
<1>3. ASSUME ReloadReturns PROVE StartedFirst' /\ [Pool!Next]_(Pool!poolVars)
  <2>1. reloading \notin Range(list) /\ reloading \in Charts
    BY <1>3 DEF IInv, TypeOK, ReloadingLast, ReloadReturns
  <2>2. list' = list /\ \A d \in Range(list) : ticket'[d] = ticket[d]
    BY <1>3, <1>t, <2>1 DEF TypeOK, ReloadReturns
  <2> QED
    BY <1>0, <2>2
<1>4. ASSUME UNCHANGED <<list, ticket>>
      PROVE  StartedFirst' /\ [Pool!Next]_(Pool!poolVars)
  BY <1>0, <1>4
<1>5. ASSUME NEW c \in Charts, CloseChart(c) \/ Worker(c) PROVE UNCHANGED <<list, ticket>>
  BY <1>5 DEF CloseChart, Worker, EntryStart, BuildReturns, EntryDone, EntryThrows
<1>6. ASSUME NEW b \in Builders, Building(b) PROVE UNCHANGED <<list, ticket>>
  BY <1>6 DEF Building, AcquireLock, Tessellate, TessellationDone
<1>7. ASSUME MainLoop, ~OnEvtThreadDone, ~ReloadReturns PROVE UNCHANGED <<list, ticket>>
  BY <1>7 DEF MainLoop, OnEvtThreadStarted, OnSENCEvtIgnored, OnSENCEvtDone,
              ParseNext, ParseReturns
<1>8. ASSUME Quiescent \/ UNCHANGED vars PROVE UNCHANGED <<list, ticket>>
  BY <1>8 DEF Quiescent, vars
<1> QED
  BY <1>1, <1>2, <1>3, <1>4, <1>5, <1>6, <1>7, <1>8 DEF Next

(* The ticket list with its threads is a pool of m_max_jobs slots: jobs    *)
(* start in the order of the requests, one that ends gives its slot to the *)
(* oldest that waits, and none waits beside a free slot.                   *)
THEOREM PoolImplemented == Spec => ImplementsJobPool
<1>1. Init => StartedFirst /\ Pool!Init
  <2> SUFFICES ASSUME Init PROVE StartedFirst /\ Pool!Init
    OBVIOUS
  <2>1. list = <<>> /\ Len(list) = 0 /\ list \in Seq(Charts)
    BY DEF Init
  <2>2. StartedUpTo(list, ticket, 0)
    BY <2>1 DEF StartedUpTo
  <2>3. Waiting(list, ticket) = <<>>
    BY <2>1, <2>2, WaitingAre
  <2>4. Running(list, ticket) = {}
    BY <2>1 DEF Running, Range
  <2> QED
    BY <2>2, <2>3, <2>4 DEF StartedFirst, Pool!Init
<1>2. IInv /\ NoIdleSlot /\ StartedFirst /\ [Next]_vars
         => StartedFirst' /\ [Pool!Next]_(Pool!poolVars)
  BY PoolStep
<1> QED
  BY <1>1, <1>2, Invariance, NoSlotWasted, PTL DEF Spec, ImplementsJobPool, Pool!Spec
=============================================================================
