--------------------------- MODULE AisAlertProofs ---------------------------
(***************************************************************************)
(* What AisAlert promises for any ships and transmitters: its types, that  *)
(* no list entry leads to a deleted target, that a call for help stands,   *)
(* and that an acknowledgement ends with its alert.  The last three need   *)
(* that one habit each does not occur.                                     *)
(***************************************************************************)
EXTENDS AisAlert, TLAPS

(* No extension is about another vessel than the pending call.             *)
Unmixed == "mixed" \notin Habits

(* No option takes targets out of the alerts.                              *)
Unskipped == "skip" \notin Habits

(* At most one sound is under way, and only while m_bAIS_AlertPlaying is   *)
(* set: about to be played, playing, or ended and not yet heard of.        *)
OneSound ==
  /\ main = "play" => playing /\ ~sounding /\ finished = 0
  /\ sounding => playing /\ main = "idle" /\ finished = 0
  /\ finished > 0 => playing

(* An object that calls for help is alive, is the target of a ship, alerts *)
(* and has not been acknowledged.                                          *)
CallsUnanswered ==
  \A o \in Mmsis : tgt[o].dsc =>
    /\ tgt[o].life = "live" /\ tgt[o].mmsi \in Ships
    /\ tgt[o].class = "dsc" /\ tgt[o].threat = "yes" /\ tgt[o].ack = "no"

NoneFar == \A o \in Mmsis : tgt[o].threat # "far"

-----------------------------------------------------------------------------
(* Objects. *)

(* An object found for a new target is one of the pool, and no list entry  *)
(* leads to it.                                                            *)
LEMMA NewIsFresh ==
  ASSUME NEW m \in Mmsis, m \notin Listed, CanStore(m)
  PROVE  New(m) \in Mmsis /\ Fresh(New(m))
<1>1. CASE Fresh(m)
  BY <1>1 DEF New
<1>2. CASE ~Fresh(m)
  <2>1. \E o \in Mmsis : Fresh(o)
    BY DEF CanStore
  <2> QED
    BY <1>2, <2>1 DEF New
<1> QED
  BY <1>1, <1>2

LEMMA BlankType == Blank \in Target
BY DEF Blank, Target

(* UpdateAllAlarms changes the alert and the acknowledgement of a target.  *)
LEMMA AlarmType ==
  ASSUME NEW t \in Target
  PROVE  /\ Alarm(t) \in Target
         /\ Alarm(t).life = t.life /\ Alarm(t).mmsi = t.mmsi
         /\ Alarm(t).class = t.class /\ Alarm(t).dsc = t.dsc
         /\ Alarm(t).active = t.active /\ Alarm(t).threat = t.threat
BY DEF Alarm, Target

(* What a tick makes of a target that is not deleted.                      *)
Aged(t) == Alarm(IF t.age > 0 THEN [t EXCEPT !.active = FALSE] ELSE t)

LEMMA AgedType ==
  ASSUME NEW t \in Target
  PROVE  /\ Aged(t) \in Target
         /\ Aged(t).life = t.life /\ Aged(t).mmsi = t.mmsi
         /\ Aged(t).class = t.class /\ Aged(t).dsc = t.dsc
         /\ Aged(t).threat = t.threat
<1> DEFINE u == IF t.age > 0 THEN [t EXCEPT !.active = FALSE] ELSE t
<1>1. /\ u \in Target
      /\ u.life = t.life /\ u.mmsi = t.mmsi /\ u.class = t.class
      /\ u.dsc = t.dsc /\ u.threat = t.threat
  BY DEF Target
<1> HIDE DEF u
<1>2. /\ Alarm(u) \in Target
      /\ Alarm(u).life = u.life /\ Alarm(u).mmsi = u.mmsi
      /\ Alarm(u).class = u.class /\ Alarm(u).dsc = u.dsc
      /\ Alarm(u).active = u.active /\ Alarm(u).threat = u.threat
  BY <1>1, AlarmType
<1>3. Aged(t) = Alarm(u)
  BY DEF Aged, u
<1> QED
  BY <1>1, <1>2, <1>3

LEMMA ReopenType ==
  ASSUME NEW t \in Target
  PROVE  /\ Reopen(t) \in Target
         /\ Reopen(t).life = t.life /\ Reopen(t).mmsi = t.mmsi
         /\ Reopen(t).class = t.class /\ Reopen(t).threat = t.threat
         /\ Reopen(t).alert = t.alert /\ Reopen(t).ack = t.ack
         /\ Reopen(t).dsc => t.dsc
BY DEF Reopen, Target

(* What a tick makes of an object.                                         *)
LEMMA UpdatedType ==
  ASSUME NEW o \in Mmsis, tgt[o] \in Target
  PROVE  /\ Updated(o) \in Target
         /\ \/ o \in Deleted /\ Updated(o) = Blank
            \/ (\A m \in Mmsis : NewList[m] # o) /\ Updated(o) = tgt[o]
            \/ o \notin Deleted
               /\ Updated(o) \in {Aged(tgt[o]), Reopen(Aged(tgt[o]))}
<1>1. Aged(tgt[o]) \in Target
  BY AgedType
<1>2. Reopen(Aged(tgt[o])) \in Target
  BY <1>1, ReopenType
<1> QED
  BY <1>1, <1>2, BlankType DEF Updated, Aged

(* The list after a tick.                                                  *)
LEMMA NewListType ==
  ASSUME list \in [Mmsis -> Mmsis \cup {NONE}]
  PROVE  /\ NewList \in [Mmsis -> Mmsis \cup {NONE}]
         /\ \A m \in Mmsis : NewList[m] # NONE =>
              m \notin Expired /\ m \in Listed /\ NewList[m] = list[m]
BY DEF NewList, Listed

-----------------------------------------------------------------------------
(* The types, and the sound. *)

IInv == TypeOK /\ OneSound

(* The sound part of the types.                                            *)
SoundType ==
  /\ playing \in BOOLEAN /\ onFinished \in BOOLEAN /\ sounding \in BOOLEAN
  /\ tails \in 0 .. MaxTails /\ finished \in 0 .. 1
  /\ main \in {"idle", "play"}

LEMMA SoundStep ==
  ASSUME SoundType, OneSound, main = "idle", NEW on, Sound(on)
  PROVE  SoundType' /\ OneSound'
<1>1. CASE on /\ ~playing
  BY <1>1 DEF Sound, SoundType, OneSound
<1>2. CASE ~(on /\ ~playing)
  BY <1>2 DEF Sound, SoundType, OneSound, soundVars
<1> QED
  BY <1>1, <1>2

(* Putting a target under a key, as an object found under m or a new one.  *)
LEMMA StoreType ==
  ASSUME TypeOK, NEW m \in Mmsis, CanStore(m)
  PROVE  (IF m \in Listed THEN list[m] ELSE New(m)) \in Mmsis
BY NewIsFresh DEF TypeOK, Listed

LEMMA CalledType == \A call \in Ships : Called(call) \in Target
<1> SUFFICES ASSUME NEW call \in Ships PROVE Called(call) \in Target
  OBVIOUS
<1> DEFINE b == Blank
<1>1. b \in Target
  BY BlankType
<1>2. call \in Mmsis \cup {NONE}
  BY DEF Mmsis
<1>3. Called(call) = [b EXCEPT !.life = "live", !.mmsi = call, !.class = "dsc",
                              !.threat = "yes", !.dsc = TRUE, !.active = TRUE]
  BY DEF Called
<1> HIDE DEF b
<1>4. [b EXCEPT !.life = "live", !.mmsi = call, !.class = "dsc",
               !.threat = "yes", !.dsc = TRUE, !.active = TRUE] \in Target
  BY <1>1, <1>2 DEF Target
<1> QED
  BY <1>3, <1>4

LEMMA ReportedType ==
  ASSUME NEW t \in Target, NEW m \in Mmsis, NEW threat \in Threats(m)
  PROVE  /\ Reported(t, m, threat) \in Target
         /\ Reported(t, m, threat).life = "live"
         /\ Reported(t, m, threat).mmsi = m
         /\ Reported(t, m, threat).dsc = t.dsc
         /\ Reported(t, m, threat).alert = t.alert
         /\ Reported(t, m, threat).ack = t.ack
<1>1. threat \in {"no", "yes", "far"} /\ Native(m) \in {"ship", "sart", "dsc"}
  BY DEF Threats, Native
<1> DEFINE class == IF t.dsc /\ m \in Ships THEN t.class ELSE Native(m)
           danger == IF t.dsc /\ m \in Ships THEN t.threat ELSE threat
           u == [t EXCEPT !.life = "live", !.mmsi = m, !.age = 0,
                          !.active = TRUE, !.class = class, !.threat = danger]
<1>2. class \in {"ship", "sart", "dsc"} /\ danger \in {"no", "yes", "far"}
  BY <1>1 DEF Target
<1>3. Reported(t, m, threat) = u
  BY DEF Reported
<1> HIDE DEF class, danger
<1>4. u \in Target
  <2> DEFINE v == [t EXCEPT !.age = 0]
  <2>1. v \in Target
    BY DEF Target
  <2>2. u = [v EXCEPT !.life = "live", !.mmsi = m, !.active = TRUE,
                      !.class = class, !.threat = danger]
    OBVIOUS
  <2> HIDE DEF v
  <2>3. m \in Mmsis \cup {NONE}
    OBVIOUS
  <2>4. [v EXCEPT !.life = "live", !.mmsi = m, !.active = TRUE,
                 !.class = class, !.threat = danger] \in Target
    BY <1>2, <2>1, <2>3 DEF Target
  <2> QED
    BY <2>2, <2>4
<1>5. /\ u.life = "live" /\ u.mmsi = m
      /\ u.dsc = t.dsc /\ u.alert = t.alert /\ u.ack = t.ack
  BY DEF Target
<1> HIDE DEF u
<1> QED
  BY <1>3, <1>4, <1>5

LEMMA AnsweredType ==
  ASSUME NEW t \in Target
  PROVE  /\ Answered(t) \in Target
         /\ Answered(t).life = t.life /\ Answered(t).mmsi = t.mmsi
         /\ Answered(t).threat = t.threat /\ Answered(t).dsc = FALSE
BY DEF Answered, Target

LEMMA PostType ==
  ASSUME TypeOK, NEW m \in Mmsis, NEW call \in Ships, Post(m, call)
  PROVE  list' \in [Mmsis -> Mmsis \cup {NONE}] /\ tgt' \in [Mmsis -> Target]
<1>1. (IF m \in Listed THEN list[m] ELSE New(m)) \in Mmsis
  BY StoreType DEF Post
<1> QED
  BY <1>1, CalledType DEF Post, TypeOK, Mmsis

LEMMA ReportType ==
  ASSUME TypeOK, NEW m \in Mmsis, Report(m)
  PROVE  list' \in [Mmsis -> Mmsis \cup {NONE}] /\ tgt' \in [Mmsis -> Target]
<1> DEFINE o == IF m \in Listed THEN list[m] ELSE New(m)
<1>1. o \in Mmsis
  BY StoreType DEF Report
<1>2. PICK threat \in Threats(m) :
        tgt' = [tgt EXCEPT ![o] = Reported(tgt[o], m, threat)]
  BY DEF Report
<1>3. list' = [list EXCEPT ![m] = o]
  BY DEF Report
<1> HIDE DEF o
<1> QED
  BY <1>1, <1>2, <1>3, ReportedType DEF TypeOK

LEMMA TickType ==
  ASSUME TypeOK, NEW iconized, OnTimerAIS(iconized)
  PROVE  /\ list' = NewList /\ list' \in [Mmsis -> Mmsis \cup {NONE}]
         /\ \A o \in Mmsis : tgt'[o] = Updated(o)
         /\ tgt' \in [Mmsis -> Target]
         /\ dialog' \in Mmsis \cup {NONE}
         /\ \E on : Sound(on)
<1>1. list' = NewList /\ list' \in [Mmsis -> Mmsis \cup {NONE}]
  BY NewListType DEF OnTimerAIS, TypeOK
<1>2. tgt' = [o \in Mmsis |-> Updated(o)]
  BY DEF OnTimerAIS
<1>3. \A o \in Mmsis : Updated(o) \in Target
  BY UpdatedType DEF TypeOK
<1>4. dialog' \in Mmsis \cup {NONE} /\ \E on : Sound(on)
  <2>1. CASE dialog = NONE
    <3> DEFINE cand == {m \in Mmsis : NewList[m] # NONE
                                        /\ Pending(tgt'[NewList[m]])}
    <3>1. ShowAlert(iconized)
      BY <2>1 DEF OnTimerAIS
    <3>2. Chosen(cand) \subseteq Mmsis
      BY DEF Chosen
    <3>3. \/ dialog' = NONE /\ Sound(FALSE)
          \/ /\ \E m \in Chosen(cand) : dialog' = IF iconized THEN NONE ELSE m
             /\ Sound(TRUE)
      BY <3>1 DEF ShowAlert
    <3> HIDE DEF cand
    <3> QED
      BY <3>2, <3>3
  <2>2. CASE dialog # NONE
    <3>1. KeepDialog
      BY <2>2 DEF OnTimerAIS
    <3>2. dialog \in Mmsis
      BY <2>2 DEF TypeOK
    <3>3. dialog' \in {dialog, NONE} /\ \E on : Sound(on)
      BY <3>1 DEF KeepDialog
    <3> QED
      BY <3>2, <3>3
  <2> QED
    BY <2>1, <2>2
<1> QED
  BY <1>1, <1>2, <1>3, <1>4

LEMMA InitIInv == Init => IInv
<1> SUFFICES ASSUME Init PROVE IInv
  OBVIOUS
<1>1. tgt \in [Mmsis -> Target] /\ list \in [Mmsis -> Mmsis \cup {NONE}]
  BY BlankType DEF Init
<1>2. tails \in 0 .. MaxTails /\ finished \in 0 .. 1
  BY ConstantsAssumption DEF Init
<1>3. TypeOK
  BY <1>1, <1>2 DEF Init, TypeOK
<1> QED
  BY <1>3 DEF Init, IInv, OneSound

LEMMA IInvStep == IInv /\ [Next]_vars => IInv'
<1> SUFFICES ASSUME IInv, [Next]_vars PROVE IInv'
  OBVIOUS
<1> USE ConstantsAssumption
<1>0. /\ TypeOK /\ OneSound /\ SoundType
      /\ list \in [Mmsis -> Mmsis \cup {NONE}] /\ tgt \in [Mmsis -> Target]
  BY DEF IInv, TypeOK, SoundType
<1>r. \A m \in Listed : list[m] \in Mmsis /\ Of(m) \in Target
  BY <1>0 DEF Listed, Of
<1>1. ASSUME NEW m \in Mmsis, Report(m) PROVE IInv'
  BY <1>0, <1>1, ReportType
     DEF Report, IInv, TypeOK, OneSound, dscVars, soundVars
<1>2. ASSUME NEW m \in Mmsis, Drift(m) PROVE IInv'
  <2>1. PICK threat \in Threats(m) \ {Of(m).threat} :
          tgt' = [tgt EXCEPT ![list[m]].threat = threat]
    BY <1>2 DEF Drift
  <2>2. threat \in {"no", "yes", "far"} /\ m \in Listed
    BY <1>2, <2>1 DEF Threats, Drift
  <2>3. [tgt[list[m]] EXCEPT !.threat = threat] \in Target
    BY <1>r, <2>2 DEF Of, Target
  <2>4. tgt' \in [Mmsis -> Target]
    BY <1>0, <2>1, <2>3
  <2> QED
    BY <1>0, <1>2, <2>4 DEF Drift, IInv, TypeOK, OneSound, dscVars, soundVars
<1>3. ASSUME NEW m \in Mmsis, GrowOld(m) PROVE IInv'
  <2>1. m \in Listed /\ Of(m).age < 2
    BY <1>3 DEF GrowOld
  <2>2. tgt[list[m]] \in Target /\ tgt[list[m]].age < 2
    BY <1>r, <2>1 DEF Of
  <2>3. [tgt[list[m]] EXCEPT !.age = @ + 1] \in Target
    BY <2>2 DEF Target
  <2>4. tgt' \in [Mmsis -> Target]
    BY <1>0, <1>3, <2>3 DEF GrowOld
  <2> QED
    BY <1>0, <1>3, <2>4 DEF GrowOld, IInv, TypeOK, OneSound, dscVars, soundVars
<1>4. ASSUME NEW m \in Mmsis, AckAges(m) PROVE IInv'
  <2>1. tgt[list[m]] \in Target
    BY <1>r, <1>4 DEF AckAges, Of
  <2>2. [tgt[list[m]] EXCEPT !.ack = "old"] \in Target
    BY <2>1 DEF Target
  <2>3. tgt' \in [Mmsis -> Target]
    BY <1>0, <1>4, <2>2 DEF AckAges
  <2> QED
    BY <1>0, <1>4, <2>3 DEF AckAges, IInv, TypeOK, OneSound, dscVars, soundVars
<1>5. ASSUME NEW m \in Ships, Dsc(m) PROVE IInv'
  BY <1>0, <1>5 DEF Dsc, IInv, TypeOK, OneSound, targetVars, soundVars
<1>6. ASSUME DscWithoutPosition PROVE IInv'
  BY <1>0, <1>6
     DEF DscWithoutPosition, IInv, TypeOK, OneSound, targetVars, soundVars
<1>7. ASSUME NEW m \in Ships, Dse(m) PROVE IInv'
  <2>1. m \in Mmsis /\ tentative \in Ships /\ Post(m, tentative)
    BY <1>0, <1>7 DEF Dse, TypeOK, Mmsis
  <2> QED
    BY <1>0, <1>7, <2>1, PostType DEF Dse, IInv, TypeOK, OneSound, soundVars
<1>8. ASSUME OnTimerDSC PROVE IInv'
  <2>1. CASE tentative # NONE /\ lastDsc # NONE
    <3>1. lastDsc \in Ships /\ lastDsc \in Mmsis /\ Post(lastDsc, lastDsc)
      BY <1>0, <1>8, <2>1 DEF OnTimerDSC, TypeOK, Mmsis
    <3> QED
      BY <1>0, <1>8, <2>1, <3>1, PostType
         DEF OnTimerDSC, IInv, TypeOK, OneSound, soundVars
  <2>2. CASE ~(tentative # NONE /\ lastDsc # NONE)
    BY <1>0, <1>8, <2>2
       DEF OnTimerDSC, IInv, TypeOK, OneSound, targetVars, soundVars
  <2> QED
    BY <2>1, <2>2
<1>9. ASSUME NEW iconized \in Iconized, OnTimerAIS(iconized) PROVE IInv'
  <2>1. PICK on : Sound(on)
    BY <1>0, <1>9, TickType
  <2>2. main = "idle"
    BY <1>9 DEF OnTimerAIS
  <2>3. SoundType' /\ OneSound'
    BY <1>0, <2>1, <2>2, SoundStep
  <2>4. /\ list' \in [Mmsis -> Mmsis \cup {NONE}] /\ tgt' \in [Mmsis -> Target]
        /\ dialog' \in Mmsis \cup {NONE}
    BY <1>0, <1>9, TickType
  <2> QED
    BY <1>0, <1>9, <2>3, <2>4
       DEF OnTimerAIS, IInv, TypeOK, SoundType, dscVars
<1>10. ASSUME Acknowledge PROVE IInv'
  <2>1. CASE dialog \in Listed
    <3>1. tgt[list[dialog]] \in Target /\ Of(dialog) = tgt[list[dialog]]
      BY <1>r, <2>1 DEF Of
    <3>2. tgt' = [tgt EXCEPT ![list[dialog]] = Answered(tgt[list[dialog]])]
      BY <1>10, <2>1, <3>1 DEF Acknowledge
    <3>3. tgt' \in [Mmsis -> Target]
      BY <1>0, <3>1, <3>2, AnsweredType
    <3> QED
      BY <1>0, <1>10, <3>3
         DEF Acknowledge, IInv, TypeOK, OneSound, dscVars, soundVars
  <2>2. CASE dialog \notin Listed
    BY <1>0, <1>10, <2>2
       DEF Acknowledge, IInv, TypeOK, OneSound, dscVars, soundVars
  <2> QED
    BY <2>1, <2>2
<1>11. ASSUME OnIdSilenceClick PROVE IInv'
  <2>1. tgt[list[dialog]] \in Target
    BY <1>r, <1>11 DEF OnIdSilenceClick, Of
  <2>2. [tgt[list[dialog]] EXCEPT !.quiet = TRUE] \in Target
    BY <2>1 DEF Target
  <2>3. tgt' \in [Mmsis -> Target]
    BY <1>0, <1>11, <2>2 DEF OnIdSilenceClick
  <2> QED
    BY <1>0, <1>11, <2>3
       DEF OnIdSilenceClick, IInv, TypeOK, OneSound, dscVars, soundVars
<1>12. ASSUME Play PROVE IInv'
  BY <1>0, <1>12 DEF Play, IInv, TypeOK, OneSound, targetVars, dscVars
<1>13. ASSUME SoundEnds PROVE IInv'
  <2>1. tails' \in 0 .. MaxTails /\ finished' \in 0 .. 1
    BY <1>0, <1>13 DEF SoundEnds, SoundType, OneSound
  <2>2. OneSound'
    BY <1>0, <1>13, <2>1 DEF SoundEnds, SoundType, OneSound
  <2> QED
    BY <1>0, <1>13, <2>1, <2>2
       DEF SoundEnds, IInv, TypeOK, targetVars, dscVars
<1>14. ASSUME TailEnds PROVE IInv'
  <2>1. tails' \in 0 .. MaxTails /\ finished' \in 0 .. 1
    BY <1>0, <1>14 DEF TailEnds, SoundType, OneSound
  <2>2. OneSound'
    BY <1>0, <1>14, <2>1 DEF TailEnds, SoundType, OneSound
  <2> QED
    BY <1>0, <1>14, <2>1, <2>2
       DEF TailEnds, IInv, TypeOK, targetVars, dscVars
<1>15. ASSUME OnSoundFinishedAISAudio PROVE IInv'
  <2>1. tails' \in 0 .. MaxTails /\ finished' \in 0 .. 1
    BY <1>0, <1>15 DEF OnSoundFinishedAISAudio, SoundType, OneSound
  <2>2. OneSound'
    BY <1>0, <1>15, <2>1 DEF OnSoundFinishedAISAudio, SoundType, OneSound
  <2> QED
    BY <1>0, <1>15, <2>1, <2>2
       DEF OnSoundFinishedAISAudio, IInv, TypeOK, targetVars, dscVars
<1>16. CASE UNCHANGED vars
  BY <1>0, <1>16
     DEF vars, targetVars, dscVars, soundVars, IInv, TypeOK, OneSound
<1> QED
  BY <1>1, <1>2, <1>3, <1>4, <1>5, <1>6, <1>7, <1>8, <1>9, <1>10, <1>11,
     <1>12, <1>13, <1>14, <1>15, <1>16 DEF Next, News

(* Every variable keeps its type; in particular at most one end of a sound *)
(* is posted and not yet handled, whatever the threads and timers do: a    *)
(* sound is only started when m_bAIS_AlertPlaying is not set.              *)
THEOREM TypeCorrectness == Spec => []TypeOK
<1>1. IInv => TypeOK
  BY DEF IInv
<1> QED
  BY <1>1, InitIInv, IInvStep, PTL DEF Spec

-----------------------------------------------------------------------------
(* What happens to the objects in a step.  The actions fall into those     *)
(* that store a target, a tick, those that change one object's fields, and *)
(* those that leave the targets alone.                                     *)

(* The object o is stored under the key m, as u.                           *)
Stored(m, o, u) ==
  /\ list' = [list EXCEPT ![m] = o] /\ tgt' = [tgt EXCEPT ![o] = u]

(* The object of m becomes u: it stays the object of the same MMSI.        *)
Changed(m, u) ==
  /\ m \in Listed /\ list' = list /\ tgt' = [tgt EXCEPT ![list[m]] = u]
  /\ u.life = tgt[list[m]].life /\ u.mmsi = tgt[list[m]].mmsi

(* A change of an object that calls for help is its acknowledgement, or    *)
(* changes nothing that matters to the call.                               *)
CallKept(m, u) ==
  LET t == tgt[list[m]] IN
  t.dsc => \/ Acknowledge /\ dialog = m /\ ~u.dsc
           \/ /\ t.class = "dsc" => u.class = "dsc"
              /\ u.dsc /\ u.threat = t.threat
              /\ t.ack = "no" => u.ack = "no"

(* No object begins to call for help by a change.                          *)
NoNewCall(m, u) == u.dsc => tgt[list[m]].dsc

LEMMA Effects ==
  ASSUME IInv, CallsUnanswered, Next
  PROVE  \/ \E m \in Mmsis : Report(m)
         \/ \E call \in Ships, m \in Mmsis :
              /\ Post(m, call)
              /\ m = call \/ "mixed" \in Habits
         \/ \E iconized \in Iconized : OnTimerAIS(iconized)
         \/ \E m \in Mmsis, u \in Target :
              Changed(m, u) /\ CallKept(m, u) /\ NoNewCall(m, u)
         \/ UNCHANGED targetVars
<1>0. /\ TypeOK /\ tgt \in [Mmsis -> Target]
      /\ list \in [Mmsis -> Mmsis \cup {NONE}] /\ ConstantsAssumption
  BY ConstantsAssumption DEF IInv, TypeOK
<1>r. \A m \in Listed :
        /\ m \in Mmsis /\ list[m] \in Mmsis
        /\ tgt[list[m]] \in Target /\ Of(m) = tgt[list[m]]
  BY <1>0 DEF Listed, Of
<1>2. ASSUME NEW m \in Mmsis, Drift(m)
      PROVE  \E u \in Target : Changed(m, u) /\ CallKept(m, u) /\ NoNewCall(m, u)
  <2>1. PICK threat \in Threats(m) \ {Of(m).threat} :
          tgt' = [tgt EXCEPT ![list[m]].threat = threat]
    BY <1>2 DEF Drift
  <2>2. m \in Listed /\ tgt[list[m]].class = "ship" /\ list' = list
    BY <1>r, <1>2 DEF Drift
  <2>3. threat \in {"no", "yes", "far"}
    BY <2>1 DEF Threats
  <2> DEFINE t == tgt[list[m]]
             u == [t EXCEPT !.threat = threat]
  <2>4. t \in Target /\ t.class = "ship"
    BY <1>r, <2>2
  <2>5. ~t.dsc
    BY <1>r, <2>2 DEF CallsUnanswered
  <2>6. tgt' = [tgt EXCEPT ![list[m]] = u]
    BY <2>1
  <2> HIDE DEF t
  <2>7. u \in Target /\ u.life = t.life /\ u.mmsi = t.mmsi /\ u.dsc = t.dsc
    BY <2>3, <2>4 DEF Target
  <2> QED
    BY <2>2, <2>5, <2>6, <2>7 DEF Changed, CallKept, NoNewCall, t
<1>3. ASSUME NEW m \in Mmsis, GrowOld(m)
      PROVE  \E u \in Target : Changed(m, u) /\ CallKept(m, u) /\ NoNewCall(m, u)
  <2> DEFINE t == tgt[list[m]]
             u == [t EXCEPT !.age = @ + 1]
  <2>1. /\ m \in Listed /\ list' = list /\ t \in Target /\ t.age < 2
        /\ tgt' = [tgt EXCEPT ![list[m]] = u]
    BY <1>r, <1>3 DEF GrowOld
  <2> HIDE DEF t
  <2>2. u \in Target
    BY <2>1 DEF Target
  <2>3. /\ u.life = t.life /\ u.mmsi = t.mmsi /\ u.dsc = t.dsc
        /\ u.class = t.class /\ u.threat = t.threat /\ u.ack = t.ack
    BY <2>1 DEF Target
  <2> HIDE DEF u
  <2> QED
    BY <2>1, <2>2, <2>3 DEF Changed, CallKept, NoNewCall, t
<1>4. ASSUME NEW m \in Mmsis, AckAges(m)
      PROVE  \E u \in Target : Changed(m, u) /\ CallKept(m, u) /\ NoNewCall(m, u)
  <2> DEFINE t == tgt[list[m]]
             u == [t EXCEPT !.ack = "old"]
  <2>1. /\ m \in Listed /\ list' = list /\ t \in Target /\ t.ack = "yes"
        /\ tgt' = [tgt EXCEPT ![list[m]] = u]
    BY <1>r, <1>4 DEF AckAges
  <2>2. ~t.dsc
    BY <1>r, <2>1 DEF CallsUnanswered
  <2> HIDE DEF t
  <2>3. u \in Target /\ u.life = t.life /\ u.mmsi = t.mmsi /\ u.dsc = t.dsc
    BY <2>1 DEF Target
  <2> HIDE DEF u
  <2> QED
    BY <2>1, <2>2, <2>3 DEF Changed, CallKept, NoNewCall, t
<1>5. ASSUME NEW m \in Ships, Dse(m)
      PROVE  \E call \in Ships, k \in Mmsis :
               Post(k, call) /\ (k = call \/ "mixed" \in Habits)
  BY <1>0, <1>5 DEF Dse, TypeOK, Mmsis
<1>6. ASSUME OnTimerDSC
      PROVE  \/ \E call \in Ships, k \in Mmsis :
                  Post(k, call) /\ (k = call \/ "mixed" \in Habits)
             \/ UNCHANGED targetVars
  <2>1. CASE tentative # NONE /\ lastDsc # NONE
    <3>1. lastDsc \in Ships /\ lastDsc \in Mmsis /\ Post(lastDsc, lastDsc)
      BY <1>0, <1>6, <2>1 DEF OnTimerDSC, TypeOK, Mmsis
    <3> QED
      BY <3>1
  <2>2. CASE ~(tentative # NONE /\ lastDsc # NONE)
    BY <1>6, <2>2 DEF OnTimerDSC
  <2> QED
    BY <2>1, <2>2
<1>7. ASSUME Acknowledge
      PROVE  \/ \E m \in Mmsis, u \in Target :
                  Changed(m, u) /\ CallKept(m, u) /\ NoNewCall(m, u)
             \/ UNCHANGED targetVars
  <2>1. CASE dialog \in Listed
    <3> DEFINE t == tgt[list[dialog]]
    <3>1. /\ dialog \in Mmsis /\ list' = list /\ t \in Target
          /\ tgt' = [tgt EXCEPT ![list[dialog]] = Answered(t)]
      BY <1>r, <1>7, <2>1 DEF Acknowledge
    <3>2. /\ Answered(t) \in Target /\ Answered(t).life = t.life
          /\ Answered(t).mmsi = t.mmsi /\ ~Answered(t).dsc
      BY <3>1, AnsweredType
    <3> QED
      BY <1>7, <2>1, <3>1, <3>2 DEF Changed, CallKept, NoNewCall
  <2>2. CASE dialog \notin Listed
    BY <1>7, <2>2 DEF Acknowledge, targetVars
  <2> QED
    BY <2>1, <2>2
<1>8. ASSUME OnIdSilenceClick
      PROVE  \E m \in Mmsis, u \in Target :
               Changed(m, u) /\ CallKept(m, u) /\ NoNewCall(m, u)
  <2> DEFINE t == tgt[list[dialog]]
             u == [t EXCEPT !.quiet = TRUE]
  <2>1. /\ dialog \in Listed /\ dialog \in Mmsis /\ list' = list
        /\ t \in Target /\ tgt' = [tgt EXCEPT ![list[dialog]] = u]
    BY <1>r, <1>8 DEF OnIdSilenceClick
  <2> HIDE DEF t
  <2>2. u \in Target
    BY <2>1 DEF Target
  <2>3. /\ u.life = t.life /\ u.mmsi = t.mmsi /\ u.dsc = t.dsc
        /\ u.class = t.class /\ u.threat = t.threat /\ u.ack = t.ack
    BY <2>1 DEF Target
  <2> HIDE DEF u
  <2> QED
    BY <2>1, <2>2, <2>3 DEF Changed, CallKept, NoNewCall, t
<1>9. (\E m \in Ships : Dsc(m)) \/ DscWithoutPosition \/ Play \/ SoundEnds
        \/ TailEnds \/ OnSoundFinishedAISAudio => UNCHANGED targetVars
  BY DEF Dsc, DscWithoutPosition, Play, SoundEnds, TailEnds,
         OnSoundFinishedAISAudio, targetVars
<1> QED
  BY <1>2, <1>3, <1>4, <1>5, <1>6, <1>7, <1>8, <1>9 DEF Next, News

(* A report or a posted call stores one target; no other key leads to its  *)
(* object.                                                                 *)
LEMMA ReportStores ==
  ASSUME TypeOK, ListedTargetsAlive, NEW m \in Mmsis, Report(m)
  PROVE  \E o \in Mmsis, threat \in Threats(m) :
           /\ Stored(m, o, Reported(tgt[o], m, threat))
           /\ IF m \in Listed THEN o = list[m] ELSE tgt[o].life = "free"
           /\ \A n \in Listed : n # m => list[n] # o
<1> DEFINE o == IF m \in Listed THEN list[m] ELSE New(m)
<1>1. o \in Mmsis
  BY StoreType DEF Report
<1>2. /\ IF m \in Listed THEN o = list[m] ELSE tgt[o].life = "free"
      /\ \A n \in Listed : n # m => list[n] # o
  <2>1. CASE m \in Listed
    BY <2>1 DEF ListedTargetsAlive, Of
  <2>2. CASE m \notin Listed
    <3>1. Fresh(New(m))
      BY <2>2, NewIsFresh DEF Report
    <3> QED
      BY <2>2, <3>1 DEF Fresh, Listed
  <2> QED
    BY <2>1, <2>2
<1>3. \E threat \in Threats(m) : Stored(m, o, Reported(tgt[o], m, threat))
  BY DEF Report, Stored
<1> QED
  BY <1>1, <1>2, <1>3

LEMMA PostStores ==
  ASSUME TypeOK, ListedTargetsAlive, NEW m \in Ships, Post(m, m)
  PROVE  \E o \in Mmsis : /\ Stored(m, o, Called(m))
                          /\ \A n \in Listed : n # m => list[n] # o
<1> DEFINE o == IF m \in Listed THEN list[m] ELSE New(m)
<1>0. m \in Mmsis
  BY DEF Mmsis
<1>1. o \in Mmsis
  BY <1>0, StoreType DEF Post
<1>2. \A n \in Listed : n # m => list[n] # o
  <2>1. CASE m \in Listed
    BY <2>1 DEF ListedTargetsAlive, Of
  <2>2. CASE m \notin Listed
    <3>1. Fresh(New(m))
      BY <1>0, <2>2, NewIsFresh DEF Post
    <3> QED
      BY <2>2, <3>1 DEF Fresh, Listed
  <2> QED
    BY <2>1, <2>2
<1>3. Stored(m, o, Called(m))
  BY DEF Post, Stored
<1> QED
  BY <1>1, <1>2, <1>3

LEMMA CalledFields ==
  \A m \in Ships :
    /\ Called(m).life = "live" /\ Called(m).mmsi = m
    /\ Called(m).class = "dsc" /\ Called(m).threat = "yes"
    /\ Called(m).dsc = TRUE /\ Called(m).ack = "no"
BY DEF Called, Blank

(* A tick leaves the object of a listed target where it is, and deletes it *)
(* only with its key.                                                      *)
LEMMA TickKeeps ==
  ASSUME TypeOK, ListedTargetsAlive, NEW iconized, OnTimerAIS(iconized),
         NEW m \in Listed'
  PROVE  /\ m \in Listed /\ list'[m] = list[m] /\ list[m] \in Mmsis
         /\ tgt[list[m]] \in Target
         /\ tgt'[list[m]] \in {Aged(tgt[list[m]]), Reopen(Aged(tgt[list[m]]))}
<1>1. list' = NewList /\ \A o \in Mmsis : tgt'[o] = Updated(o)
  BY TickType
<1>2. m \in Mmsis /\ NewList[m] # NONE
  BY <1>1 DEF Listed
<1>3. m \notin Expired /\ m \in Listed /\ NewList[m] = list[m]
  BY <1>2, NewListType DEF TypeOK
<1>4. list[m] \in Mmsis /\ tgt[list[m]] \in Target
  BY <1>3 DEF Listed, TypeOK
<1>5. list[m] \notin Deleted
  <2> SUFFICES ASSUME NEW k \in Expired, list[k] = list[m] PROVE FALSE
    BY DEF Deleted
  <2>1. k \in Listed
    BY <1>3 DEF Expired, Listed
  <2>2. k = m
    BY <1>3, <2>1 DEF ListedTargetsAlive, Of
  <2> QED
    BY <1>3, <2>2
<1> QED
  BY <1>1, <1>2, <1>3, <1>4, <1>5, UpdatedType

LEMMA AgedFields ==
  ASSUME NEW t \in Target, NEW u \in {Aged(t), Reopen(Aged(t))}
  PROVE  /\ u \in Target /\ u.life = t.life /\ u.mmsi = t.mmsi
         /\ u.class = t.class /\ u.threat = t.threat
         /\ u.alert = Aged(t).alert /\ u.ack = Aged(t).ack
<1>1. /\ Aged(t) \in Target
      /\ Aged(t).life = t.life /\ Aged(t).mmsi = t.mmsi
      /\ Aged(t).class = t.class /\ Aged(t).threat = t.threat
  BY AgedType
<1> QED
  BY <1>1, ReopenType

LEMMA AliveStep ==
  ASSUME Unmixed, IInv, ListedTargetsAlive, CallsUnanswered, [Next]_vars
  PROVE  ListedTargetsAlive'
<1>0. /\ TypeOK /\ tgt \in [Mmsis -> Target]
      /\ list \in [Mmsis -> Mmsis \cup {NONE}]
  BY DEF IInv, TypeOK
<1>a. ASSUME NEW m \in Mmsis, NEW o \in Mmsis, NEW u, Stored(m, o, u),
             u.life = "live", u.mmsi = m,
             \A n \in Listed : n # m => list[n] # o
      PROVE  ListedTargetsAlive'
  BY <1>0, <1>a DEF Stored, ListedTargetsAlive, Listed, Of
<1>1. ASSUME NEW m \in Mmsis, Report(m) PROVE ListedTargetsAlive'
  <2>1. PICK o \in Mmsis, threat \in Threats(m) :
          /\ Stored(m, o, Reported(tgt[o], m, threat))
          /\ \A n \in Listed : n # m => list[n] # o
    BY <1>0, <1>1, ReportStores
  <2>2. tgt[o] \in Target
    BY <1>0
  <2> QED
    BY <1>a, <2>1, <2>2, ReportedType
<1>2. ASSUME NEW call \in Ships, Post(call, call) PROVE ListedTargetsAlive'
  <2>1. PICK o \in Mmsis : /\ Stored(call, o, Called(call))
                           /\ \A n \in Listed : n # call => list[n] # o
    BY <1>0, <1>2, PostStores
  <2> QED
    BY <1>a, <2>1, CalledFields DEF Mmsis
<1>3. ASSUME NEW iconized, OnTimerAIS(iconized) PROVE ListedTargetsAlive'
  <2> SUFFICES ASSUME NEW m \in Listed'
               PROVE  (Of(m))'.life = "live" /\ (Of(m))'.mmsi = m
    BY DEF ListedTargetsAlive
  <2>1. /\ m \in Listed /\ list'[m] = list[m]
        /\ tgt[list[m]] \in Target
        /\ tgt'[list[m]] \in {Aged(tgt[list[m]]), Reopen(Aged(tgt[list[m]]))}
    BY <1>0, <1>3, TickKeeps
  <2>2. tgt[list[m]].life = "live" /\ tgt[list[m]].mmsi = m
    BY <2>1 DEF ListedTargetsAlive, Of
  <2> QED
    BY <2>1, <2>2, AgedFields DEF Of
<1>4. ASSUME NEW m \in Mmsis, NEW u \in Target, Changed(m, u)
      PROVE  ListedTargetsAlive'
  BY <1>0, <1>4 DEF Changed, ListedTargetsAlive, Listed, Of
<1>5. ASSUME UNCHANGED targetVars PROVE ListedTargetsAlive'
  BY <1>5 DEF targetVars, ListedTargetsAlive, Listed, Of
<1>6. CASE Next
  BY <1>1, <1>2, <1>3, <1>4, <1>5, <1>6, Effects DEF Unmixed
<1>7. CASE UNCHANGED vars
  BY <1>5, <1>7 DEF vars
<1> QED
  BY <1>6, <1>7

(* A call for help is of the class and the threat that alert at once, and  *)
(* the tick neither reopens nor acknowledges it.                           *)
LEMMA AgedCall ==
  ASSUME NEW t \in Target, t.class = "dsc", t.threat = "yes", t.ack = "no"
  PROVE  /\ Aged(t).alert /\ Aged(t).ack = "no" /\ Aged(t).dsc = t.dsc
         /\ Reopen(Aged(t)) = Aged(t)
<1> DEFINE u == IF t.age > 0 THEN [t EXCEPT !.active = FALSE] ELSE t
<1>1. /\ u \in Target /\ u.class = "dsc" /\ u.threat = "yes" /\ u.ack = "no"
      /\ u.dsc = t.dsc
  BY DEF Target
<1> HIDE DEF u
<1>2. Alarm(u).alert /\ Alarm(u).ack = "no" /\ Alarm(u).dsc = u.dsc
  BY <1>1 DEF Alarm, Timed, Target
<1>3. Aged(t) = Alarm(u)
  BY DEF Aged, u
<1> QED
  BY <1>1, <1>2, <1>3 DEF Reopen

LEMMA CallsStep ==
  ASSUME Unmixed, IInv, ListedTargetsAlive, CallsUnanswered, [Next]_vars
  PROVE  CallsUnanswered'
<1>0. /\ TypeOK /\ tgt \in [Mmsis -> Target] /\ Ships \cap Sarts = {}
      /\ list \in [Mmsis -> Mmsis \cup {NONE}]
  BY ConstantsAssumption DEF IInv, TypeOK
<1> DEFINE Unanswered(t) ==
             t.dsc => /\ t.life = "live" /\ t.mmsi \in Ships
                      /\ t.class = "dsc" /\ t.threat = "yes" /\ t.ack = "no"
<1>a. \A o \in Mmsis : Unanswered(tgt[o])
  BY DEF CallsUnanswered
<1>b. ASSUME NEW o \in Mmsis, NEW u, tgt' = [tgt EXCEPT ![o] = u], Unanswered(u)
      PROVE  CallsUnanswered'
  BY <1>0, <1>a, <1>b DEF CallsUnanswered
<1>1. ASSUME NEW m \in Mmsis, Report(m) PROVE CallsUnanswered'
  <2>1. PICK o \in Mmsis, threat \in Threats(m) :
          /\ Stored(m, o, Reported(tgt[o], m, threat))
          /\ IF m \in Listed THEN o = list[m] ELSE tgt[o].life = "free"
    BY <1>0, <1>1, ReportStores
  <2> DEFINE u == Reported(tgt[o], m, threat)
  <2>2. tgt[o] \in Target
    BY <1>0
  <2>3. /\ u.life = "live" /\ u.mmsi = m /\ u.dsc = tgt[o].dsc
        /\ u.ack = tgt[o].ack
    BY <2>2, ReportedType
  <2>4. ASSUME tgt[o].dsc PROVE m \in Ships /\ tgt[o].class = "dsc"
                                /\ tgt[o].threat = "yes" /\ tgt[o].ack = "no"
    <3>1. Unanswered(tgt[o])
      BY <1>a
    <3>2. tgt[o].mmsi = m
      BY <2>1, <2>4, <3>1 DEF ListedTargetsAlive, Of
    <3> QED
      BY <2>4, <3>1, <3>2
  <2>5. ASSUME tgt[o].dsc PROVE u.class = "dsc" /\ u.threat = "yes"
    BY <2>2, <2>4, <2>5 DEF Reported, Target
  <2> HIDE DEF u
  <2>6. Unanswered(u)
    BY <2>3, <2>4, <2>5
  <2> QED
    BY <1>b, <2>1, <2>6 DEF Stored, u
<1>2. ASSUME NEW call \in Ships, Post(call, call) PROVE CallsUnanswered'
  <2>1. PICK o \in Mmsis : Stored(call, o, Called(call))
    BY <1>0, <1>2, PostStores
  <2>2. Unanswered(Called(call))
    BY CalledFields
  <2> QED
    BY <1>b, <2>1, <2>2 DEF Stored
<1>3. ASSUME NEW iconized, OnTimerAIS(iconized) PROVE CallsUnanswered'
  <2> SUFFICES ASSUME NEW o \in Mmsis PROVE Unanswered(tgt'[o])
    BY DEF CallsUnanswered
  <2>1. tgt'[o] = Updated(o) /\ tgt[o] \in Target
    BY <1>0, <1>3, TickType
  <2>2. CASE tgt'[o] = Blank
    BY <2>2 DEF Blank
  <2>3. CASE tgt'[o] = tgt[o]
    BY <1>a, <2>3
  <2>4. CASE tgt'[o] \in {Aged(tgt[o]), Reopen(Aged(tgt[o]))}
    <3> DEFINE t == tgt[o]
               u == tgt'[o]
    <3>1. /\ u.life = t.life /\ u.mmsi = t.mmsi
          /\ u.class = t.class /\ u.threat = t.threat /\ u.ack = Aged(t).ack
      BY <2>1, <2>4, AgedFields
    <3>2. u.dsc => t.dsc
      BY <2>1, <2>4, AgedType, ReopenType
    <3>3. t.dsc => Aged(t).ack = "no"
      BY <1>a, <2>1, AgedCall
    <3>4. Unanswered(t)
      BY <1>a
    <3> HIDE DEF t, u
    <3>5. Unanswered(u)
      BY <3>1, <3>2, <3>3, <3>4
    <3> QED
      BY <3>5 DEF u
  <2> QED
    BY <2>1, <2>2, <2>3, <2>4, UpdatedType
<1>4. ASSUME NEW m \in Mmsis, NEW u \in Target,
             Changed(m, u), CallKept(m, u), NoNewCall(m, u)
      PROVE  CallsUnanswered'
  <2>1. list[m] \in Mmsis /\ tgt' = [tgt EXCEPT ![list[m]] = u]
    BY <1>0, <1>4 DEF Changed, Listed
  <2>2. Unanswered(u)
    <3>1. Unanswered(tgt[list[m]])
      BY <1>a, <2>1
    <3> QED
      BY <1>4, <3>1 DEF Changed, CallKept, NoNewCall
  <2> QED
    BY <1>b, <2>1, <2>2
<1>5. ASSUME UNCHANGED targetVars PROVE CallsUnanswered'
  BY <1>5 DEF targetVars, CallsUnanswered
<1>6. CASE Next
  BY <1>1, <1>2, <1>3, <1>4, <1>5, <1>6, Effects DEF Unmixed
<1>7. CASE UNCHANGED vars
  BY <1>5, <1>7 DEF vars
<1> QED
  BY <1>6, <1>7

LEMMA InitTargets == Init => ListedTargetsAlive /\ CallsUnanswered
BY DEF Init, ListedTargetsAlive, CallsUnanswered, Listed, Of, Blank

(* A call for help is kept by every step but its acknowledgement and the   *)
(* tick that deletes its target.                                           *)
LEMMA DistressStep ==
  ASSUME Unmixed, IInv, ListedTargetsAlive, CallsUnanswered, [Next]_vars,
         NEW m \in Ships, Calling(m)
  PROVE  \/ (Calling(m))'
         \/ dialog = m /\ Acknowledge
         \/ Of(m).age = 2 /\ m \notin Listed'
<1>0. /\ TypeOK /\ tgt \in [Mmsis -> Target]
      /\ list \in [Mmsis -> Mmsis \cup {NONE}]
  BY DEF IInv, TypeOK
<1> DEFINE t == tgt[list[m]]
<1>a. /\ m \in Mmsis /\ m \in Listed /\ list[m] \in Mmsis /\ t \in Target
      /\ t.class = "dsc" /\ t.dsc /\ t.life = "live" /\ t.mmsi = m
      /\ t.threat = "yes" /\ t.ack = "no"
  BY <1>0 DEF Calling, Listed, Of, ListedTargetsAlive, CallsUnanswered
<1>b. ASSUME list'[m] = list[m], tgt'[list[m]].class = "dsc", tgt'[list[m]].dsc
      PROVE  (Calling(m))'
  BY <1>a, <1>b DEF Calling, Listed, Of
<1>1. ASSUME NEW n \in Mmsis, Report(n) PROVE (Calling(m))'
  <2>1. PICK o \in Mmsis, threat \in Threats(n) :
          /\ Stored(n, o, Reported(tgt[o], n, threat))
          /\ IF n \in Listed THEN o = list[n] ELSE tgt[o].life = "free"
          /\ \A k \in Listed : k # n => list[k] # o
    BY <1>0, <1>1, ReportStores
  <2>2. CASE n = m
    <3>1. o = list[m]
      BY <1>a, <2>1, <2>2
    <3>2. Reported(t, m, threat).class = "dsc" /\ Reported(t, m, threat).dsc
      BY <1>a DEF Reported, Target
    <3>3. tgt'[o] = Reported(t, m, threat) /\ list'[m] = o
      BY <1>0, <1>a, <2>1, <2>2, <3>1 DEF Stored
    <3> QED
      BY <1>b, <3>1, <3>2, <3>3
  <2>3. CASE n # m
    BY <1>0, <1>a, <1>b, <2>1, <2>3 DEF Stored
  <2> QED
    BY <2>2, <2>3
<1>2. ASSUME NEW call \in Ships, Post(call, call) PROVE (Calling(m))'
  <2>1. PICK o \in Mmsis : /\ Stored(call, o, Called(call))
                           /\ \A k \in Listed : k # call => list[k] # o
    BY <1>0, <1>2, PostStores
  <2>2. CASE call = m
    <3>1. list'[m] = o /\ tgt'[o] = Called(m) /\ o # NONE
      BY <1>0, <1>a, <2>1, <2>2, ConstantsAssumption DEF Stored
    <3> QED
      BY <1>a, <3>1, CalledFields DEF Calling, Listed, Of
  <2>3. CASE call # m
    BY <1>0, <1>a, <1>b, <2>1, <2>3 DEF Stored
  <2> QED
    BY <2>2, <2>3
<1>3. ASSUME NEW iconized, OnTimerAIS(iconized)
      PROVE  (Calling(m))' \/ (t.age = 2 /\ m \notin Listed')
  <2>1. list' = NewList /\ \A o \in Mmsis : tgt'[o] = Updated(o)
    BY <1>0, <1>3, TickType
  <2>2. CASE m \in Expired
    <3>1. t.age = 2
      BY <1>a, <2>2 DEF Expired, ListedTargetsAlive, Of
    <3>2. m \notin Listed'
      BY <1>a, <2>1, <2>2 DEF NewList, Listed
    <3> QED
      BY <3>1, <3>2
  <2>3. CASE m \notin Expired
    <3>1. m \in Listed'
      BY <1>a, <2>1, <2>3 DEF NewList, Listed
    <3>2. list'[m] = list[m] /\ tgt'[list[m]] \in {Aged(t), Reopen(Aged(t))}
      BY <1>0, <1>3, <3>1, TickKeeps
    <3>3. tgt'[list[m]] = Aged(t) /\ Aged(t).dsc
      BY <1>a, <3>2, AgedCall
    <3>4. Aged(t).class = "dsc"
      BY <1>a, AgedType
    <3> QED
      BY <1>b, <3>2, <3>3, <3>4
  <2> QED
    BY <2>2, <2>3
<1>4. ASSUME NEW n \in Mmsis, NEW u \in Target, Changed(n, u), CallKept(n, u)
      PROVE  (Calling(m))' \/ (dialog = m /\ Acknowledge)
  <2>1. CASE n = m
    BY <1>0, <1>4, <1>a, <1>b, <2>1 DEF Changed, CallKept
  <2>2. CASE n # m
    <3>1. list[n] # list[m]
      BY <1>4, <1>a, <2>2 DEF Changed, ListedTargetsAlive, Of
    <3> QED
      BY <1>0, <1>4, <1>a, <1>b, <3>1 DEF Changed
  <2> QED
    BY <2>1, <2>2
<1>5. ASSUME UNCHANGED targetVars PROVE (Calling(m))'
  BY <1>5, <1>a, <1>b DEF targetVars
<1>6. CASE Next
  BY <1>1, <1>2, <1>3, <1>4, <1>5, <1>6, Effects DEF Unmixed, Of
<1>7. CASE UNCHANGED vars
  BY <1>5, <1>7 DEF vars
<1> QED
  BY <1>6, <1>7

CallInv == IInv /\ ListedTargetsAlive /\ CallsUnanswered

LEMMA CallInvariance == Unmixed => (Spec => []CallInv)
<1>1. Init => CallInv
  BY InitIInv, InitTargets DEF CallInv
<1>2. Unmixed /\ CallInv /\ [Next]_vars => CallInv'
  BY IInvStep, AliveStep, CallsStep DEF CallInv
<1> SUFFICES ASSUME Unmixed PROVE Spec => []CallInv
  OBVIOUS
<1>3. CallInv /\ [Next]_vars => CallInv'
  BY <1>2
<1> QED
  BY <1>1, <1>3, PTL DEF Spec

(* An MMSI leads to the live target of that MMSI, for any number of ships  *)
(* and transmitters, if no extension of a call is about another vessel:    *)
(* OnTimerAIS deletes a target together with the key it is found under.    *)
THEOREM TargetsOfKeys == Unmixed => (Spec => []ListedTargetsAlive)
<1> SUFFICES ASSUME Unmixed PROVE Spec => []ListedTargetsAlive
  OBVIOUS
<1>1. CallInv => ListedTargetsAlive
  BY DEF CallInv
<1>2. Spec => []CallInv
  BY CallInvariance
<1> QED
  BY <1>1, <1>2, PTL

(* Under the same condition a call for help ends only by the step that     *)
(* acknowledges its own dialog, or by the tick that deletes its target for *)
(* its age: no report of the vessel, no later call, no other tick and no   *)
(* answer to another alert ends it, whichever dialog is open.              *)
THEOREM CallsStand == Unmixed => (Spec => DistressStands)
<1> DEFINE Stands == \A m \in Ships : Calling(m) =>
                       \/ (Calling(m))'
                       \/ dialog = m /\ Acknowledge
                       \/ Of(m).age = 2 /\ m \notin Listed'
<1> SUFFICES ASSUME Unmixed PROVE Spec => DistressStands
  OBVIOUS
<1>1. CallInv /\ [Next]_vars => [Stands]_vars
  BY DistressStep DEF CallInv
<1>2. Spec => []CallInv
  BY CallInvariance
<1>3. Spec => [][Stands]_vars
  BY <1>1, <1>2, PTL DEF Spec
<1> QED
  BY <1>3 DEF DistressStands

-----------------------------------------------------------------------------
(* Acknowledgements. *)

AckInv == IInv /\ NoneFar

LEMMA InitNoneFar == Init => NoneFar
BY DEF Init, NoneFar, Blank

LEMMA NoneFarStep ==
  ASSUME Unskipped, IInv, NoneFar, [Next]_vars
  PROVE  NoneFar'
<1>0. /\ TypeOK /\ tgt \in [Mmsis -> Target]
      /\ list \in [Mmsis -> Mmsis \cup {NONE}]
  BY DEF IInv, TypeOK
<1>t. \A m \in Mmsis : Threats(m) = {"no", "yes"}
  BY DEF Threats, Unskipped
<1>1. ASSUME NEW m \in Mmsis, Report(m) PROVE NoneFar'
  <2> DEFINE o == IF m \in Listed THEN list[m] ELSE New(m)
  <2>1. o \in Mmsis
    BY <1>0, <1>1, StoreType DEF Report
  <2>2. PICK threat \in Threats(m) :
          tgt' = [tgt EXCEPT ![o] = Reported(tgt[o], m, threat)]
    BY <1>1 DEF Report
  <2> HIDE DEF o
  <2>3. Reported(tgt[o], m, threat).threat # "far"
    BY <1>0, <1>t, <2>1, <2>2 DEF Reported, NoneFar, Target
  <2> QED
    BY <1>0, <2>1, <2>2, <2>3 DEF NoneFar
<1>2. ASSUME NEW m \in Mmsis, NEW call \in Ships, Post(m, call) PROVE NoneFar'
  <2>1. Called(call).threat # "far"
    BY CalledFields
  <2> QED
    BY <1>0, <1>2, <2>1 DEF Post, NoneFar
<1>3. ASSUME NEW iconized, OnTimerAIS(iconized) PROVE NoneFar'
  <2> SUFFICES ASSUME NEW o \in Mmsis PROVE tgt'[o].threat # "far"
    BY DEF NoneFar
  <2>1. tgt'[o] = Updated(o) /\ tgt[o] \in Target
    BY <1>0, <1>3, TickType
  <2>2. Blank.threat = "no"
    BY DEF Blank
  <2>3. tgt'[o] \in {Blank, tgt[o], Aged(tgt[o]), Reopen(Aged(tgt[o]))}
    BY <2>1, UpdatedType
  <2> QED
    BY <2>1, <2>2, <2>3, AgedFields DEF NoneFar
<1>4. ASSUME NEW m \in Mmsis, Drift(m) PROVE NoneFar'
  <2>1. list[m] \in Mmsis
    BY <1>0, <1>4 DEF Drift, Listed
  <2>2. PICK threat \in Threats(m) : tgt' = [tgt EXCEPT ![list[m]].threat = threat]
    BY <1>4 DEF Drift
  <2>3. \A o \in Mmsis : tgt'[o].threat \in {tgt[o].threat, threat}
    BY <1>0, <2>1, <2>2 DEF Target
  <2> QED
    BY <1>t, <2>2, <2>3 DEF NoneFar
<1>5. ASSUME NEW m \in Mmsis, GrowOld(m) \/ AckAges(m) PROVE NoneFar'
  <2>1. list[m] \in Mmsis
    BY <1>0, <1>5 DEF GrowOld, AckAges, Listed
  <2> QED
    BY <1>0, <1>5, <2>1 DEF GrowOld, AckAges, NoneFar, Target
<1>6. ASSUME Acknowledge PROVE NoneFar'
  <2>1. CASE dialog \in Listed
    <3>1. list[dialog] \in Mmsis /\ Of(dialog) = tgt[list[dialog]]
      BY <1>0, <2>1 DEF Listed, Of
    <3>2. tgt' = [tgt EXCEPT ![list[dialog]] = Answered(tgt[list[dialog]])]
      BY <1>6, <2>1, <3>1 DEF Acknowledge
    <3> QED
      BY <1>0, <3>1, <3>2, AnsweredType DEF NoneFar
  <2>2. CASE dialog \notin Listed
    BY <1>6, <2>2 DEF Acknowledge, NoneFar
  <2> QED
    BY <2>1, <2>2
<1>7. ASSUME OnIdSilenceClick PROVE NoneFar'
  <2>1. list[dialog] \in Mmsis
    BY <1>0, <1>7 DEF OnIdSilenceClick, Listed
  <2> QED
    BY <1>0, <1>7, <2>1 DEF OnIdSilenceClick, NoneFar, Target
<1>8. ASSUME NEW m \in Ships, Dse(m) PROVE NoneFar'
  BY <1>0, <1>2, <1>8 DEF Dse, TypeOK, Mmsis
<1>9. ASSUME OnTimerDSC PROVE NoneFar'
  <2>1. CASE tentative # NONE /\ lastDsc # NONE
    BY <1>0, <1>2, <1>9, <2>1 DEF OnTimerDSC, TypeOK, Mmsis
  <2>2. CASE ~(tentative # NONE /\ lastDsc # NONE)
    BY <1>9, <2>2 DEF OnTimerDSC, targetVars, NoneFar
  <2> QED
    BY <2>1, <2>2
<1>10. ASSUME \/ \E m \in Ships : Dsc(m)
              \/ DscWithoutPosition \/ Play \/ SoundEnds \/ TailEnds
              \/ OnSoundFinishedAISAudio \/ UNCHANGED vars
       PROVE  NoneFar'
  BY <1>10 DEF Dsc, DscWithoutPosition, Play, SoundEnds, TailEnds,
               OnSoundFinishedAISAudio, vars, targetVars, NoneFar
<1> QED
  BY <1>1, <1>3, <1>4, <1>5, <1>6, <1>7, <1>8, <1>9, <1>10 DEF Next, News

(* A tick that does not skip a target leaves it alerting, without an       *)
(* acknowledgement, or timed.                                              *)
LEMMA AgedAck ==
  ASSUME NEW t \in Target, t.threat # "far"
  PROVE  Timed(t) \/ Aged(t).alert \/ Aged(t).ack = "no"
<1> DEFINE u == IF t.age > 0 THEN [t EXCEPT !.active = FALSE] ELSE t
<1>1. u \in Target /\ u.class = t.class /\ u.threat # "far"
  BY DEF Target
<1> HIDE DEF u
<1>2. Timed(u) \/ Alarm(u).alert \/ Alarm(u).ack = "no"
  BY <1>1 DEF Alarm, Target
<1>3. Aged(t) = Alarm(u)
  BY DEF Aged, u
<1> QED
  BY <1>1, <1>2, <1>3 DEF Timed

LEMMA AckStep ==
  ASSUME IInv, NoneFar, NEW iconized, OnTimerAIS(iconized),
         NEW m \in Listed'
  PROVE  Timed((Of(m))') \/ (Of(m))'.alert \/ (Of(m))'.ack = "no"
<1>0. TypeOK
  BY DEF IInv
<1>1. list' = NewList /\ \A o \in Mmsis : tgt'[o] = Updated(o)
  BY <1>0, TickType
<1>2. /\ m \in Mmsis /\ NewList[m] # NONE
      /\ NewList[m] \in Mmsis /\ tgt[NewList[m]] \in Target
  BY <1>0, <1>1, NewListType DEF Listed, TypeOK
<1> DEFINE o == NewList[m]
<1>3. (Of(m))' = tgt'[o]
  BY <1>1 DEF Of
<1>4. tgt'[o] \in {Blank, Aged(tgt[o]), Reopen(Aged(tgt[o]))}
  BY <1>1, <1>2, UpdatedType
<1> HIDE DEF o
<1>5. CASE tgt'[o] = Blank
  BY <1>3, <1>5 DEF Blank
<1>6. CASE tgt'[o] \in {Aged(tgt[o]), Reopen(Aged(tgt[o]))}
  <2>1. o \in Mmsis /\ tgt[o] \in Target /\ tgt[o].threat # "far"
    BY <1>2 DEF NoneFar, o
  <2>2. /\ tgt'[o].class = tgt[o].class
        /\ tgt'[o].alert = Aged(tgt[o]).alert /\ tgt'[o].ack = Aged(tgt[o]).ack
    BY <1>6, <2>1, AgedFields
  <2>3. Timed(tgt'[o]) <=> Timed(tgt[o])
    BY <2>2 DEF Timed
  <2> QED
    BY <1>3, <2>1, <2>2, <2>3, AgedAck
<1> QED
  BY <1>4, <1>5, <1>6

(* Without an ack timeout every tick ends an acknowledgement together with *)
(* its alert, if no option takes targets out of the alerts: UpdateAllAlarms*)
(* then reaches the test of the acknowledgement for every target.          *)
THEOREM AcksEnd == Unskipped => (Spec => AckEndsWithAlert)
<1> DEFINE Ends ==
      \A m \in Ships : (\E i \in Iconized : OnTimerAIS(i)) /\ m \in Listed' =>
        (Timed((Of(m))') \/ (Of(m))'.alert \/ (Of(m))'.ack = "no")
<1> SUFFICES ASSUME Unskipped PROVE Spec => AckEndsWithAlert
  OBVIOUS
<1>1. Init => AckInv
  BY InitIInv, InitNoneFar DEF AckInv
<1>2. AckInv /\ [Next]_vars => AckInv'
  BY IInvStep, NoneFarStep DEF AckInv
<1>3. AckInv => Ends
  BY AckStep DEF AckInv
<1>4. Spec => [][Ends]_vars
  BY <1>1, <1>2, <1>3, PTL DEF Spec
<1> QED
  BY <1>4 DEF AckEndsWithAlert
=============================================================================
