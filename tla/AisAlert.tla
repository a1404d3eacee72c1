------------------------------ MODULE AisAlert ------------------------------
(***************************************************************************)
(* AIS targets and their alerts (src/src/AIS_Decoder.cpp,                  *)
(* src/src/AISTargetAlertDialog.cpp) and the sound of an alert             *)
(* (src/src/OcpnWxSound.cpp).                                              *)
(*                                                                         *)
(* The decoder keeps a hash of target objects by MMSI.  AIS reports and    *)
(* DSC distress calls write to them; a timer of one second removes old     *)
(* targets, computes the alerts, keeps the one alert dialog and starts the *)
(* sound, which a thread plays and reports finished through a callback.    *)
(***************************************************************************)
EXTENDS Naturals, FiniteSets

CONSTANTS
  Ships, Sarts,  \* the MMSIs of ships and of search and rescue transmitters
  NONE,          \* no target
  AckTimeout,    \* g_bAIS_ACK_Timeout
  MaxTails,      \* bound: sound threads that have called back and not ended
  Habits         \* what the run lets happen, see below

(***************************************************************************)
(* "burst"    a DSC sentence may follow another before it has been posted  *)
(* "mixed"    a DSE sentence may be about another vessel than the pending  *)
(*            DSC call                                                     *)
(* "skip"     an option takes moored or distant targets out of the alerts  *)
(* "iconized" the frame may be iconized                                    *)
(* "tail"     a sound thread may be slower to end than the next timer tick *)
(***************************************************************************)
HabitKinds == {"burst", "mixed", "skip", "iconized", "tail"}
Mmsis == Ships \cup Sarts

ASSUME ConstantsAssumption ==
  /\ IsFiniteSet(Mmsis) /\ Ships \cap Sarts = {} /\ NONE \notin Mmsis
  /\ AckTimeout \in BOOLEAN /\ MaxTails \in Nat
  /\ Habits \subseteq HabitKinds

VARIABLES
  list,        \* AISTargetList: MMSI -> object
  tgt,         \* the objects; an object has the name of an MMSI
  tentative,   \* m_ptentative_dsctarget: the MMSI of the call, or NONE
  lastDsc,     \* m_dsc_last_string: its MMSI, NONE without a position
  dscTimer,    \* m_dsc_timer runs
  dialog,      \* the MMSI of g_pais_alert_dialog_active
  playing,     \* m_bAIS_AlertPlaying
  onFinished,  \* m_onFinished # 0, in the sound object
  sounding,    \* a thread of the sound object plays
  tails,       \* threads between their callback and m_onFinished = 0
  finished,    \* SOUND_PLAYED_EVTYPE posted and not yet handled
  main         \* "idle", or "play": between SetFinishedCallback and Play

targetVars == <<list, tgt>>
dscVars == <<tentative, lastDsc, dscTimer>>
soundVars == <<playing, onFinished, sounding, tails, finished, main>>
vars == <<targetVars, dscVars, dialog, soundVars>>

(***************************************************************************)
(* threat: what UpdateAllAlarms tests.  "yes" is a CPA incursion, an       *)
(* active SART (NavStatus 14) or a distress format (ShipType 12 or 16);    *)
(* "far" is a target one of the options takes out.  age: 0 recent, 1 over  *)
(* g_MarkLost_Mins, 2 old enough to be removed.  ack: b_in_ack_timeout,    *)
(* "old" once g_AckTimeout_Mins have passed.                               *)
(***************************************************************************)
Target == [life : {"free", "live"}, mmsi : Mmsis \cup {NONE},
           class : {"ship", "sart", "dsc"}, threat : {"no", "yes", "far"},
           dsc : BOOLEAN, active : BOOLEAN, age : 0 .. 2, alert : BOOLEAN,
           ack : {"no", "yes", "old"}, quiet : BOOLEAN]

Blank == [life |-> "free", mmsi |-> NONE, class |-> "ship", threat |-> "no",
          dsc |-> FALSE, active |-> FALSE, age |-> 0, alert |-> FALSE,
          ack |-> "no", quiet |-> FALSE]

TypeOK ==
  /\ list \in [Mmsis -> Mmsis \cup {NONE}] /\ tgt \in [Mmsis -> Target]
  /\ tentative \in Ships \cup {NONE} /\ lastDsc \in Ships \cup {NONE}
  /\ dscTimer \in BOOLEAN /\ dialog \in Mmsis \cup {NONE}
  /\ playing \in BOOLEAN /\ onFinished \in BOOLEAN /\ sounding \in BOOLEAN
  /\ tails \in 0 .. MaxTails /\ finished \in 0 .. 1
  /\ main \in {"idle", "play"}

Init ==
  /\ list = [m \in Mmsis |-> NONE] /\ tgt = [o \in Mmsis |-> Blank]
  /\ tentative = NONE /\ lastDsc = NONE /\ dscTimer = FALSE /\ dialog = NONE
  /\ playing = FALSE /\ onFinished = FALSE /\ sounding = FALSE
  /\ tails = 0 /\ finished = 0 /\ main = "idle"

Listed == {m \in Mmsis : list[m] # NONE}
Of(m)  == tgt[list[m]]            \* Get_Target_Data_From_MMSI

-----------------------------------------------------------------------------
(* Reports and calls. *)

(* new AIS_Target_Data: the memory of an object no list entry points to. *)
Fresh(o) == tgt[o].life = "free" /\ \A m \in Mmsis : list[m] # o
New(m) == IF Fresh(m) THEN m ELSE CHOOSE o \in Mmsis : Fresh(o)
CanStore(m) == m \in Listed \/ \E o \in Mmsis : Fresh(o)

Native(m) == IF m \in Sarts THEN "sart" ELSE "ship"
Threats(m) == {"no", "yes"} \cup
              (IF m \in Ships /\ "skip" \in Habits THEN {"far"} ELSE {})

(* Mutant: a report makes a ship of a vessel that calls for help. *)
Report_Mutant(m) ==
  LET o == IF m \in Listed THEN list[m] ELSE New(m) IN
  /\ main = "idle" /\ CanStore(m)
  /\ \E threat \in Threats(m) :
       tgt' = [tgt EXCEPT ![o] =
         [@ EXCEPT !.life = "live", !.mmsi = m, !.age = 0, !.active = TRUE,
                   !.class = Native(m), !.threat = threat]]
  /\ list' = [list EXCEPT ![m] = o]
  /\ UNCHANGED <<dscVars, dialog, soundVars>>

(* A position report, Decode and Parse_VDXBitstring.  The class and the    *)
(* ship type of a vessel that calls for help are not overwritten.          *)
Reported(t, m, threat) ==
  [t EXCEPT !.life = "live", !.mmsi = m, !.age = 0, !.active = TRUE,
            !.class = IF t.dsc /\ m \in Ships THEN t.class ELSE Native(m),
            !.threat = IF t.dsc /\ m \in Ships THEN t.threat ELSE threat]

Report(m) ==
  LET o == IF m \in Listed THEN list[m] ELSE New(m) IN
  /\ main = "idle" /\ CanStore(m)
  /\ \E threat \in Threats(m) :
       tgt' = [tgt EXCEPT ![o] = Reported(tgt[o], m, threat)]
  /\ list' = [list EXCEPT ![m] = o]
  /\ UNCHANGED <<dscVars, dialog, soundVars>>

(* Mutant: the timer is not started. *)
Dsc_Mutant(m) ==
  /\ main = "idle" /\ (tentative = NONE \/ "burst" \in Habits)
  /\ tentative' = m /\ lastDsc' = m
  /\ UNCHANGED <<targetVars, dscTimer, dialog, soundVars>>

(* ProcessDSx of a distress call: a tentative target, and a second's wait  *)
(* for the sentence that extends it.                                       *)
Dsc(m) ==
  /\ main = "idle" /\ (tentative = NONE \/ "burst" \in Habits)
  /\ tentative' = m /\ lastDsc' = m /\ dscTimer' = TRUE
  /\ UNCHANGED <<targetVars, dialog, soundVars>>

(* A DSC sentence with an unspecified position is remembered, and returns. *)
DscWithoutPosition ==
  /\ main = "idle" /\ (tentative = NONE \/ "burst" \in Habits)
  /\ lastDsc' = NONE
  /\ UNCHANGED <<targetVars, tentative, dscTimer, dialog, soundVars>>

Called(m) ==
  [Blank EXCEPT !.life = "live", !.mmsi = m, !.class = "dsc",
                !.threat = "yes", !.dsc = TRUE, !.active = TRUE]

(* Mutant: the tentative target is put under the key and then deleted. *)
Post_Mutant(m, call) ==
  LET o == IF m \in Listed THEN list[m] ELSE New(m) IN
  /\ CanStore(m)
  /\ list' = [list EXCEPT ![call] = o]
  /\ tgt' = [tgt EXCEPT ![o] = IF m \in Listed THEN Blank ELSE Called(call)]

(* The target is posted: into the object found under the MMSI m of the     *)
(* sentence (CloneFrom), or as an object of its own.                       *)
Post(m, call) ==
  LET o == IF m \in Listed THEN list[m] ELSE New(m) IN
  /\ CanStore(m)
  /\ list' = [list EXCEPT ![call] = o]
  /\ tgt' = [tgt EXCEPT ![o] = Called(call)]

(* ProcessDSx of the extension. *)
Dse(m) ==
  /\ main = "idle" /\ tentative # NONE
  /\ m = tentative \/ "mixed" \in Habits
  /\ Post(m, tentative)
  /\ tentative' = NONE /\ dscTimer' = FALSE
  /\ UNCHANGED <<lastDsc, dialog, soundVars>>

(* The last sentence is processed once more, and then accepted. *)
OnTimerDSC ==
  /\ main = "idle" /\ dscTimer
  /\ dscTimer' = FALSE
  /\ IF tentative # NONE /\ lastDsc # NONE
       THEN Post(lastDsc, lastDsc) /\ tentative' = NONE
       ELSE UNCHANGED <<targetVars, tentative>>
  /\ UNCHANGED <<lastDsc, dialog, soundVars>>

-----------------------------------------------------------------------------
(* Time and movement. *)

Drift(m) ==                              \* UpdateAllCPA, from the next tick
  /\ main = "idle" /\ m \in Listed /\ Of(m).class = "ship"
  /\ \E threat \in Threats(m) \ {Of(m).threat} :
       tgt' = [tgt EXCEPT ![list[m]].threat = threat]
  /\ UNCHANGED <<list, dscVars, dialog, soundVars>>

GrowOld(m) ==
  /\ main = "idle" /\ m \in Listed /\ Of(m).age < 2
  /\ tgt' = [tgt EXCEPT ![list[m]].age = @ + 1]
  /\ UNCHANGED <<list, dscVars, dialog, soundVars>>

Timed(t) == AckTimeout \/ t.class # "ship"

AckAges(m) ==
  /\ main = "idle" /\ m \in Listed /\ Of(m).ack = "yes" /\ Timed(Of(m))
  /\ tgt' = [tgt EXCEPT ![list[m]].ack = "old"]
  /\ UNCHANGED <<list, dscVars, dialog, soundVars>>

-----------------------------------------------------------------------------
(* OnTimerAIS *)

(* Old targets are taken off the list and deleted, by their own MMSI. *)
Expired == {k \in Mmsis : \E m \in Listed : Of(m).age = 2 /\ Of(m).mmsi = k}
Deleted == {list[k] : k \in Expired} \ {NONE}
NewList == [m \in Mmsis |-> IF m \in Expired THEN NONE ELSE list[m]]

(* UpdateAllAlarms.  The options leave the loop before the acknowledgement *)
(* is looked at.                                                           *)
Alarm(t) ==
  LET set == t.threat = "yes" /\ (t.class = "ship" => t.active)
      out == IF Timed(t) THEN t.ack = "old" ELSE ~set IN
  IF t.class = "ship" /\ t.active /\ t.threat = "far"
    THEN [t EXCEPT !.alert = FALSE]
    ELSE [t EXCEPT !.alert = set, !.ack = IF out THEN "no" ELSE @]

Pending(t) == t.active /\ t.alert /\ t.ack = "no"

(* "Reset DCS flag to open for a real AIS for the same target" *)
Reopen(t) ==
  IF t.class = "dsc" /\ t.active /\ ~(t.alert /\ t.ack = "no")
    THEN [t EXCEPT !.dsc = FALSE] ELSE t

Updated(o) ==
  LET t == tgt[o]
      u == Alarm(IF t.age > 0 THEN [t EXCEPT !.active = FALSE] ELSE t) IN
  CASE o \in Deleted -> Blank
    [] \A m \in Mmsis : NewList[m] # o -> t
    [] OTHER -> IF dialog = NONE THEN Reopen(u) ELSE u

(* The class whose alerts are shown first. *)
Chosen(cand) ==
  LET of(class) == {m \in cand : tgt'[NewList[m]].class = class} IN
  IF of("dsc") # {} THEN of("dsc")
  ELSE IF of("sart") # {} THEN of("sart") ELSE of("ship")

(* Mutant: a sound is started whether or not one is under way. *)
Sound_Mutant(on) ==
  IF on
    THEN /\ playing' = TRUE /\ onFinished' = TRUE /\ main' = "play"
         /\ UNCHANGED <<sounding, tails, finished>>
    ELSE UNCHANGED soundVars

(* Load, IsOk and SetFinishedCallback; the files can be loaded. *)
Sound(on) ==
  IF on /\ ~playing
    THEN /\ playing' = TRUE /\ onFinished' = TRUE /\ main' = "play"
         /\ UNCHANGED <<sounding, tails, finished>>
    ELSE UNCHANGED soundVars

ShowAlert(iconized) ==
  LET cand == {m \in Mmsis : NewList[m] # NONE /\ Pending(tgt'[NewList[m]])} IN
  IF cand = {}
    THEN dialog' = NONE /\ Sound(FALSE)
    ELSE /\ \E m \in Chosen(cand) : dialog' = IF iconized THEN NONE ELSE m
         /\ Sound(TRUE)

(* The dialog stays as long as its target alerts, and always with a SART.  *)
(* The flag reset beside Close is set again in the lines that follow it.   *)
KeepDialog ==
  LET t == tgt'[NewList[dialog]] IN
  IF NewList[dialog] = NONE
    THEN dialog' = NONE /\ Sound(FALSE)
    ELSE /\ dialog' = IF (t.alert /\ t.ack = "no") \/ t.class = "sart"
                        THEN dialog ELSE NONE
         /\ Sound(~t.quiet)

OnTimerAIS(iconized) ==
  /\ main = "idle" /\ (tails = 0 \/ "tail" \in Habits)
  /\ list' = NewList
  /\ tgt' = [o \in Mmsis |-> Updated(o)]
  /\ IF dialog = NONE THEN ShowAlert(iconized) ELSE KeepDialog
  /\ UNCHANGED dscVars

-----------------------------------------------------------------------------
(* The dialog. *)

(* Mutant: only a call for help is marked as acknowledged. *)
Acknowledge_Mutant ==
  /\ main = "idle" /\ dialog # NONE
  /\ dialog' = NONE
  /\ IF dialog \in Listed /\ Of(dialog).dsc
       THEN tgt' = [tgt EXCEPT ![list[dialog]] =
              [@ EXCEPT !.ack = "yes", !.alert = FALSE, !.dsc = FALSE]]
       ELSE UNCHANGED tgt
  /\ UNCHANGED <<list, dscVars, soundVars>>

(* OnIdAckClick and OnClose. *)
Answered(t) ==
  [t EXCEPT !.ack = IF t.alert THEN "yes" ELSE t.ack,
            !.alert = t.alert /\ ~t.dsc, !.dsc = FALSE]

Acknowledge ==
  /\ main = "idle" /\ dialog # NONE
  /\ dialog' = NONE
  /\ IF dialog \in Listed
       THEN tgt' = [tgt EXCEPT ![list[dialog]] = Answered(Of(dialog))]
       ELSE UNCHANGED tgt
  /\ UNCHANGED <<list, dscVars, soundVars>>

OnIdSilenceClick ==
  /\ main = "idle" /\ dialog \in Listed /\ ~Of(dialog).quiet
  /\ tgt' = [tgt EXCEPT ![list[dialog]].quiet = TRUE]
  /\ UNCHANGED <<list, dscVars, dialog, soundVars>>

-----------------------------------------------------------------------------
(* The sound. *)

(* Play: a thread, or here and now if no callback is set by then.  (Load   *)
(* has reset m_isPlaying on this thread, so it never refuses.)             *)
Play ==
  /\ main = "play" /\ main' = "idle"
  /\ sounding' = (sounding \/ onFinished)
  /\ UNCHANGED <<targetVars, dscVars, dialog, playing, onFinished, tails, finished>>

(* OcpnWxSound::worker, up to and with the call of the callback ... *)
SoundEnds ==
  /\ sounding /\ (onFinished => tails < MaxTails)
  /\ sounding' = FALSE
  /\ tails' = IF onFinished THEN tails + 1 ELSE tails
  /\ finished' = IF onFinished THEN finished + 1 ELSE finished
  /\ UNCHANGED <<targetVars, dscVars, dialog, playing, onFinished, main>>

(* ... and its m_onFinished = 0. *)
TailEnds ==
  /\ tails > 0
  /\ tails' = tails - 1 /\ onFinished' = FALSE
  /\ UNCHANGED <<targetVars, dscVars, dialog, playing, sounding, finished, main>>

(* Mutant: the flag is left set. *)
OnSoundFinishedAISAudio_Mutant ==
  /\ main = "idle" /\ finished > 0
  /\ finished' = finished - 1
  /\ UNCHANGED <<targetVars, dscVars, dialog, playing, onFinished, sounding,
                 tails, main>>

OnSoundFinishedAISAudio ==
  /\ main = "idle" /\ finished > 0
  /\ finished' = finished - 1 /\ playing' = FALSE
  /\ UNCHANGED <<targetVars, dscVars, dialog, onFinished, sounding, tails, main>>

-----------------------------------------------------------------------------
News ==
  \/ \E m \in Mmsis : Report(m) \/ Drift(m) \/ GrowOld(m) \/ AckAges(m)
  \/ \E m \in Ships : Dsc(m)
  \/ DscWithoutPosition
  \/ \E m \in Ships : Dse(m)

Iconized == IF "iconized" \in Habits THEN BOOLEAN ELSE {FALSE}

Next ==
  \/ News \/ OnTimerDSC
  \/ \E iconized \in Iconized : OnTimerAIS(iconized)
  \/ Acknowledge \/ OnIdSilenceClick
  \/ Play \/ SoundEnds \/ TailEnds \/ OnSoundFinishedAISAudio

Spec == Init /\ [][Next]_vars

(* The main thread gets to every timer and event in turn, though it is    *)
(* away now and then to start a sound, and the frame is not iconized for   *)
(* ever; the sound thread plays to its end.                                *)
Fairness ==
  /\ SF_vars(OnTimerDSC) /\ SF_vars(OnTimerAIS(FALSE))
  /\ SF_vars(OnSoundFinishedAISAudio)
  /\ WF_vars(Play) /\ WF_vars(SoundEnds) /\ WF_vars(TailEnds)

FairSpec == Spec /\ Fairness

-----------------------------------------------------------------------------
(* Properties *)

(* An MMSI leads to a target that has not been deleted, and to the target  *)
(* of that MMSI: the timer deletes a target by the MMSI the target holds.  *)
ListedTargetsAlive ==
  \A m \in Listed : Of(m).life = "live" /\ Of(m).mmsi = m

(* A call for help ends in two ways only: by the acknowledgement of the    *)
(* dialog that shows it, or when the timer deletes a target that has grown *)
(* too old.  No report of the same vessel ends it (b_isDSCtarget in        *)
(* Parse_VDXBitstring), no other alert, no tick, dialog open or not.       *)
Calling(m) == m \in Listed /\ Of(m).class = "dsc" /\ Of(m).dsc
DistressStands ==
  [][\A m \in Ships : Calling(m) =>
       \/ (Calling(m))'
       \/ dialog = m /\ Acknowledge
       \/ Of(m).age = 2 /\ m \notin Listed']_vars

(* Without an ack timeout an acknowledgement ends with the alert it was    *)
(* for, so that the next incursion of the target alerts again ("leave it   *)
(* ack'ed until it goes out of AIS_ALARM_SET state", AIS_Decoder.cpp:2382).*)
AckEndsWithAlert ==
  [][\A m \in Ships : (\E i \in Iconized : OnTimerAIS(i)) /\ m \in Listed' =>
       (Timed((Of(m))') \/ (Of(m))'.alert \/ (Of(m))'.ack = "no")]_vars

(* A distress call is posted, extended or not: it is not left tentative.   *)
DistressHeard == \A m \in Ships : tentative = m ~> Calling(m)

(* Every alert gets its dialog: once nothing new happens, and if every     *)
(* dialog is answered, no alert is left that nobody has acknowledged.      *)
AlertsAnswered ==
  <>[][~News]_vars /\ []<>(dialog = NONE) =>
    <>[](\A m \in Listed : ~Pending(Of(m)))

(* "repeated sounds for as long as the alert condition remains": an alert  *)
(* that stays on the screen and has not been silenced sounds again.        *)
AlertKeepsSounding ==
  <>[](dialog \in Listed /\ ~Of(dialog).quiet) => []<>sounding
=============================================================================
