------------------------------ MODULE MCSettings ------------------------------
(*
 Settings with the menus of every kind of device, as SettingPlans gives them.
 A run does not need all the settings of a device at once: two settings matter
 to each other when one's command carries, overwrites or shows the other, or
 when the two share a command.  Each such pair, and each single setting, is a
 menu of its own; menus of the same form are one, as are a menu and its mirror image.

 What the code does not do, or does wrong, is listed by model, hub and setting:
 KnownGaps and KnownDefects name the combinations, and no others are exempt.
*)
EXTENDS Settings, TLC

P == INSTANCE SettingPlans

\* Devices with a station of their own, and devices behind each kind of home base.
Kind(type, sn, hub, role, recent) ==
  [type |-> type, sn |-> sn, hub |-> hub, role |-> role, recent |-> recent]
Paired(type) == LET d == Kind(type, "", "own", "device", TRUE)
                IN  P!isCamera(d) \/ P!isLock(d) \/ P!isSensor(d)
OwnHub(type) == type \in DOMAIN P!StationProperties
Shared == {<<"FLOODLIGHT", "T8420X">>, <<"DOORBELL", "T8200X">>, <<"LOCK_WIFI", "T8510P">>,
           <<"LOCK_WIFI", "T8520P">>}
Models == {<<type, "">> : type \in DOMAIN P!DeviceProperties} \cup Shared
DeviceKinds ==
  {Kind(m[1], m[2], "own", "device", r) : m \in {k \in Models : OwnHub(k[1])}, r \in BOOLEAN}
  \cup {Kind(m[1], "", hub, "device", TRUE) :
          m \in {k \in Models : k[2] = "" /\ (Paired(k[1]) \/ ~OwnHub(k[1]))},
          hub \in {"STATION", "HB3", "HOMEBASE_MINI"}}
StationKinds == {Kind(t, "", "own", "station", r) : t \in DOMAIN P!StationProperties, r \in BOOLEAN}
\* Models that share a type with another are told apart by their serial number.
Model(d) == IF d.sn = "" THEN d.type ELSE d.sn
AllModels == {Model(d) : d \in DeviceKinds}
Hubs == {"own", "STATION", "HB3", "HOMEBASE_MINI"}
Everywhere(models, settings) == models \X Hubs \X settings
On(hubs, models, settings) == models \X hubs \X settings

\* Families of models by the detection types their setter knows.
Device(names) == {"Device" \o n : n \in names}
Detects(names) == {"DeviceMotionDetectionType" \o n : n \in names}
DetectionTypes == Detects({"Human", "HumanRecognition", "Pet", "Vehicle", "AllOtherMotions"})
SoloModels ==
  {"SOLO_CAMERA", "SOLO_CAMERA_C210", "SOLO_CAMERA_PRO", "SOLO_CAMERA_SOLAR",
   "SOLO_CAMERA_SPOTLIGHT_1080", "SOLO_CAMERA_SPOTLIGHT_2K", "SOLO_CAMERA_SPOTLIGHT_SOLAR"}
OutdoorPanModels ==
  {"OUTDOOR_PT_CAMERA", "CAMERA_4G_S330", "CAMERA_S4", "SOLOCAM_E42", "SOLO_CAMERA_E30"}
IndoorPanModels ==
  {"INDOOR_PT_CAMERA_C210", "INDOOR_PT_CAMERA_C220", "INDOOR_PT_CAMERA_E30", "INDOOR_PT_CAMERA_S350"}
WallLights == {"WALL_LIGHT_CAM", "WALL_LIGHT_CAM_81A0"}
DetectionsOf(model) ==
  CASE model \in SoloModels \cup WallLights -> Detects({"Human", "AllOtherMotions"})
    [] model \in OutdoorPanModels -> Detects({"Human", "Vehicle", "AllOtherMotions"})
    [] model \in IndoorPanModels -> Detects({"Human", "Pet", "AllOtherMotions"})
    [] model = "CAMERA_C35" -> Detects({"Human", "Pet", "Vehicle", "AllOtherMotions"})
    [] OTHER -> {}

\* Writeable settings without a working setter, by model and hub.
AlarmGaps ==
  On({"own"}, DOMAIN P!StationProperties,
     {"Station" \o n : n \in {"AlarmType", "AlarmArmDelay", "AlarmDelay", "AlarmDelayType"}})
DetectionGaps ==
  UNION {On({"HOMEBASE_MINI"}, {m}, DetectionTypes \ DetectionsOf(m)) : m \in AllModels}
    \cup On({"STATION"}, {"CAMERA_POE_S4"}, DetectionTypes)
    \cup On({"HB3"}, OutdoorPanModels \cup IndoorPanModels \cup {"CAMERA_C35"}, Detects({"Human"}))
    \cup On({"HB3"}, SoloModels, Detects({"Human", "AllOtherMotions"}))
    \cup On({"STATION"}, {"CAMERA3", "CAMERA3C", "CAMERA3_PRO", "CAMERA_POE_S4", "PROFESSIONAL_247"},
            Device({"MotionDetectionType"}))
    \cup On({"STATION", "own"}, {"SMART_DROP"}, Device({"MotionDetectionType"}))
LockGaps ==
  Everywhere({"LOCK_8531", "LOCK_85D0"},
    Device({"AutoLock", "AutoLockSchedule", "AutoLockScheduleEndTime", "AutoLockScheduleStartTime",
            "AutoLockTimer", "Locked", "Notification", "NotificationLocked", "NotificationUnlocked",
            "OneTouchLocking", "ScramblePasscode", "Sound", "WrongTryAttempts",
            "WrongTryLockdownTime", "WrongTryProtection"}))
    \cup Everywhere({"LOCK_85V0"},
           Device({"NotificationLocked", "NotificationUnlocked", "BeepVolume", "LeavingDetection",
                   "LeavingReactionNotification", "LeavingReactionStartTime",
                   "LeavingReactionEndTime", "NightvisionOptimization",
                   "NightvisionOptimizationSide", "VideoRecordingQuality"}))
    \cup Everywhere({"LOCK_8530"}, Device({"ChimeIndoor"}))
CameraGaps ==
  Everywhere({"CAMERA_POE_S4", "FLOODLIGHT_CAMERA_8426"},
    Device({"DualCamWatchViewMode", "NotificationAllOtherMotion", "NotificationPerson",
            "NotificationPet", "NotificationVehicle"}))
    \cup Everywhere({"CAMERA_POE_S4"},
           Device({"AudioRecording", "Light", "LightSettingsBrightnessManual",
                   "MotionDetectionSensitivity", "NotificationAllSound", "NotificationCrying",
                   "NotificationType", "StatusLed", "Watermark"}))
    \cup Everywhere({"FLOODLIGHT_CAMERA_8426"},
           Device({"AutoCalibration", "LightSettingsMotionActivationMode", "MotionAutoCruise",
                   "MotionDetectionRange", "MotionDetectionRangeAdvancedLeftSensitivity",
                   "MotionDetectionRangeAdvancedRightSensitivity",
                   "MotionDetectionRangeStandardSensitivity", "MotionOutOfViewDetection"}))
    \cup Everywhere({"FLOODLIGHT_CAMERA_8426", "ENTRY_SENSOR_E20"}, Device({"MotionDetectionTestMode"}))
    \cup Everywhere({"BATTERY_DOORBELL_C30", "BATTERY_DOORBELL_C31", "CAMERA_E40", "CAMERA_POE_S4"},
                   Device({"VideoRecordingQuality"}))
    \cup Everywhere({"CAMERA_E40", "CAMERA_POE_S4"}, Device({"VideoStreamingQuality"}))
    \cup Everywhere({"CAMERA_4G_S330", "CAMERA_POE_S4", "CAMERA_S4", "SOLOCAM_E42"},
                   Device({"LightSettingsMotionTriggered"}))
KnownGaps == AlarmGaps \cup DetectionGaps \cup LockGaps \cup CameraGaps

\* Settings with each of the defects, by model and hub.  A home base keeps one
\* detection type on; the other masks are toggled, and the solo cameras switch
\* to their other detection type.
FlagsStayOn ==
  (On({"HB3"}, AllModels, DetectionTypes)
     \ (DetectionGaps \cup On({"HB3"}, WallLights, Detects({"Human", "AllOtherMotions"}))))
    \cup UNION {On(Hubs \ {"HB3"}, {m}, DetectionsOf(m)) :
                 m \in OutdoorPanModels \cup IndoorPanModels \cup {"CAMERA_C35"}}
    \cup On(Hubs \ {"HB3"}, SoloModels, Detects({"Human"}))
    \cup Everywhere(IndoorPanModels,
           Device({"NotificationPerson", "NotificationPet", "NotificationAllOtherMotion",
                   "NotificationAllSound", "NotificationCrying"}))
    \cup Everywhere({"CAMERA_C35", "FLOODLIGHT_CAMERA_8425"},
           Device({"NotificationPerson", "NotificationPet", "NotificationAllOtherMotion",
                   "NotificationVehicle"}))
\* Locks whose settings are shown when the hub accepts them.
HubAnswers ==
  Everywhere({"LOCK_8502", "LOCK_8506", "T8510P", "T8520P", "LOCK_85L0", "LOCK_85P0", "LOCK_85V0"},
    Device({"AutoLock", "AutoLockSchedule", "AutoLockScheduleEndTime", "AutoLockScheduleStartTime",
            "AutoLockTimer", "Locked", "OneTouchLocking", "ScramblePasscode", "Sound",
            "WrongTryAttempts", "WrongTryLockdownTime", "WrongTryProtection"}))
KnownDefects ==
  [stays_on |-> FlagsStayOn,
   overwritten |-> Everywhere({"BATTERY_DOORBELL_PLUS", "LOCK_8530", "LOCK_85V0"},
                             Device({"MotionDetectionSensitivityMode"})),
   raw_behind |-> On({"HB3"}, WallLights, Detects({"Human", "AllOtherMotions"})),
   hub_answer |-> HubAnswers,
   left_to_report |-> Everywhere(AllModels, Device({"Light"})) \ CameraGaps]

\* What a device offers: each setting with its plan.  touched are the settings its
\* commands concern; labels are its commands without the settings that another
\* command for the same setting would differ in.
Touched(c) == {c.name, c.shows} \cup c.fromShown \cup c.fromRaw \cup c.forces \cup c.tells
\* Settings told apart by a field of the payload: the package command of the wired
\* doorbell, the number of the garage door, the mode of a sensitivity.
ToldApart ==
  {"COMMAND_MOTION_DETECTION_PACKAGE", "CMD_CAMERA_GARAGE_DOOR_STATUS",
   "CMD_DOORBELL_DUAL_RADAR_WD_DETECTION_SENSITIVITY"}
Offer(setting, plan) ==
  LET cmds == CommandsOf(plan)
  IN  [name |-> setting.name, key |-> setting.key, plan |-> plan,
       touched |-> UNION {Touched(c) : c \in cmds} \cup {setting.name},
       showing |-> UNION {{c.name, c.shows} : c \in cmds} \cup {setting.name},
       wires |-> {w \in {c.wire : c \in {k \in cmds : k.name = setting.name}} :
                    \A i \in DOMAIN w : w[i] \notin ToldApart},
       flagged |-> \E c \in cmds : c.off # "clears" \/ c.keepsOne]
OffersOf(d) == {Offer(s, P!PlanOf(d, s.name)) : s \in d.settings}
\* Two settings sent as the same command, neither of which carries the other.
Clash(a, b) == a.wires \cap b.wires # {} /\ a.name \notin b.touched /\ b.name \notin a.touched
Related(a, b) == b.name \in a.touched \/ a.name \in b.touched \/ Clash(a, b)

\* A command in terms of the settings at hand, under their new names.
Projected(c, to) ==
  LET In(names) == {to[n] : n \in names \cap DOMAIN to}
  IN  [name |-> to[c.name], shows |-> to[c.shows], fromShown |-> In(c.fromShown),
       fromRaw |-> In(c.fromRaw), unknown |-> c.unknown, off |-> c.off, keepsOne |-> c.keepsOne,
       edits |-> c.edits, back |-> c.back, forces |-> In(c.forces), tells |-> In(c.tells),
       stages |-> c.stages, on |-> c.on]
Translated(plan, to) == {[i \in DOMAIN cmds |-> Projected(cmds[i], to)] : cmds \in plan}
\* How many flags of further settings may be on: none, one or several.
Further(a, names) ==
  {k \in 0..2 : k = 0 \/ (a.flagged /\ k <= Cardinality(a.touched \ names))}
ListedFor(d, offers, known) ==
  [x \in Defects |-> {n \in {o.name : o \in offers} : <<Model(d), d.hub, n>> \in known[x]}]
Renamed(listed, to) == [x \in Defects |-> {to[n] : n \in listed[x] \cap DOMAIN to}]
Pair(listed, a, b) ==
  LET to == (a.name :> "p") @@ (b.name :> "q")
  IN  [of |-> <<"any", "any">>, names |-> {"p", "q"},
       key |-> [p |-> "k", q |-> IF a.key = b.key THEN "k" ELSE "l"],
       plan |-> [p |-> Translated(a.plan, to), q |-> Translated(b.plan, to)],
       objects |-> {to[o.name] : o \in {x \in {a, b} : \E c \in CommandsOf(x.plan) : c.unknown = "drop"}},
       others |-> Further(a, DOMAIN to), listed |-> Renamed(listed, to), clash |-> Clash(a, b)]
Single(listed, a, of, name) ==
  LET to == a.name :> name
  IN  [of |-> of, names |-> {name}, key |-> (name :> "k"),
       plan |-> (name :> Translated(a.plan, to)),
       objects |-> {x \in {name} : \E c \in CommandsOf(a.plan) : c.unknown = "drop"},
       others |-> Further(a, {a.name}), listed |-> Renamed(listed, to), clash |-> FALSE]
TurnedAway(a) == a.plan \in {{}, {<<>>}}
PairsOf(offers) ==
  {ab \in offers \X offers :
     /\ ab[1].name # ab[2].name /\ Related(ab[1], ab[2])
     /\ ~TurnedAway(ab[1]) /\ ~TurnedAway(ab[2])}
MenusOf(d, known) ==
  LET offers == OffersOf(d)
      listed == ListedFor(d, offers, known)
      turnedAway == {a \in offers : TurnedAway(a)}
      single == {a \in offers \ turnedAway : a.touched = {a.name}}
      closed == {ab \in PairsOf(offers) :
                   ab[1].showing \cup ab[2].showing \subseteq {ab[1].name, ab[2].name}}
  IN  {Single(listed, a, <<Model(d), d.hub>>, a.name) : a \in turnedAway}
      \cup {Single(listed, a, <<"any", "any">>, "p") : a \in single}
      \cup {CHOOSE m \in {Pair(listed, ab[1], ab[2]), Pair(listed, ab[2], ab[1])} : TRUE : ab \in closed}
AllKinds == {P!Equipped(d) : d \in DeviceKinds \cup StationKinds}
AllMenus ==
  LET known == KnownDefects
  IN  {m \in UNION {MenusOf(d, known) : d \in AllKinds} : m.names # {}}

\* What the theorems about Settings assume holds of every kind of device.
ASSUME MenusAreTruthful == \A m \in AllMenus : Truthful(m)
\* Nothing is exempt without need: no combination listed as a gap is served, and for
\* each listed defect some command of the setting is not truthful without it.
ASSUME GapsAreReal ==
  LET gaps == KnownGaps
  IN  \A d \in AllKinds : \A a \in OffersOf(d) :
        <<Model(d), d.hub, a.name>> \in gaps => TurnedAway(a)
Needed(m, defect) == ~Truthful([m EXCEPT !.listed[defect] = @ \ {"p"}])
ASSUME DefectsAreReal ==
  LET known == KnownDefects
  IN  \A d \in AllKinds :
        LET offers == OffersOf(d)
            listed == ListedFor(d, offers, known)
        IN  \A defect \in Defects : \A a \in offers :
              a.name \in listed[defect] =>
                \/ Needed(Single(listed, a, <<"any", "any">>, "p"), defect)
                \/ \E ab \in PairsOf(offers) : ab[1] = a /\ Needed(Pair(listed, a, ab[2]), defect)
==============================================================================
