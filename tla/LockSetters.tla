----------------------------- MODULE LockSetters -----------------------------
(*
 What station.ts sends for the settings of locks, safes, garage doors and delivery boxes.
*)
EXTENDS SettingCommands

AdvancedLockSettings ==
  {"DeviceAutoLock", "DeviceAutoLockTimer", "DeviceNotification", "DeviceNotificationLocked",
   "DeviceNotificationUnlocked", "DeviceOneTouchLocking", "DeviceAutoLockSchedule",
   "DeviceAutoLockScheduleStartTime", "DeviceAutoLockScheduleEndTime", "DeviceScramblePasscode",
   "DeviceWrongTryProtection", "DeviceWrongTryAttempts", "DeviceWrongTryLockdownTime",
   "DeviceSound"}
AdvancedLockSettingsT8530 ==
  (AdvancedLockSettings \ {"DeviceNotification", "DeviceSound"})
    \cup {"DeviceNightvisionOptimization", "DeviceNightvisionOptimizationSide", "DeviceBeepVolume"}
\* Every lock parameter is sent with every change.
setAdvancedLockParams(d) ==
  FirstOf(<<
    Arm(isLockWifi(d) \/ isLockWifiNoFinger(d),
        Carrying(AdvancedLockSettings, Plain("P2P_SET_LOCK_PARAM"))),
    Arm(isLockWifiVideo(d), Carrying(AdvancedLockSettingsT8530, Payload("P2P_SET_LOCK_PARAM")))>>)

\* Settings the newer locks and the safes encode together, each its own group.
LockGroup(name) ==
  CASE name \in {"DeviceWrongTryProtection", "DeviceWrongTryAttempts",
                 "DeviceWrongTryLockdownTime"} ->
         {"DeviceWrongTryProtection", "DeviceWrongTryAttempts", "DeviceWrongTryLockdownTime"}
    [] name \in {"DeviceAutoLock", "DeviceAutoLockTimer"} ->
         {"DeviceAutoLock", "DeviceAutoLockTimer"}
    [] name \in {"DeviceAutoLockSchedule", "DeviceAutoLockScheduleStartTime",
                 "DeviceAutoLockScheduleEndTime"} ->
         {"DeviceAutoLockSchedule", "DeviceAutoLockScheduleStartTime",
          "DeviceAutoLockScheduleEndTime"}
    [] OTHER -> {name}
\* The payload's own type, as the first of the group it is for.
GroupType(group) == CHOOSE name \in group : TRUE
LockV12(command) == TwoStages(Sent(<<"CMD_SET_PAYLOAD_LOCK_V12", command>>))
setLockV12Params(d, name) ==
  FirstOf(<<
    Arm(isLockV12(d),
        TwoStages(Carrying(LockGroup(name),
          Sent(<<"CMD_SET_PAYLOAD_LOCK_V12", GroupType(LockGroup(name))>>))))>>)

AutoLockGroup == LockGroup("DeviceAutoLock") \cup LockGroup("DeviceAutoLockSchedule")
SmartLockGroup(name) == IF name \in AutoLockGroup THEN AutoLockGroup ELSE LockGroup(name)
SmartLock(command) == TwoStages(Sent(<<"CMD_TRANSFER_PAYLOAD", command>>))
setSmartLockParams(d, name) ==
  FirstOf(<<
    Arm(isSmartLock(d),
        TwoStages(Carrying(SmartLockGroup(name),
          Sent(<<"CMD_TRANSFER_PAYLOAD", GroupType(SmartLockGroup(name))>>))))>>)

PushMode(d) ==
  WrittenBack(FromRaw({"DeviceNotification", "DeviceNotificationLocked",
                       "DeviceNotificationUnlocked"}, "zero",
                      Payload("CMD_DOORLOCK_SET_PUSH_MODE")))
SafeNotifications ==
  {"DeviceNotification" \o event :
     event \in {"UnlockByKey", "UnlockByPIN", "UnlockByFingerprint", "UnlockByApp", "DualUnlock",
               "DualLock", "WrongTryProtect", "Jammed"}}
SafeGroups ==
  {LockGroup("DeviceWrongTryProtection"), {"DeviceLeftOpenAlarm", "DeviceLeftOpenAlarmDuration"},
   {"DeviceInteriorBrightness", "DeviceInteriorBrightnessDuration"},
   {"DeviceRemoteUnlock", "DeviceRemoteUnlockMasterPIN"}, SafeNotifications}
SafeGroup(name) == UNION ({{name}} \cup {group \in SafeGroups : name \in group})
setSmartSafeParams(d, name) ==
  FirstOf(<<
    Arm(isSmartSafe(d),
        TwoStages(Carrying(SafeGroup(name),
          Sent(<<"CMD_SMARTSAFE_SETTINGS", GroupType(SafeGroup(name))>>))))>>)
lockDevice(d) ==
  FirstOf(<<
    Arm(isLockBleNoFinger(d) \/ isLockBle(d), Payload("CMD_DOORLOCK_DATA_PASS_THROUGH")),
    Arm(isLockWifi(d) \/ isLockWifiNoFinger(d), Plain("P2P_ON_OFF_LOCK")),
    Arm(isLockWifiVideo(d), Payload("P2P_ON_OFF_LOCK")),
    Arm(isLockV12(d), LockV12("ON_OFF_LOCK")),
    Arm(isSmartLock(d), SmartLock("ON_OFF_LOCK"))>>)
setScramblePasscode(d) ==
  FirstOf(<<
    Arm(isLockWifi(d) \/ isLockWifiNoFinger(d) \/ isLockWifiVideo(d), setAdvancedLockParams(d)),
    Arm(isLockV12(d), setLockV12Params(d, "DeviceScramblePasscode")),
    Arm(isSmartLock(d), setSmartLockParams(d, "DeviceScramblePasscode")),
    Arm(isSmartSafe(d), setSmartSafeParams(d, "DeviceScramblePasscode"))>>)
setWrongTryProtection(d) ==
  FirstOf(<<
    Arm(isLockWifi(d) \/ isLockWifiNoFinger(d) \/ isLockWifiVideo(d), setAdvancedLockParams(d)),
    Arm(isLockV12(d), setLockV12Params(d, "DeviceWrongTryProtection")),
    Arm(isSmartLock(d), setSmartLockParams(d, "DeviceWrongTryProtection")),
    Arm(isSmartSafe(d), setSmartSafeParams(d, "DeviceWrongTryProtection"))>>)
setWrongTryAttempts(d) ==
  FirstOf(<<
    Arm(isLockWifi(d) \/ isLockWifiNoFinger(d) \/ isLockWifiVideo(d), setAdvancedLockParams(d)),
    Arm(isLockV12(d), setLockV12Params(d, "DeviceWrongTryAttempts")),
    Arm(isSmartLock(d), setSmartLockParams(d, "DeviceWrongTryAttempts")),
    Arm(isSmartSafe(d), setSmartSafeParams(d, "DeviceWrongTryAttempts"))>>)
setWrongTryLockdownTime(d) ==
  FirstOf(<<
    Arm(isLockWifi(d) \/ isLockWifiNoFinger(d) \/ isLockWifiVideo(d), setAdvancedLockParams(d)),
    Arm(isLockV12(d), setLockV12Params(d, "DeviceWrongTryLockdownTime")),
    Arm(isSmartLock(d), setSmartLockParams(d, "DeviceWrongTryLockdownTime")),
    Arm(isSmartSafe(d), setSmartSafeParams(d, "DeviceWrongTryLockdownTime"))>>)
setAutoLock(d) ==
  FirstOf(<<
    Arm(isLockWifi(d) \/ isLockWifiNoFinger(d) \/ isLockWifiVideo(d), setAdvancedLockParams(d)),
    Arm(isLockV12(d), setLockV12Params(d, "DeviceAutoLock")),
    Arm(isSmartLock(d), setSmartLockParams(d, "DeviceAutoLock"))>>)
setAutoLockSchedule(d) ==
  FirstOf(<<
    Arm(isLockWifi(d) \/ isLockWifiNoFinger(d) \/ isLockWifiVideo(d), setAdvancedLockParams(d)),
    Arm(isLockV12(d), setLockV12Params(d, "DeviceAutoLockSchedule")),
    Arm(isSmartLock(d), setSmartLockParams(d, "DeviceAutoLockSchedule"))>>)
setAutoLockScheduleStartTime(d) ==
  FirstOf(<<
    Arm(isLockWifi(d) \/ isLockWifiNoFinger(d) \/ isLockWifiVideo(d), setAdvancedLockParams(d)),
    Arm(isLockV12(d), setLockV12Params(d, "DeviceAutoLockScheduleStartTime")),
    Arm(isSmartLock(d), setSmartLockParams(d, "DeviceAutoLockScheduleStartTime"))>>)
setAutoLockScheduleEndTime(d) ==
  FirstOf(<<
    Arm(isLockWifi(d) \/ isLockWifiNoFinger(d) \/ isLockWifiVideo(d), setAdvancedLockParams(d)),
    Arm(isLockV12(d), setLockV12Params(d, "DeviceAutoLockScheduleEndTime")),
    Arm(isSmartLock(d), setSmartLockParams(d, "DeviceAutoLockScheduleEndTime"))>>)
setAutoLockTimer(d) ==
  FirstOf(<<
    Arm(isLockWifi(d) \/ isLockWifiNoFinger(d) \/ isLockWifiVideo(d), setAdvancedLockParams(d)),
    Arm(isLockV12(d), setLockV12Params(d, "DeviceAutoLockTimer")),
    Arm(isSmartLock(d), setSmartLockParams(d, "DeviceAutoLockTimer"))>>)
setOneTouchLocking(d) ==
  FirstOf(<<
    Arm(isLockWifi(d) \/ isLockWifiNoFinger(d) \/ isLockWifiVideo(d), setAdvancedLockParams(d)),
    Arm(isLockV12(d), setLockV12Params(d, "DeviceOneTouchLocking")),
    Arm(isSmartLock(d), setSmartLockParams(d, "DeviceOneTouchLocking"))>>)
setSound(d) ==
  FirstOf(<<
    Arm(isLockWifi(d) \/ isLockWifiNoFinger(d), setAdvancedLockParams(d)),
    Arm(isLockV12(d), setLockV12Params(d, "DeviceSound")),
    Arm(isSmartLock(d), setSmartLockParams(d, "DeviceSound"))>>)
setNotification(d) ==
  FirstOf(<<
    Arm(isLockWifi(d) \/ isLockWifiNoFinger(d), setAdvancedLockParams(d)),
    Arm(isWallLightCam(d), Doorbell("CMD_WALL_LIGHT_NOTIFICATION")),
    Arm((isSmartLock(d) /\ ~isLockWifiT85V0(d)) \/ isLockV12(d), PushMode(d))>>)
setNotificationLocked(d) ==
  FirstOf(<<
    Arm(isLockWifi(d) \/ isLockWifiNoFinger(d) \/ isLockWifiVideo(d), setAdvancedLockParams(d)),
    Arm((isSmartLock(d) /\ ~isLockWifiT85V0(d)) \/ isLockV12(d), PushMode(d))>>)
setNotificationUnlocked(d) ==
  FirstOf(<<
    Arm(isLockWifi(d) \/ isLockWifiNoFinger(d) \/ isLockWifiVideo(d), setAdvancedLockParams(d)),
    Arm((isSmartLock(d) /\ ~isLockWifiT85V0(d)) \/ isLockV12(d), PushMode(d))>>)
setDoorControlWarning(d) ==
  FirstOf(<<
    Arm(isGarageCamera(d), Doorbell("CMD_CAMERA_GARAGE_DOOR_CONTROL_WARNING"))>>)
openDoor(d) ==
  FirstOf(<<
    Arm(isGarageCamera(d), Doorbell("CMD_CAMERA_GARAGE_DOOR_STATUS"))>>)
setLeavingDetection(d) ==
  FirstOf(<<
    Arm(isGarageCamera(d) \/ isLockWifiVideo(d), Payload("CMD_MOTION_SET_LEAVING_DETECTION"))>>)
LeavingReactions ==
  {"DeviceLeavingReaction" \o field : field \in {"Notification", "StartTime", "EndTime"}}
leavingReactions(d) ==
  FirstOf(<<
    Arm(isLockWifiVideo(d),
        Carrying(LeavingReactions, Payload("CMD_MOTION_SET_LEAVING_REACTIONS")))>>)
setBeepVolume(d) ==
  FirstOf(<<
    Arm(isLockWifiVideo(d), setAdvancedLockParams(d))>>)
setNightvisionOptimization(d) ==
  FirstOf(<<
    Arm(isLockWifiVideo(d), setAdvancedLockParams(d))>>)
setNightvisionOptimizationSide(d) ==
  FirstOf(<<
    Arm(isLockWifiVideo(d), setAdvancedLockParams(d))>>)
setOpenMethod(d) == Payload("CMD_SMART_DROP_DELIVERY_MODE")
==============================================================================
