------------------------- MODULE NotificationSetters -------------------------
(*
 What station.ts sends for the settings of the notifications an application receives.
*)
EXTENDS SettingCommands

\* The three settings that share the doorbells' notification command.
NotificationMode ==
  Carrying({"DeviceNotificationRing", "DeviceNotificationMotion", "DeviceNotificationType"},
           Payload("CMD_BAT_DOORBELL_SET_NOTIFICATION_MODE"))
setNotificationType(d) ==
  FirstOf(<<
    Arm(\/ isFloodLight(d) /\ ~isFloodLightT8425(d)
        \/ isIndoorCamera(d) /\ ~isIndoorPanAndTiltCameraS350(d)
        \/ isSoloCameras(d) /\ ~isDeviceControlledByHomeBase(d)
        \/ isStarlight4GLTE(d) \/ isGarageCamera(d)
        \/ isIndoorPanAndTiltCameraS350(d) /\ ~isDeviceControlledByHomeBase(d)
        \/ isWiredDoorbellT8200X(d),
        Doorbell("CMD_INDOOR_PUSH_NOTIFY_TYPE")),
    Arm(isWallLightCam(d), Doorbell("CMD_WALL_LIGHT_NOTIFICATION_TYPE")),
    Arm(\/ isBatteryDoorbellDualE340(d) \/ isLockWifiVideo(d)
        \/ isBatteryDoorbell(d) \/ isWiredDoorbellDual(d), NotificationMode),
    Arm(\/ isCameraProfessional247(d) \/ isFloodLightT8425(d)
        \/ (isIndoorPanAndTiltCameraS350(d) \/ isSoloCameras(d)) /\ isDeviceControlledByHomeBase(d)
        \/ isCamera2Product(d) \/ d.type \in {"CAMERA", "CAMERA_E"} \/ isCamera3Product(d),
        Payload("CMD_SET_PUSH_EFFECT")),
    Arm(isWiredDoorbell(d), Doorbell("COMMAND_NOTIFICATION_TYPE"))>>)
setNotificationPerson(d) ==
  FirstOf(<<
    Arm(isIndoorCamera(d) \/ isGarageCamera(d), Doorbell("CMD_INDOOR_AI_PERSON_ENABLE")),
    Arm(isWallLightCam(d), Doorbell("CMD_WALL_LIGHT_NOTIFICATION_TYPE_HUMAN"))>>)
setNotificationPet(d) ==
  FirstOf(<<
    Arm(isIndoorCamera(d), Doorbell("CMD_INDOOR_AI_PET_ENABLE"))>>)
setNotificationAllOtherMotion(d) ==
  FirstOf(<<
    Arm(isIndoorCamera(d) \/ isGarageCamera(d), Doorbell("CMD_INDOOR_AI_MOTION_ENABLE")),
    Arm(isWallLightCam(d), Doorbell("CMD_WALL_LIGHT_NOTIFICATION_TYPE_ALL"))>>)
setNotificationAllSound(d) ==
  FirstOf(<<
    Arm(isIndoorCamera(d), Doorbell("CMD_INDOOR_AI_SOUND_ENABLE"))>>)
setNotificationCrying(d) ==
  FirstOf(<<
    Arm(isIndoorCamera(d), Doorbell("CMD_INDOOR_AI_CRYING_ENABLE"))>>)
setNotificationRing(d) ==
  FirstOf(<<
    Arm(isBatteryDoorbell(d) \/ isWiredDoorbellDual(d) \/ isLockWifiVideo(d), NotificationMode),
    Arm(isWiredDoorbell(d),
        Carrying({"DeviceNotificationRing", "DeviceNotificationMotion"},
                 Doorbell("COMMAND_NOTIFICATION_RING")))>>)
setNotificationMotion(d) ==
  FirstOf(<<
    Arm(isBatteryDoorbell(d) \/ isWiredDoorbellDual(d) \/ isLockWifiVideo(d), NotificationMode),
    Arm(isWiredDoorbell(d),
        Carrying({"DeviceNotificationRing", "DeviceNotificationMotion"},
                 Doorbell("COMMAND_NOTIFICATION_RING")))>>)
setNotificationRadarDetector(d) ==
  FirstOf(<<
    Arm(isBatteryDoorbellDual(d), Payload("CMD_DOORBELL_DUAL_NOTIFICATION_HUMAN_DETECT"))>>)
setNotificationIntervalTime(d) == Plain("CMD_DEV_RECORD_INTERVAL")
\* Notification kinds that are flags of one mask.
NotificationMask(d, name, unknown) ==
  SwitchedOff("toggles", WrittenBack(FromRaw(Sharing(d, KeyOf(d, name)), unknown,
    Payload("CMD_INDOOR_SET_MOTION_DETECTION_TYPE"))))
setNotificationIndoor(d, name) ==
  FirstOf(<<Arm(isIndoorPanAndTiltCameraS350(d), NotificationMask(d, name, "zero"))>>)
setNotificationFloodlightT8425(d, name) ==
  FirstOf(<<Arm(isFloodLightT8425(d) \/ isCameraC35(d),
    NotificationMask(d, name, IF name = "DeviceNotificationVehicle" THEN "zero" ELSE "floor"))>>)
==============================================================================
