---------------------------- MODULE DeviceSetters ----------------------------
(*
 What station.ts sends for the settings of devices of every family: power, status light, movement.
*)
EXTENDS SettingCommands

setStatusLed(d) ==
  FirstOf(<<
    Arm(\/ isCamera2Product(d) \/ isCamera3Product(d) \/ d.type \in {"CAMERA", "CAMERA_E"}
        \/ isCameraProfessional247(d) \/ (isCameraC35(d) /\ isDeviceControlledByHomeBase(d)),
        Both(Plain("CMD_DEV_LED_SWITCH"), Plain("CMD_LIVEVIEW_LED_SWITCH"))),
    Arm(\/ d.type = "FLOODLIGHT_CAMERA_8424"
        \/ (isCameraC35(d) /\ ~isDeviceControlledByHomeBase(d)),
        Doorbell("CMD_INDOOR_LED_SWITCH")),
    Arm(\/ d.type = "FLOODLIGHT_CAMERA_8423" \/ isFloodLightT8425(d)
        \/ (d.type = "FLOODLIGHT" /\ ~isFloodLightT8420X(d)) \/ isGarageCamera(d)
        \/ (isIndoorPanAndTiltCameraS350(d) /\ isDeviceControlledByHomeBase(d))
        \/ (isSoloCameras(d) /\ isDeviceControlledByHomeBase(d)), Plain("CMD_DEV_LED_SWITCH")),
    Arm(\/ isIndoorPanAndTiltCameraS350(d) \/ isStarlight4GLTE(d) \/ isIndoorCamera(d)
        \/ isFloodLight(d), Doorbell("CMD_INDOOR_LED_SWITCH")),
    Arm(isWallLightCam(d), Doorbell("CMD_DEV_LED_SWITCH")),
    Arm(isSoloCameras(d) /\ ~isDeviceControlledByHomeBase(d), Doorbell("CMD_INDOOR_LED_SWITCH")),
    Arm(\/ isBatteryDoorbellDualE340(d) \/ isBatteryDoorbellC30(d) \/ isBatteryDoorbellC31(d)
        \/ isBatteryDoorbell(d) \/ isWiredDoorbellDual(d),
        Payload("CMD_BAT_DOORBELL_SET_LED_ENABLE")),
    Arm(isWiredDoorbell(d), Doorbell("COMMAND_LED_NIGHT_OPEN"))>>)
setPanAndTiltRotationSpeed(d) == Doorbell("CMD_INDOOR_PAN_SPEED")
setPowerSource(d) ==
  FirstOf(<<
    Arm(\/ isStarlight4GLTE(d) \/ isOutdoorPanAndTiltCamera(d)
        \/ (isSoloCameras(d) /\ ~isDeviceControlledByHomeBase(d)),
        Doorbell("CMD_SET_POWER_CHARGE")),
    Otherwise(Payload("CMD_SET_POWER_CHARGE"))>>)
setPowerWorkingMode(d) == Plain("CMD_SET_PIR_POWERMODE")
setAntiTheftDetection(d) == Plain("CMD_EAS_SWITCH")
enableDevice(d) ==
  FirstOf(<<
    Arm(isIndoorCamMini(d), Doorbell("CMD_INDOOR_ENABLE_PRIVACY_MODE")),
    Arm(\/ isIndoorPanAndTiltCameraS350(d) \/ isOutdoorPanAndTiltCamera(d)
        \/ isIndoorCamera(d) /\ d.recent /\ isDeviceControlledByHomeBase(d),
        Payload("CMD_INDOOR_ENABLE_PRIVACY_MODE_S350")),
    Otherwise(Plain("CMD_DEVS_SWITCH"))>>)
setChirpTone(d) ==
  FirstOf(<<
    Arm(isEntrySensor(d), Plain("CMD_SENSOR_SET_CHIRP_TONE"))>>)
setAutoCalibration(d) ==
  FirstOf(<<
    Arm(\/ d.type = "FLOODLIGHT_CAMERA_8423" \/ isIndoorPanAndTiltCameraS350(d)
        \/ isFloodLightT8425(d), Doorbell("CMD_FLOODLIGHT_SET_AUTO_CALIBRATION"))>>)
enableDefaultAngle(d) ==
  Carrying({"DeviceDefaultAngleIdleTime"}, Doorbell("CMD_INDOOR_DEFAULT_ANGLE_ENABLE"))
setDefaultAngleIdleTime(d) == Doorbell("CMD_INDOOR_DEFAULT_ANGLE_IDLE_TIME")
==============================================================================
