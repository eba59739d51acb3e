-------------------------- MODULE DetectionSetters ---------------------------
(*
 What station.ts sends for the settings of what a camera detects, and how sensitively.
*)
EXTENDS SettingCommands

\* Detection types are flags of one mask; a home base keeps at least one selected.
HB3DetectionTypes == {2, 4, 8, 32768, 131072}
T8170DetectionTypes == {3, 4, 32768}
EufyCamC35DetectionTypes == {3, 4, 8, 32768}
SoloCameraDetectionTypes == {3, 32771}
IndoorS350DetectionTypes == {3, 8, 32768}
DetectionMask(d, name, off) ==
  SwitchedOff(off, WrittenBack(FromRaw(Sharing(d, KeyOf(d, name)), "zero",
    Payload("CMD_SET_MOTION_DETECTION_TYPE_HB3"))))
\* A type of another family of cameras is logged and not sent.
OneOf(types, type, plan) == IF type \in types THEN plan ELSE Ignored
setMotionDetectionTypeHB3(d, name, type) ==
  FirstOf(<<
    Arm(StationType(d) \in {"HB3", "HOMEBASE_PROFESSIONAL_S1"},
        OneOf(HB3DetectionTypes, type, KeepingOne(DetectionMask(d, name,
          IF type \in {2, 131072} THEN "clears" ELSE "toggles")))),
    Arm(isOutdoorPanAndTiltCamera(d),
        OneOf(T8170DetectionTypes, type, DetectionMask(d, name, "unlessOne"))),
    Arm(isCameraC35(d),
        OneOf(EufyCamC35DetectionTypes, type, DetectionMask(d, name, "unlessOne"))),
    Arm(isSoloCameras(d),
        OneOf(SoloCameraDetectionTypes, type,
              DetectionMask(d, name, IF type = 3 THEN "stays" ELSE "covers"))),
    Arm(isIndoorPanAndTiltCameraS350(d),
        OneOf(IndoorS350DetectionTypes, type, DetectionMask(d, name, "unlessOne")))>>)
setMotionDetection(d) ==
  FirstOf(<<
    Arm(\/ isSoloCameraSolar(d) \/ isOutdoorPanAndTiltCamera(d) \/ isSoloCameraC210(d)
        \/ ((isIndoorPanAndTiltCameraS350(d) \/ isCameraC35(d)) /\ ~isDeviceControlledByHomeBase(d))
        \/ isCameraProfessional247(d) \/ (isIndoorCamera(d) /\ ~isIndoorPanAndTiltCameraS350(d))
        \/ (isFloodLight(d) /\ d.type # "FLOODLIGHT") \/ isFloodLightT8420X(d)
        \/ isWiredDoorbellT8200X(d) \/ isStarlight4GLTE(d) \/ isGarageCamera(d)
        \/ isSoloCamera(d) \/ isSoloCameras(d) \/ isWallLightCam(d),
        Doorbell("CMD_INDOOR_DET_SET_MOTION_DETECT_ENABLE")),
    Arm(isWiredDoorbell(d), Doorbell("COMMAND_MOTION_DETECTION_PACKAGE")),
    Otherwise(Plain("CMD_PIR_SWITCH"))>>)
setPetDetection(d) == Doorbell("CMD_INDOOR_DET_SET_PET_ENABLE")
setMotionDetectionSensitivity(d) ==
  FirstOf(<<
    Arm(\/ (isFloodLight(d) /\ d.type # "FLOODLIGHT" /\ ~isFloodLightT8425(d))
        \/ (isIndoorCamera(d) /\ ~isIndoorPanAndTiltCameraS350(d)) \/ isFloodLightT8420X(d)
        \/ isGarageCamera(d)
        \/ (isIndoorPanAndTiltCameraS350(d) /\ ~isDeviceControlledByHomeBase(d)),
        Doorbell("CMD_INDOOR_DET_SET_MOTION_SENSITIVITY_IDX")),
    Arm(\/ isOutdoorPanAndTiltCamera(d) \/ (isSoloCameras(d) /\ ~isDeviceControlledByHomeBase(d))
        \/ isWiredDoorbellT8200X(d) \/ isStarlight4GLTE(d), Doorbell("CMD_SET_PIR_SENSITIVITY")),
    Arm(isWallLightCam(d), Doorbell("CMD_SET_MOTION_SENSITIVITY")),
    Arm(\/ isBatteryDoorbellDualE340(d) \/ isIndoorPanAndTiltCameraS350(d) \/ isFloodLightT8425(d)
        \/ (isBatteryDoorbell(d) /\ ~isBatteryDoorbellDual(d)) \/ isWiredDoorbellDual(d)
        \/ (isBatteryDoorbell(d) /\ isBatteryDoorbellC30(d)),
        Payload("CMD_SET_MOTION_SENSITIVITY")),
    Arm(isCamera2Product(d),
        Plain("CMD_SET_PIRSENSITIVITY")),
    Arm(d.type \in {"CAMERA", "CAMERA_E"},
        Plain("CMD_SET_PIRSENSITIVITY")),
    Arm(isWiredDoorbell(d),
        Doorbell("COMMAND_MOTION_DETECTION_PACKAGE")),
    Arm(d.type = "FLOODLIGHT", Plain("CMD_SET_MDSENSITIVITY")),
    Arm(\/ isCamera3Product(d) \/ isSmartDrop(d)
        \/ (isSoloCameras(d) /\ isDeviceControlledByHomeBase(d)),
        Plain("CMD_SET_PIRSENSITIVITY"))>>)
setMotionDetectionType(d) ==
  FirstOf(<<
    Arm(\/ isCamera2Product(d) \/ isBatteryDoorbell(d) \/ d.type \in {"CAMERA", "CAMERA_E"}
        \/ isSoloCameras(d) \/ d.type = "FLOODLIGHT_CAMERA_8423" \/ isWiredDoorbellDual(d)
        \/ isStarlight4GLTE(d) \/ isGarageCamera(d) \/ isLockWifiVideo(d),
        Plain("CMD_DEV_PUSHMSG_MODE")),
    Arm(isFloodLight(d) \/ isIndoorCamera(d), Doorbell("CMD_INDOOR_DET_SET_MOTION_DETECT_TYPE")),
    Arm(isWiredDoorbellT8200X(d), Doorbell("CMD_SET_DETECT_TYPE"))>>)
setMotionZone(d) == Doorbell("CMD_INDOOR_DET_SET_ACTIVE_ZONE")
\* Mutant: the command of the setter above it is left in place.
setMotionTrackingCopied(d) == Doorbell("CMD_INDOOR_DET_SET_ACTIVE_ZONE")
setMotionTracking(d) == Doorbell("CMD_INDOOR_PAN_MOTION_TRACK")
setRecordingEndClipMotionStops(d) == Plain("CMD_DEV_RECORD_AUTOSTOP")
setMotionDetectionRange(d) ==
  FirstOf(<<
    Arm(d.type = "FLOODLIGHT_CAMERA_8423",
        Doorbell("CMD_FLOODLIGHT_SET_DETECTION_RANGE")),
    Arm(isFloodLightT8425(d), RecordOf(d, "CMD_FLOODLIGHT_SET_DETECTION_RANGE_T8425"))>>)
setMotionDetectionRangeStandardSensitivity(d) ==
  FirstOf(<<
    Arm(d.type = "FLOODLIGHT_CAMERA_8423",
        Doorbell("CMD_FLOODLIGHT_SET_DETECTION_RANGE_STD_SENSITIVITY")),
    Arm(isFloodLightT8425(d), EditingRaw(Forcing({"DeviceMotionDetectionRange"},
                 RecordOf(d, "CMD_FLOODLIGHT_SET_DETECTION_RANGE_T8425"))))>>)
setMotionDetectionRangeAdvancedLeftSensitivity(d) ==
  FirstOf(<<
    Arm(d.type = "FLOODLIGHT_CAMERA_8423",
        Doorbell("CMD_FLOODLIGHT_SET_DETECTION_RANGE_ADV_LEFT_SENSITIVITY")),
    Arm(isFloodLightT8425(d), EditingRaw(Forcing({"DeviceMotionDetectionRange"},
                 RecordOf(d, "CMD_FLOODLIGHT_SET_DETECTION_RANGE_T8425"))))>>)
setMotionDetectionRangeAdvancedMiddleSensitivity(d) ==
  FirstOf(<<
    Arm(d.type = "FLOODLIGHT_CAMERA_8423",
        Doorbell("CMD_FLOODLIGHT_SET_DETECTION_RANGE_ADV_MIDDLE_SENSITIVITY"))>>)
setMotionDetectionRangeAdvancedRightSensitivity(d) ==
  FirstOf(<<
    Arm(d.type = "FLOODLIGHT_CAMERA_8423",
        Doorbell("CMD_FLOODLIGHT_SET_DETECTION_RANGE_ADV_RIGHT_SENSITIVITY")),
    Arm(isFloodLightT8425(d), EditingRaw(Forcing({"DeviceMotionDetectionRange"},
                 RecordOf(d, "CMD_FLOODLIGHT_SET_DETECTION_RANGE_T8425"))))>>)
setMotionDetectionTestMode(d) ==
  FirstOf(<<
    Arm(d.type \in {"FLOODLIGHT_CAMERA_8423", "FLOODLIGHT"}, Plain("CMD_SET_PIR_TEST_MODE")),
    Arm(isFloodLightT8425(d), RecordOf(d, "CMD_FLOODLIGHT_SET_DETECTION_RANGE_T8425"))>>)
setMotionTrackingSensitivity(d) ==
  FirstOf(<<
    Arm(d.type = "FLOODLIGHT_CAMERA_8423",
        Doorbell("CMD_FLOODLIGHT_SET_MOTION_TRACKING_SENSITIVITY"))>>)
setMotionAutoCruise(d) ==
  FirstOf(<<
    Arm(\/ d.type = "FLOODLIGHT_CAMERA_8423" \/ isIndoorPanAndTiltCameraS350(d)
        \/ isFloodLightT8425(d), Doorbell("CMD_FLOODLIGHT_SET_MOTION_AUTO_CRUISE"))>>)
setMotionOutOfViewDetection(d) ==
  FirstOf(<<
    Arm(d.type = "FLOODLIGHT_CAMERA_8423",
        Doorbell("CMD_FLOODLIGHT_SET_MOTION_OUT_OF_VIEW_DETECTION")),
    Arm(isFloodLightT8425(d), Payload("CMD_FLOODLIGHT_SET_MOTION_OUT_OF_VIEW_DETECTION"))>>)
setLoiteringDetection(d) ==
  FirstOf(<<
    Arm(isBatteryDoorbellDual(d) \/ isLockWifiVideo(d),
        Payload("CMD_DOORBELL_DUAL_RADAR_WD_SWITCH"))>>)
setLoiteringDetectionRange(d) ==
  FirstOf(<<
    Arm(isBatteryDoorbellDual(d) \/ isLockWifiVideo(d),
        Payload("CMD_DOORBELL_DUAL_RADAR_WD_DISTANCE"))>>)
setLoiteringDetectionLength(d) ==
  FirstOf(<<
    Arm(isBatteryDoorbellDual(d) \/ isLockWifiVideo(d),
        Payload("CMD_DOORBELL_DUAL_RADAR_WD_TIME"))>>)
SensitivityAreas == {"DeviceMotionDetectionSensitivityAdvanced" \o area :
                       area \in {"A", "B", "C", "D", "E", "F", "G", "H"}}
\* Mode, the standard sensitivity and the areas travel in one command.
motionDetectionSensitivity(d) ==
  FirstOf(<<
    Arm(isBatteryDoorbellDual(d) \/ isLockWifiVideo(d),
        Payload("CMD_DOORBELL_DUAL_RADAR_WD_DETECTION_SENSITIVITY"))>>)
setMotionDetectionSensitivityMode(d) ==
  Carrying({"DeviceMotionDetectionSensitivityStandard"}, motionDetectionSensitivity(d))
    \cup Carrying(SensitivityAreas, motionDetectionSensitivity(d))
setMotionDetectionSensitivityStandard(d) ==
  Forcing({"DeviceMotionDetectionSensitivityMode"}, motionDetectionSensitivity(d))
setMotionDetectionSensitivityAdvanced(d) ==
  Forcing({"DeviceMotionDetectionSensitivityMode"},
          Carrying(SensitivityAreas, motionDetectionSensitivity(d)))
LoiteringResponses ==
  {"DeviceLoiteringCustomResponse" \o field :
     field \in {"AutoVoiceResponse", "AutoVoiceResponseVoice", "HomeBaseNotification",
               "PhoneNotification", "TimeFrom", "TimeTo"}}
loiteringCustomResponse(d) ==
  FirstOf(<<
    Arm(isBatteryDoorbellDual(d) \/ isLockWifiVideo(d),
        Carrying(LoiteringResponses, Payload("CMD_DOORBELL_DUAL_RADAR_WD_AUTO_RESPONSE")))>>)
setMotionDetectionTypeHuman(d) ==
  FirstOf(<<
    Arm(isWallLightCam(d), Doorbell("CMD_WALL_LIGHT_MOTION_DETECTION_TYPE_HUMAN"))>>)
setMotionDetectionTypeAllOtherMotions(d) ==
  FirstOf(<<
    Arm(isWallLightCam(d), Doorbell("CMD_WALL_LIGHT_MOTION_DETECTION_TYPE_ALL"))>>)
==============================================================================
