--------------------------- MODULE PictureSetters ----------------------------
(*
 What station.ts sends for the settings of the picture: night vision, quality, recording, streaming.
*)
EXTENDS SettingCommands

setAutoNightVision(d) ==
  FirstOf(<<
    Arm(isWallLightCam(d), Doorbell("CMD_SET_NIGHT_VISION_TYPE")),
    Arm(isSoloCameraC210(d) \/ isSoloCameraSolar(d), Payload("CMD_SET_NIGHT_VISION_TYPE")),
    Otherwise(Plain("CMD_IRCUT_SWITCH"))>>)
setNightVision(d) == Payload("CMD_SET_NIGHT_VISION_TYPE")
setRecordingClipLength(d) == Plain("CMD_DEV_RECORD_TIMEOUT")
setRecordingRetriggerInterval(d) == Plain("CMD_DEV_RECORD_INTERVAL")
setVideoStreamingQuality(d) ==
  FirstOf(<<
    Arm(\/ isBatteryDoorbellDualE340(d) \/ isOutdoorPanAndTiltCamera(d)
        \/ isIndoorPanAndTiltCameraS350(d) \/ isFloodLightT8425(d)
        \/ (isCameraC35(d) /\ isDeviceControlledByHomeBase(d)),
        Payload("CMD_BAT_DOORBELL_VIDEO_QUALITY2")),
    Arm(\/ isIndoorCamera(d) \/ (isSoloCameras(d) /\ ~isDeviceControlledByHomeBase(d))
        \/ isFloodLight(d) \/ isWiredDoorbell(d) \/ isStarlight4GLTE(d) \/ isGarageCamera(d),
        Doorbell("COMMAND_VIDEO_QUALITY")),
    Arm(isWallLightCam(d), Doorbell("CMD_SET_RESOLUTION")),
    Arm(\/ isBatteryDoorbell(d) \/ isCamera2CPro(d) \/ isWiredDoorbellDual(d) \/ isCamera3(d)
        \/ isCamera3C(d) \/ isCamera3Pro(d) \/ isSmartDrop(d) \/ isLockWifiVideo(d)
        \/ isCameraProfessional247(d) \/ (isSoloCameras(d) /\ isDeviceControlledByHomeBase(d)),
        Plain("CMD_BAT_DOORBELL_VIDEO_QUALITY"))>>)
setVideoRecordingQuality(d) ==
  FirstOf(<<
    Arm(\/ isBatteryDoorbellDualE340(d) \/ isOutdoorPanAndTiltCamera(d)
        \/ isIndoorPanAndTiltCameraS350(d) \/ isFloodLightT8425(d)
        \/ (isCameraC35(d) /\ isDeviceControlledByHomeBase(d)),
        Payload("CMD_BAT_DOORBELL_RECORD_QUALITY2")),
    Arm(\/ isIndoorCamera(d) \/ isWiredDoorbell(d) \/ isFloodLight(d)
        \/ (isSoloCameras(d) /\ ~isDeviceControlledByHomeBase(d)) \/ isStarlight4GLTE(d)
        \/ isGarageCamera(d), Doorbell("COMMAND_VIDEO_RECORDING_QUALITY")),
    Arm(isWallLightCam(d), Doorbell("CMD_SET_RECORD_QUALITY")),
    Arm(\/ isCamera2CPro(d) \/ isCamera3(d) \/ isCamera3C(d) \/ isCameraProfessional247(d)
        \/ isCamera3Pro(d) \/ (isCameraC35(d) /\ isDeviceControlledByHomeBase(d))
        \/ (isSoloCameras(d) /\ isDeviceControlledByHomeBase(d)) \/ isLockWifiVideo(d),
        Payload("CMD_SET_RECORD_QUALITY"))>>)
setWDR(d) == Plain("CMD_BAT_DOORBELL_WDR_SWITCH")
setRTSPStream(d) == Plain("CMD_NAS_SWITCH")
setWatermark(d) ==
  FirstOf(<<
    Arm(\/ isCamera2Product(d) \/ isCamera3Product(d) \/ isOutdoorPanAndTiltCamera(d)
        \/ isCameraProfessional247(d) \/ isFloodLight(d) \/ isSoloCameras(d)
        \/ isWiredDoorbell(d) \/ isStarlight4GLTE(d) \/ isIndoorCamera(d) \/ isBatteryDoorbell(d)
        \/ d.type \in {"CAMERA", "CAMERA_E"} \/ isWiredDoorbellDual(d) \/ isLockWifiVideo(d),
        Plain("CMD_SET_DEVS_OSD")),
    Arm(isWallLightCam(d), Doorbell("CMD_SET_DEVS_OSD")),
    Arm(isGarageCamera(d) \/ isSmartDrop(d), Plain("CMD_SET_DEVS_OSD"))>>)
setHDR(d) ==
  FirstOf(<<
    Arm(isWiredDoorbell(d), Doorbell("COMMAND_HDR"))>>)
setDistortionCorrection(d) ==
  FirstOf(<<
    Arm(isWiredDoorbell(d), Doorbell("COMMAND_DISTORTION_CORRECTION"))>>)
setVideoNightvisionImageAdjustment(d) ==
  FirstOf(<<
    Arm(d.type = "FLOODLIGHT_CAMERA_8423",
        Doorbell("CMD_FLOODLIGHT_SET_VIDEO_NIGHTVISION_IMAGE_ADJUSTMENT"))>>)
setVideoColorNightvision(d) ==
  FirstOf(<<
    Arm(d.type = "FLOODLIGHT_CAMERA_8423",
        Doorbell("CMD_FLOODLIGHT_SET_VIDEO_COLOR_NIGHTVISION"))>>)
setContinuousRecording(d) == Doorbell("CMD_INDOOR_SET_CONTINUE_ENABLE")
setContinuousRecordingType(d) == Doorbell("CMD_INDOOR_SET_CONTINUE_TYPE")
setVideoTypeStoreToNAS(d) ==
  FirstOf(<<
    Arm("DeviceContinuousRecording" \in NamesOf(d),
        Doorbell("CMD_INDOOR_NAS_STORAGE_TYPE")
          \cup Both(Named(d, "DeviceContinuousRecording", setContinuousRecording(d)),
                    Doorbell("CMD_INDOOR_NAS_STORAGE_TYPE"))),
    Otherwise(Doorbell("CMD_INDOOR_NAS_STORAGE_TYPE"))>>)
setMirrorMode(d) == Plain("CMD_SET_MIRRORMODE")
setFlickerAdjustment(d) == Payload("CMD_SET_FLICKER_ADJUSTMENT")
==============================================================================
