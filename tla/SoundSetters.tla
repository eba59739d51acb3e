---------------------------- MODULE SoundSetters -----------------------------
(*
 What station.ts sends for the settings of microphone, speaker, recorded sound and sound detection.
*)
EXTENDS SettingCommands

setSoundDetection(d) == Doorbell("CMD_INDOOR_DET_SET_SOUND_DETECT_ENABLE")
setSoundDetectionType(d) == Doorbell("CMD_INDOOR_DET_SET_SOUND_DETECT_TYPE")
setSoundDetectionSensitivity(d) == Doorbell("CMD_INDOOR_DET_SET_SOUND_SENSITIVITY_IDX")
setMicMute(d) == Plain("CMD_SET_DEV_MIC_MUTE")
setAudioRecording(d) ==
  FirstOf(<<
    Arm(d.type = "FLOODLIGHT_CAMERA_8423" \/ isGarageCamera(d),
        Payload("CMD_SET_AUDIO_MUTE_RECORD")),
    Arm(d.type = "FLOODLIGHT" /\ ~isFloodLightT8420X(d), Payload("CMD_RECORD_AUDIO_SWITCH")),
    Arm(\/ isOutdoorPanAndTiltCamera(d)
        \/ (isIndoorPanAndTiltCameraS350(d) /\ ~isDeviceControlledByHomeBase(d))
        \/ (isFloodLight(d) /\ ~isFloodLightT8425(d))
        \/ (isIndoorCamera(d) /\ ~isIndoorPanAndTiltCameraS350(d))
        \/ (isSoloCameras(d) /\ ~isDeviceControlledByHomeBase(d)) \/ isStarlight4GLTE(d),
        Doorbell("CMD_INDOOR_SET_RECORD_AUDIO_ENABLE")),
    Arm(isWallLightCam(d), Doorbell("CMD_SET_AUDIO_MUTE_RECORD")),
    Arm(\/ isBatteryDoorbellDualE340(d) \/ isSmartDrop(d) \/ isLockWifiVideo(d)
        \/ isCameraProfessional247(d) \/ isIndoorPanAndTiltCameraS350(d) \/ isFloodLightT8425(d)
        \/ (isSoloCameras(d) /\ isDeviceControlledByHomeBase(d)) \/ isCamera2Product(d)
        \/ isCamera3Product(d) \/ isBatteryDoorbell(d) \/ d.type \in {"CAMERA", "CAMERA_E"}
        \/ isWiredDoorbellDual(d), Payload("CMD_SET_AUDIO_MUTE_RECORD")),
    Arm(isWiredDoorbellT8200X(d), Doorbell("CMD_INDOOR_SET_RECORD_AUDIO_ENABLE")),
    Arm(isWiredDoorbell(d), Doorbell("COMMAND_AUDIO_RECORDING"))>>)
enableSpeaker(d) == Plain("CMD_SET_DEV_SPEAKER_MUTE")
setSpeakerVolume(d) ==
  FirstOf(<<
    Arm(isWallLightCam(d), Doorbell("CMD_WALL_LIGHT_SPEAKER_VOLUME")),
    Otherwise(Plain("CMD_SET_DEV_SPEAKER_VOLUME"))>>)
setChirpVolume(d) ==
  FirstOf(<<
    Arm(isEntrySensor(d), Payload("CMD_SENSOR_SET_CHIRP_VOLUME"))>>)
\* Mutant: the arm of the other indoor cameras is missing.
setSoundDetectionRoundLookOfS350(d) ==
  FirstOf(<<
    Arm(isIndoorPanAndTiltCameraS350(d), Payload("CMD_INDOOR_SET_SOUND_DETECT_ROUND_LOOK_S350"))>>)
setSoundDetectionRoundLook(d) ==
  FirstOf(<<
    Arm(isIndoorPanAndTiltCameraS350(d), Payload("CMD_INDOOR_SET_SOUND_DETECT_ROUND_LOOK_S350")),
    Otherwise(Doorbell("CMD_INDOOR_SET_SOUND_DETECT_ROUND_LOOK"))>>)
setMotionActivatedPrompt(d) == Payload("CMD_SET_AUDIO_MOTION_ACTIVATED_PROMPT")
==============================================================================
