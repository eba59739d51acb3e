--------------------------- MODULE CameraSettings ----------------------------
(*
 The writeable properties of cameras that concern what they see, hear, record
 and light, as SettingTables has the others.
*)
EXTENDS SettingTables

DeviceAutoNightvisionProperty == Setting("DeviceAutoNightvision", "CMD_IRCUT_SWITCH")
DeviceAutoNightvisionWiredDoorbellProperty == Setting("DeviceAutoNightvision", "NIGHT_VISUAL")
DeviceAutoNightvisionSoloProperty == Setting("DeviceAutoNightvision", "CMD_SET_NIGHT_VISION_TYPE")
DeviceNightvisionProperty == Setting("DeviceNightvision", "CMD_SET_NIGHT_VISION_TYPE")
DeviceNightvisionS350Property == Setting("DeviceNightvision", "CMD_SET_NIGHT_VISION_TYPE")
DeviceNightvisionCameraC35Property == Setting("DeviceNightvision", "CMD_SET_NIGHT_VISION_TYPE")
DeviceMotionDetectionProperty == Setting("DeviceMotionDetection", "CMD_PIR_SWITCH")
DeviceMotionDetectionIndoorSoloFloodProperty ==
  Setting("DeviceMotionDetection", "CMD_INDOOR_DET_SET_MOTION_DETECT_ENABLE")
DeviceMotionDetectionDoorbellProperty == Setting("DeviceMotionDetection", "DETECT_SWITCH")
DeviceSoundDetectionProperty ==
  Setting("DeviceSoundDetection", "CMD_INDOOR_DET_SET_SOUND_DETECT_ENABLE")
DeviceWatermarkProperty == Setting("DeviceWatermark", "CMD_SET_DEVS_OSD")
DeviceWatermarkIndoorFloodProperty == Setting("DeviceWatermark", "CMD_SET_DEVS_OSD")
DeviceWatermarkSoloWiredDoorbellProperty == Setting("DeviceWatermark", "CMD_SET_DEVS_OSD")
DeviceWatermarkBatteryDoorbellCamera1Property == Setting("DeviceWatermark", "CMD_SET_DEVS_OSD")
DeviceWatermarkGarageCameraProperty == Setting("DeviceWatermark", "CMD_SET_DEVS_OSD")
DeviceMotionHB3DetectionTypeHumanProperty ==
  Setting("DeviceMotionDetectionTypeHuman", "CMD_SET_MOTION_DETECTION_TYPE_HB3")
DeviceMotionDetectionTypeHumanWallLightProperty ==
  Setting("DeviceMotionDetectionTypeHuman", "CMD_WALL_LIGHT_MOTION_DETECTION_TYPE_HUMAN")
DeviceMotionHB3DetectionTypeHumanRecognitionProperty ==
  Setting("DeviceMotionDetectionTypeHumanRecognition", "CMD_SET_MOTION_DETECTION_TYPE_HB3")
DeviceMotionHB3DetectionTypePetProperty ==
  Setting("DeviceMotionDetectionTypePet", "CMD_SET_MOTION_DETECTION_TYPE_HB3")
DeviceMotionHB3DetectionTypeVehicleProperty ==
  Setting("DeviceMotionDetectionTypeVehicle", "CMD_SET_MOTION_DETECTION_TYPE_HB3")
DeviceMotionHB3DetectionTypeAllOtherMotionsProperty ==
  Setting("DeviceMotionDetectionTypeAllOtherMotions", "CMD_SET_MOTION_DETECTION_TYPE_HB3")
DeviceMotionDetectionTypeAllOtherMotionsWalllightProperty ==
  Setting("DeviceMotionDetectionTypeAllOtherMotions", "CMD_WALL_LIGHT_MOTION_DETECTION_TYPE_ALL")
DeviceMotionDetectionTypeProperty == Setting("DeviceMotionDetectionType", "CMD_DEV_PUSHMSG_MODE")
DeviceMotionDetectionTypeT8200XProperty ==
  Setting("DeviceMotionDetectionType", "CMD_SET_DETECT_TYPE")
DeviceMotionDetectionCamera1Property ==
  Setting("DeviceMotionDetectionType", "CMD_DEV_PUSHMSG_MODE")
DeviceMotionDetectionTypeFloodlightT8423Property ==
  Setting("DeviceMotionDetectionType", "CMD_DEV_PUSHMSG_MODE")
DeviceMotionDetectionTypeFloodlightProperty ==
  Setting("DeviceMotionDetectionType", "CMD_INDOOR_DET_SET_MOTION_DETECT_TYPE")
DeviceMotionDetectionTypeIndoorProperty ==
  Setting("DeviceMotionDetectionType", "CMD_INDOOR_DET_SET_MOTION_DETECT_TYPE")
DeviceMotionDetectionTypeIndoorMiniProperty ==
  Setting("DeviceMotionDetectionType", "CMD_INDOOR_DET_SET_MOTION_DETECT_TYPE")
DeviceMotionDetectionSensitivityCamera2Property ==
  Setting("DeviceMotionDetectionSensitivity", "CMD_SET_PIRSENSITIVITY")
DeviceMotionDetectionSensitivityCamera1Property ==
  Setting("DeviceMotionDetectionSensitivity", "CMD_SET_PIRSENSITIVITY")
DeviceMotionDetectionSensitivityIndoorProperty ==
  Setting("DeviceMotionDetectionSensitivity", "CMD_INDOOR_DET_SET_MOTION_SENSITIVITY_IDX")
DeviceMotionDetectionSensitivityBatteryDoorbellProperty ==
  Setting("DeviceMotionDetectionSensitivity", "CMD_SET_MOTION_SENSITIVITY")
DeviceMotionDetectionSensitivityDoorbellE340Property ==
  Setting("DeviceMotionDetectionSensitivity", "CMD_SET_MOTION_SENSITIVITY")
DeviceMotionDetectionSensitivityWiredDoorbellProperty ==
  Setting("DeviceMotionDetectionSensitivity", "custom_motionDetectionSensitivity")
DeviceMotionDetectionSensitivitySoloProperty ==
  Setting("DeviceMotionDetectionSensitivity", "CMD_SET_PIR_SENSITIVITY")
DeviceMotionDetectionSensitivityFloodlightT8420Property ==
  Setting("DeviceMotionDetectionSensitivity", "CMD_SET_MDSENSITIVITY")
DeviceMotionDetectionSensitivityGarageCameraProperty ==
  Setting("DeviceMotionDetectionSensitivity", "CMD_SET_MOTION_SENSITIVITY")
DeviceMotionZoneProperty == Setting("DeviceMotionZone", "CMD_INDOOR_DET_SET_ACTIVE_ZONE")
DeviceFloodlightLightProperty == Setting("DeviceLight", "CMD_SET_FLOODLIGHT_MANUAL_SWITCH")
DeviceFloodlightLightSettingsEnableProperty ==
  Setting("DeviceLightSettingsEnable", "CMD_SET_FLOODLIGHT_TOTAL_SWITCH")
DeviceFloodlightLightSettingsBrightnessManualProperty ==
  Setting("DeviceLightSettingsBrightnessManual", "CMD_SET_FLOODLIGHT_BRIGHT_VALUE")
DeviceLightSettingsBrightnessManualCamera3Property ==
  Setting("DeviceLightSettingsBrightnessManual", "CMD_SET_FLOODLIGHT_BRIGHT_VALUE")
DeviceCameraLightSettingsBrightnessManualProperty ==
  Setting("DeviceLightSettingsBrightnessManual", "CMD_SET_FLOODLIGHT_BRIGHT_VALUE")
DeviceCameraLightSettingsBrightnessManualWalllightS120Property ==
  Setting("DeviceLightSettingsBrightnessManual", "CMD_SET_FLOODLIGHT_BRIGHT_VALUE")
DeviceFloodlightLightSettingsBrightnessMotionProperty ==
  Setting("DeviceLightSettingsBrightnessMotion", "CMD_SET_LIGHT_CTRL_BRIGHT_PIR")
DeviceFloodlightLightSettingsBrightnessMotionT8425Property ==
  Setting("DeviceLightSettingsBrightnessMotion", "CMD_SET_LIGHT_CTRL_BRIGHT_PIR_T8425")
DeviceFloodlightLightSettingsBrightnessScheduleProperty ==
  Setting("DeviceLightSettingsBrightnessSchedule", "CMD_SET_LIGHT_CTRL_BRIGHT_SCH")
DeviceFloodlightLightSettingsBrightnessScheduleT8425Property ==
  Setting("DeviceLightSettingsBrightnessSchedule", "CMD_SET_LIGHT_CTRL_BRIGHT_SCH_T8425")
DeviceFloodlightLightSettingsMotionTriggeredProperty ==
  Setting("DeviceLightSettingsMotionTriggered", "CMD_SET_LIGHT_CTRL_PIR_SWITCH")
DeviceFloodlightLightSettingsMotionTriggeredT8425Property ==
  Setting("DeviceLightSettingsMotionTriggered", "CMD_SET_LIGHT_CTRL_BRIGHT_PIR_T8425")
DeviceFloodlightLightSettingsMotionTriggeredDistanceProperty ==
  Setting("DeviceLightSettingsMotionTriggeredDistance", "CMD_SET_PIRSENSITIVITY")
DeviceFloodlightLightSettingsMotionTriggeredTimerProperty ==
  Setting("DeviceLightSettingsMotionTriggeredTimer", "CMD_SET_LIGHT_CTRL_PIR_TIME")
DeviceFloodlightLightSettingsMotionTriggeredTimerT8425Property ==
  Setting("DeviceLightSettingsMotionTriggeredTimer", "CMD_SET_LIGHT_CTRL_BRIGHT_PIR_T8425")
DeviceMicrophoneProperty == Setting("DeviceMicrophone", "CMD_SET_DEV_MIC_MUTE")
DeviceSpeakerProperty == Setting("DeviceSpeaker", "CMD_SET_DEV_SPEAKER_MUTE")
DeviceAudioRecordingProperty == Setting("DeviceAudioRecording", "CMD_SET_AUDIO_MUTE_RECORD")
DeviceAudioRecordingIndoorSoloFloodlightProperty ==
  Setting("DeviceAudioRecording", "CMD_INDOOR_SET_RECORD_AUDIO_ENABLE")
DeviceAudioRecordingStarlight4gLTEProperty ==
  Setting("DeviceAudioRecording", "CMD_SET_AUDIO_MUTE_RECORD")
DeviceAudioRecordingWiredDoorbellProperty ==
  Setting("DeviceAudioRecording", "DOORBELL_AUDIO_RECODE")
DeviceAudioRecordingFloodlightT8420Property ==
  Setting("DeviceAudioRecording", "CMD_RECORD_AUDIO_SWITCH")
DeviceMotionTrackingProperty == Setting("DeviceMotionTracking", "CMD_INDOOR_PAN_MOTION_TRACK")
DeviceSpeakerVolumeProperty == Setting("DeviceSpeakerVolume", "CMD_SET_DEV_SPEAKER_VOLUME")
DeviceSpeakerVolumeSoloProperty == Setting("DeviceSpeakerVolume", "CMD_SET_DEV_SPEAKER_VOLUME")
DeviceSpeakerVolumeCamera3Property == Setting("DeviceSpeakerVolume", "CMD_SET_DEV_SPEAKER_VOLUME")
DeviceSpeakerVolumeIndoorFloodDoorbellProperty ==
  Setting("DeviceSpeakerVolume", "CMD_SET_DEV_SPEAKER_VOLUME")
DeviceSpeakerVolumeWiredDoorbellProperty == Setting("DeviceSpeakerVolume", "VOLUME")
DeviceSpeakerVolumeFloodlightT8420Property ==
  Setting("DeviceSpeakerVolume", "CMD_SET_DEV_SPEAKER_VOLUME")
DeviceSpeakerVolumeWalllightProperty ==
  Setting("DeviceSpeakerVolume", "CMD_WALL_LIGHT_SPEAKER_VOLUME")
DeviceSpeakerVolumeSmartDropProperty ==
  Setting("DeviceSpeakerVolume", "CMD_SET_DEV_SPEAKER_VOLUME")
DeviceRecordingClipLengthProperty ==
  Setting("DeviceRecordingClipLength", "CMD_DEV_RECORD_TIMEOUT")
DeviceRecordingClipLengthFloodlightProperty ==
  Setting("DeviceRecordingClipLength", "CMD_DEV_RECORD_TIMEOUT")
DeviceRecordingClipLengthWalllightProperty ==
  Setting("DeviceRecordingClipLength", "CMD_DEV_RECORD_TIMEOUT")
DeviceRecordingClipLengthWalllightS120Property ==
  Setting("DeviceRecordingClipLength", "CMD_DEV_RECORD_TIMEOUT")
DeviceRecordingClipLengthOutdoorPTProperty ==
  Setting("DeviceRecordingClipLength", "CMD_DEV_RECORD_TIMEOUT")
DeviceRecordingRetriggerIntervalProperty ==
  Setting("DeviceRecordingRetriggerInterval", "CMD_DEV_RECORD_INTERVAL")
DeviceRecordingRetriggerIntervalBatteryDoorbellProperty ==
  Setting("DeviceRecordingRetriggerInterval", "CMD_DEV_RECORD_INTERVAL")
DeviceRecordingRetriggerIntervalFloodlightProperty ==
  Setting("DeviceRecordingRetriggerInterval", "CMD_DEV_RECORD_INTERVAL")
DeviceRecordingEndClipMotionStopsProperty ==
  Setting("DeviceRecordingEndClipMotionStops", "CMD_DEV_RECORD_AUTOSTOP")
DeviceVideoStreamingQualityProperty ==
  Setting("DeviceVideoStreamingQuality", "DOORBELL_VIDEO_QUALITY")
DeviceVideoStreamingQualityBatteryDoorbellProperty ==
  Setting("DeviceVideoStreamingQuality", "CMD_BAT_DOORBELL_VIDEO_QUALITY")
DeviceVideoStreamingQualityCameraC35Property ==
  Setting("DeviceVideoStreamingQuality", "CMD_SET_RESOLUTION")
DeviceVideoStreamingQualityCameraProperty ==
  Setting("DeviceVideoStreamingQuality", "CMD_BAT_DOORBELL_VIDEO_QUALITY")
DeviceVideoStreamingQualitySoloProperty ==
  Setting("DeviceVideoStreamingQuality", "CMD_SET_RESOLUTION")
DeviceVideoStreamingQualityWalllightProperty ==
  Setting("DeviceVideoStreamingQuality", "CMD_SET_RESOLUTION")
DeviceVideoStreamingQualityCamera3Property ==
  Setting("DeviceVideoStreamingQuality", "CMD_BAT_DOORBELL_VIDEO_QUALITY")
DeviceVideoStreamingQualityCameraProfessionalProperty ==
  Setting("DeviceVideoStreamingQuality", "CMD_BAT_DOORBELL_VIDEO_QUALITY")
DeviceVideoStreamingQualityDoorbellE340Property ==
  Setting("DeviceVideoStreamingQuality", "CMD_BAT_DOORBELL_VIDEO_QUALITY2")
DeviceVideoStreamingQualityS350Property ==
  Setting("DeviceVideoStreamingQuality", "CMD_BAT_DOORBELL_VIDEO_QUALITY2")
DeviceVideoStreamingQualityS340Property ==
  Setting("DeviceVideoStreamingQuality", "CMD_BAT_DOORBELL_VIDEO_QUALITY2")
DeviceVideoStreamingQualitySmartDropProperty ==
  Setting("DeviceVideoStreamingQuality", "CMD_BAT_DOORBELL_VIDEO_QUALITY")
DeviceVideoRecordingQualityIndoorProperty ==
  Setting("DeviceVideoRecordingQuality", "DOORBELL_RECORD_QUALITY")
DeviceVideoRecordingQualityWiredDoorbellProperty ==
  Setting("DeviceVideoRecordingQuality", "DOORBELL_RECORD_QUALITY")
DeviceVideoRecordingQualityProperty ==
  Setting("DeviceVideoRecordingQuality", "CMD_SET_RECORD_QUALITY")
DeviceVideoRecordingQualityDoorbellE340Property ==
  Setting("DeviceVideoRecordingQuality", "CMD_BAT_DOORBELL_RECORD_QUALITY2")
DeviceVideoRecordingQualityS340Property ==
  Setting("DeviceVideoRecordingQuality", "CMD_BAT_DOORBELL_RECORD_QUALITY2")
DeviceVideoRecordingQualityS350Property ==
  Setting("DeviceVideoRecordingQuality", "CMD_BAT_DOORBELL_RECORD_QUALITY2")
DeviceVideoRecordingQualityWalllightProperty ==
  Setting("DeviceVideoRecordingQuality", "CMD_SET_RECORD_QUALITY")
DeviceVideoRecordingQualityT8200XProperty ==
  Setting("DeviceVideoRecordingQuality", "CMD_SET_RECORD_QUALITY")
DeviceVideoRecordingQualityCamera2CProProperty ==
  Setting("DeviceVideoRecordingQuality", "CMD_SET_RECORD_QUALITY")
DeviceVideoRecordingQualityCamera3Property ==
  Setting("DeviceVideoRecordingQuality", "CMD_SET_RECORD_QUALITY")
DeviceVideoRecordingQualityCameraC35Property ==
  Setting("DeviceVideoRecordingQuality", "CMD_VIDEO_RECORD_QUALITY")
DeviceVideoRecordingQualitySoloProperty ==
  Setting("DeviceVideoRecordingQuality", "CMD_VIDEO_RECORD_QUALITY")
DeviceVideoRecordingQualitySoloCamerasHB3Property ==
  Setting("DeviceVideoRecordingQuality", "CMD_SET_RECORD_QUALITY")
DeviceVideoRecordingQualityCameraC35HB3Property ==
  Setting("DeviceVideoRecordingQuality", "CMD_SET_RECORD_QUALITY")
DeviceVideoRecordingQualityT8530Property ==
  Setting("DeviceVideoRecordingQuality", "CMD_SET_RECORD_QUALITY")
DeviceWDRProperty == Setting("DeviceVideoWDR", "CMD_BAT_DOORBELL_WDR_SWITCH")
DeviceNotificationTypeProperty == Setting("DeviceNotificationType", "CMD_SET_PUSH_EFFECT")
DeviceNotificationTypeIndoorFloodlightProperty ==
  Setting("DeviceNotificationType", "CMD_INDOOR_PUSH_NOTIFY_TYPE")
DeviceNotificationTypeBatteryDoorbellProperty ==
  Setting("DeviceNotificationType", "CMD_BAT_DOORBELL_SET_NOTIFICATION_MODE")
DeviceNotificationTypeWiredDoorbellProperty ==
  Setting("DeviceNotificationType", "DOORBELL_MOTION_NOTIFICATION")
DeviceNotificationTypeWalllightProperty ==
  Setting("DeviceNotificationType", "CMD_WALL_LIGHT_NOTIFICATION_TYPE")
DeviceSoundDetectionTypeProperty ==
  Setting("DeviceSoundDetectionType", "CMD_INDOOR_DET_SET_SOUND_DETECT_TYPE")
DeviceSoundDetectionTypeS350Property ==
  Setting("DeviceSoundDetectionType", "CMD_INDOOR_DET_SET_SOUND_DETECT_TYPE")
DeviceSoundDetectionSensitivityProperty ==
  Setting("DeviceSoundDetectionSensitivity", "CMD_INDOOR_DET_SET_SOUND_SENSITIVITY_IDX")
DeviceNotificationPersonProperty ==
  Setting("DeviceNotificationPerson", "CMD_INDOOR_AI_PERSON_ENABLE")
DeviceNotificationPersonWalllightProperty ==
  Setting("DeviceNotificationPerson", "CMD_WALL_LIGHT_NOTIFICATION_TYPE_HUMAN")
DeviceNotificationPetProperty == Setting("DeviceNotificationPet", "CMD_INDOOR_AI_PET_ENABLE")
DeviceNotificationAllOtherMotionProperty ==
  Setting("DeviceNotificationAllOtherMotion", "CMD_INDOOR_AI_MOTION_ENABLE")
DeviceNotificationAllOtherMotionWalllightProperty ==
  Setting("DeviceNotificationAllOtherMotion", "CMD_WALL_LIGHT_NOTIFICATION_TYPE_ALL")
DeviceNotificationAllSoundProperty ==
  Setting("DeviceNotificationAllSound", "CMD_INDOOR_AI_SOUND_ENABLE")
DeviceNotificationCryingProperty ==
  Setting("DeviceNotificationCrying", "CMD_INDOOR_AI_CRYING_ENABLE")
DeviceVideoHDRWiredDoorbellProperty == Setting("DeviceVideoHDR", "DOORBELL_HDR")
DeviceVideoDistortionCorrectionWiredDoorbellProperty ==
  Setting("DeviceVideoDistortionCorrection", "DOORBELL_DISTORTION")
DeviceVideoRingRecordWiredDoorbellProperty ==
  Setting("DeviceVideoRingRecord", "DOORBELL_RING_RECORD")
DeviceMotionDetectionRangeProperty ==
  Setting("DeviceMotionDetectionRange", "CMD_FLOODLIGHT_SET_DETECTION_RANGE")
DeviceMotionDetectionRangeT8425Property ==
  Setting("DeviceMotionDetectionRange", "CMD_FLOODLIGHT_SET_DETECTION_RANGE_T8425")
DeviceMotionDetectionRangeStandardSensitivityProperty ==
  Setting("DeviceMotionDetectionRangeStandardSensitivity",
          "CMD_FLOODLIGHT_SET_DETECTION_RANGE_STD_SENSITIVITY")
DeviceMotionDetectionRangeStandardSensitivityT8425Property ==
  Setting("DeviceMotionDetectionRangeStandardSensitivity",
          "CMD_FLOODLIGHT_SET_DETECTION_RANGE_T8425")
DeviceMotionDetectionRangeAdvancedLeftSensitivityProperty ==
  Setting("DeviceMotionDetectionRangeAdvancedLeftSensitivity",
          "CMD_FLOODLIGHT_SET_DETECTION_RANGE_ADV_LEFT_SENSITIVITY")
DeviceMotionDetectionRangeAdvancedLeftSensitivityT8425Property ==
  Setting("DeviceMotionDetectionRangeAdvancedLeftSensitivity",
          "CMD_FLOODLIGHT_SET_DETECTION_RANGE_T8425")
DeviceMotionDetectionRangeAdvancedMiddleSensitivityProperty ==
  Setting("DeviceMotionDetectionRangeAdvancedMiddleSensitivity",
          "CMD_FLOODLIGHT_SET_DETECTION_RANGE_ADV_MIDDLE_SENSITIVITY")
DeviceMotionDetectionRangeAdvancedRightSensitivityProperty ==
  Setting("DeviceMotionDetectionRangeAdvancedRightSensitivity",
          "CMD_FLOODLIGHT_SET_DETECTION_RANGE_ADV_RIGHT_SENSITIVITY")
DeviceMotionDetectionRangeAdvancedRightSensitivityT8425Property ==
  Setting("DeviceMotionDetectionRangeAdvancedRightSensitivity",
          "CMD_FLOODLIGHT_SET_DETECTION_RANGE_T8425")
DeviceMotionDetectionTestModeProperty ==
  Setting("DeviceMotionDetectionTestMode", "CMD_SET_PIR_TEST_MODE")
DeviceMotionDetectionTestModeT8425Property ==
  Setting("DeviceMotionDetectionTestMode", "CMD_FLOODLIGHT_SET_DETECTION_RANGE_T8425")
DeviceMotionTrackingSensitivityProperty ==
  Setting("DeviceMotionTrackingSensitivity", "CMD_FLOODLIGHT_SET_MOTION_TRACKING_SENSITIVITY")
DeviceMotionAutoCruiseProperty ==
  Setting("DeviceMotionAutoCruise", "CMD_FLOODLIGHT_SET_MOTION_AUTO_CRUISE")
DeviceMotionOutOfViewDetectionProperty ==
  Setting("DeviceMotionOutOfViewDetection", "CMD_FLOODLIGHT_SET_MOTION_OUT_OF_VIEW_DETECTION")
DeviceLightSettingsColorTemperatureManualProperty ==
  Setting("DeviceLightSettingsColorTemperatureManual", "CMD_FLOODLIGHT_SET_LIGHT_COLOR_TEMP_MANUAL")
DeviceLightSettingsColorTemperatureMotionProperty ==
  Setting("DeviceLightSettingsColorTemperatureMotion", "CMD_FLOODLIGHT_SET_LIGHT_COLOR_TEMP_MOTION")
DeviceLightSettingsColorTemperatureScheduleProperty ==
  Setting("DeviceLightSettingsColorTemperatureSchedule",
          "CMD_FLOODLIGHT_SET_LIGHT_COLOR_TEMP_SCHEDULE")
DeviceLightSettingsMotionActivationModeProperty ==
  Setting("DeviceLightSettingsMotionActivationMode", "CMD_SET_FLOODLIGHT_STREET_LAMP")
DeviceLightSettingsMotionActivationModeT8425Property ==
  Setting("DeviceLightSettingsMotionActivationMode", "CMD_SET_LIGHT_CTRL_BRIGHT_PIR_T8425")
DeviceVideoNightvisionImageAdjustmentProperty ==
  Setting("DeviceVideoNightvisionImageAdjustment",
          "CMD_FLOODLIGHT_SET_VIDEO_NIGHTVISION_IMAGE_ADJUSTMENT")
DeviceVideoColorNightvisionProperty ==
  Setting("DeviceVideoColorNightvision", "CMD_FLOODLIGHT_SET_VIDEO_COLOR_NIGHTVISION")
DeviceSoundProperty == Setting("DeviceSound", "CMD_SMARTLOCK_LOCK_SOUND")
DeviceSoundSimpleProperty == Setting("DeviceSound", "CMD_SMARTLOCK_LOCK_SOUND")
DeviceMotionDetectionSensitivityModeProperty ==
  Setting("DeviceMotionDetectionSensitivityMode",
          "CMD_DOORBELL_DUAL_RADAR_WD_DETECTION_SENSITIVITY")
DeviceMotionDetectionSensitivityStandardProperty ==
  Setting("DeviceMotionDetectionSensitivityStandard",
          "CMD_DOORBELL_DUAL_RADAR_WD_DETECTION_SENSITIVITY")
DeviceMotionDetectionSensitivityAdvancedAProperty ==
  Setting("DeviceMotionDetectionSensitivityAdvancedA",
          "CMD_DOORBELL_DUAL_RADAR_WD_DETECTION_SENSITIVITY")
DeviceMotionDetectionSensitivityAdvancedBProperty ==
  Setting("DeviceMotionDetectionSensitivityAdvancedB",
          "CMD_DOORBELL_DUAL_RADAR_WD_DETECTION_SENSITIVITY")
DeviceMotionDetectionSensitivityAdvancedCProperty ==
  Setting("DeviceMotionDetectionSensitivityAdvancedC",
          "CMD_DOORBELL_DUAL_RADAR_WD_DETECTION_SENSITIVITY")
DeviceMotionDetectionSensitivityAdvancedDProperty ==
  Setting("DeviceMotionDetectionSensitivityAdvancedD",
          "CMD_DOORBELL_DUAL_RADAR_WD_DETECTION_SENSITIVITY")
DeviceMotionDetectionSensitivityAdvancedEProperty ==
  Setting("DeviceMotionDetectionSensitivityAdvancedE",
          "CMD_DOORBELL_DUAL_RADAR_WD_DETECTION_SENSITIVITY")
DeviceMotionDetectionSensitivityAdvancedFProperty ==
  Setting("DeviceMotionDetectionSensitivityAdvancedF",
          "CMD_DOORBELL_DUAL_RADAR_WD_DETECTION_SENSITIVITY")
DeviceMotionDetectionSensitivityAdvancedGProperty ==
  Setting("DeviceMotionDetectionSensitivityAdvancedG",
          "CMD_DOORBELL_DUAL_RADAR_WD_DETECTION_SENSITIVITY")
DeviceMotionDetectionSensitivityAdvancedHProperty ==
  Setting("DeviceMotionDetectionSensitivityAdvancedH",
          "CMD_DOORBELL_DUAL_RADAR_WD_DETECTION_SENSITIVITY")
DeviceSoundDetectionRoundLookProperty ==
  Setting("DeviceSoundDetectionRoundLook", "CMD_INDOOR_SET_SOUND_DETECT_ROUND_LOOK")
DeviceSoundDetectionRoundLookS350Property ==
  Setting("DeviceSoundDetectionRoundLook", "CMD_INDOOR_SET_SOUND_DETECT_ROUND_LOOK_S350")
DeviceVideoTypeStoreToNASProperty ==
  Setting("DeviceVideoTypeStoreToNAS", "CMD_INDOOR_NAS_STORAGE_TYPE")
DeviceLightSettingsManualDailyLightingProperty ==
  Setting("DeviceLightSettingsManualDailyLighting", "CMD_WALL_LIGHT_SETTINGS_MANUAL_DAILY_LIGHTING")
DeviceLightSettingsManualColoredLightingProperty ==
  Setting("DeviceLightSettingsManualColoredLighting",
          "CMD_WALL_LIGHT_SETTINGS_MANUAL_COLORED_LIGHTING")
DeviceLightSettingsManualDynamicLightingProperty ==
  Setting("DeviceLightSettingsManualDynamicLighting",
          "CMD_WALL_LIGHT_SETTINGS_MANUAL_DYNAMIC_LIGHTING")
DeviceLightSettingsManualLightingActiveModeProperty ==
  Setting("DeviceLightSettingsManualLightingActiveMode",
          "CMD_WALL_LIGHT_SETTINGS_MANUAL_LIGHTING_ACTIVE_MODE")
DeviceLightSettingsMotionDailyLightingProperty ==
  Setting("DeviceLightSettingsMotionDailyLighting", "CMD_WALL_LIGHT_SETTINGS_MOTION_DAILY_LIGHTING")
DeviceLightSettingsMotionColoredLightingProperty ==
  Setting("DeviceLightSettingsMotionColoredLighting",
          "CMD_WALL_LIGHT_SETTINGS_MOTION_COLORED_LIGHTING")
DeviceLightSettingsMotionDynamicLightingProperty ==
  Setting("DeviceLightSettingsMotionDynamicLighting",
          "CMD_WALL_LIGHT_SETTINGS_MOTION_DYNAMIC_LIGHTING")
DeviceLightSettingsMotionLightingActiveModeProperty ==
  Setting("DeviceLightSettingsMotionLightingActiveMode",
          "CMD_WALL_LIGHT_SETTINGS_MOTION_LIGHTING_ACTIVE_MODE")
DeviceLightSettingsScheduleDailyLightingProperty ==
  Setting("DeviceLightSettingsScheduleDailyLighting",
          "CMD_WALL_LIGHT_SETTINGS_SCHEDULE_DAILY_LIGHTING")
DeviceLightSettingsScheduleColoredLightingProperty ==
  Setting("DeviceLightSettingsScheduleColoredLighting",
          "CMD_WALL_LIGHT_SETTINGS_SCHEDULE_COLORED_LIGHTING")
DeviceLightSettingsScheduleDynamicLightingProperty ==
  Setting("DeviceLightSettingsScheduleDynamicLighting",
          "CMD_WALL_LIGHT_SETTINGS_SCHEDULE_DYNAMIC_LIGHTING")
DeviceLightSettingsScheduleLightingActiveModeProperty ==
  Setting("DeviceLightSettingsScheduleLightingActiveMode",
          "CMD_WALL_LIGHT_SETTINGS_SCHEDULE_LIGHTING_ACTIVE_MODE")
DeviceLightSettingsColoredLightingColorsProperty ==
  Setting("DeviceLightSettingsColoredLightingColors",
          "CMD_WALL_LIGHT_SETTINGS_COLORED_LIGHTING_COLORS")
DeviceLightSettingsDynamicLightingThemesProperty ==
  Setting("DeviceLightSettingsDynamicLightingThemes",
          "CMD_WALL_LIGHT_SETTINGS_DYNAMIC_LIGHTING_THEMES")
DeviceNotificationPersonS350Property ==
  Setting("DeviceNotificationPerson", "CMD_INDOOR_SET_MOTION_DETECTION_TYPE")
DeviceNotificationPetS350Property ==
  Setting("DeviceNotificationPet", "CMD_INDOOR_SET_MOTION_DETECTION_TYPE")
DeviceNotificationAllOtherMotionS350Property ==
  Setting("DeviceNotificationAllOtherMotion", "CMD_INDOOR_SET_MOTION_DETECTION_TYPE")
DeviceNotificationAllSoundS350Property ==
  Setting("DeviceNotificationAllSound", "CMD_INDOOR_SET_MOTION_DETECTION_TYPE")
DeviceNotificationCryingS350Property ==
  Setting("DeviceNotificationCrying", "CMD_INDOOR_SET_MOTION_DETECTION_TYPE")
DeviceNotificationVehicleProperty ==
  Setting("DeviceNotificationVehicle", "CMD_INDOOR_SET_MOTION_DETECTION_TYPE")
DeviceNightvisionOptimizationProperty ==
  Setting("DeviceNightvisionOptimization", "CMD_SMARTLOCK_NIGHT_VISION_ENHANCE")
DeviceNightvisionOptimizationSideProperty ==
  Setting("DeviceNightvisionOptimizationSide", "CMD_SMARTLOCK_NIGHT_VISION_SIDE")
DeviceMotionActivatedPromptProperty ==
  Setting("DeviceMotionActivatedPrompt", "CMD_SET_AUDIO_MOTION_ACTIVATED_PROMPT")
==============================================================================
