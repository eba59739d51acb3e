---------------------------- MODULE SettingTables ----------------------------
(*
 The writeable properties of stations and devices, one definition for each
 metadata constant of types.ts: the name an application uses and the raw
 parameter the value is read from.  Several constants have one name (models
 store the setting differently) and several names one key (one raw parameter
 holds a record or a bit mask of settings).
*)
Setting(name, key) == [name |-> name, key |-> key]

DeviceAntitheftDetectionProperty == Setting("DeviceAntitheftDetection", "CMD_EAS_SWITCH")
DeviceEnabledProperty == Setting("DeviceEnabled", "PRIVATE_MODE")
DeviceEnabledStandaloneProperty == Setting("DeviceEnabled", "OPEN_DEVICE")
DeviceEnabledSoloProperty == Setting("DeviceEnabled", "CMD_DEVS_SWITCH")
DeviceEnabledIndoorMiniProperty == Setting("DeviceEnabled", "CMD_DEVS_SWITCH")
DeviceEnabledIndoorS350Property == Setting("DeviceEnabled", "CMD_INDOOR_ENABLE_PRIVACY_MODE_S350")
DeviceStatusLedProperty == Setting("DeviceStatusLed", "CMD_DEV_LED_SWITCH")
DeviceStatusLedIndoorFloodProperty == Setting("DeviceStatusLed", "CMD_INDOOR_LED_SWITCH")
DeviceStatusLedBatteryDoorbellProperty ==
  Setting("DeviceStatusLed", "CMD_BAT_DOORBELL_SET_LED_ENABLE")
DeviceStatusLedIndoorS350Property == Setting("DeviceStatusLed", "CMD_BAT_DOORBELL_SET_LED_ENABLE")
DeviceStatusLedBatteryDoorbellDualProperty ==
  Setting("DeviceStatusLed", "CMD_BAT_DOORBELL_SET_LED_ENABLE")
DeviceStatusLedDoorbellProperty == Setting("DeviceStatusLed", "DOORBELL_LED_NIGHT_MODE")
DeviceStatusLedT8200XProperty == Setting("DeviceStatusLed", "COMMAND_LED_NIGHT_OPEN")
DevicePetDetectionProperty == Setting("DevicePetDetection", "CMD_INDOOR_DET_SET_PET_ENABLE")
DeviceRTSPStreamProperty == Setting("DeviceRTSPStream", "CMD_NAS_SWITCH")
DeviceLockedProperty == Setting("DeviceLocked", "custom_locked")
DeviceRingtoneVolumeBatteryDoorbellProperty ==
  Setting("DeviceRingtoneVolume", "CMD_BAT_DOORBELL_SET_RINGTONE_VOLUME")
DeviceRingtoneVolumeWiredDoorbellProperty == Setting("DeviceRingtoneVolume", "RINGING_VOLUME")
DeviceRingtoneVolumeT8200XProperty ==
  Setting("DeviceRingtoneVolume", "CMD_T8200X_SET_RINGTONE_VOLUME")
DevicePowerSourceProperty == Setting("DevicePowerSource", "CMD_SET_POWER_CHARGE")
DevicePowerWorkingModeProperty == Setting("DevicePowerWorkingMode", "CMD_SET_PIR_POWERMODE")
DevicePowerWorkingModeSmartDropProperty ==
  Setting("DevicePowerWorkingMode", "CMD_SET_PIR_POWERMODE")
DevicePowerWorkingModeBatteryDoorbellProperty ==
  Setting("DevicePowerWorkingMode", "CMD_SET_PIR_POWERMODE")
DeviceChimeIndoorBatteryDoorbellProperty ==
  Setting("DeviceChimeIndoor", "CMD_BAT_DOORBELL_MECHANICAL_CHIME_SWITCH")
DeviceChimeIndoorWiredDoorbellProperty == Setting("DeviceChimeIndoor", "CHIME_STATE")
DeviceChimeIndoorT8200XProperty == Setting("DeviceChimeIndoor", "COMMAND_INDOOR_CHIME")
DeviceChimeHomebaseBatteryDoorbellProperty ==
  Setting("DeviceChimeHomebase", "CMD_BAT_DOORBELL_CHIME_SWITCH")
DeviceChimeHomebaseRingtoneVolumeBatteryDoorbellProperty ==
  Setting("DeviceChimeHomebaseRingtoneVolume", "CMD_BAT_DOORBELL_DINGDONG_V")
DeviceChimeHomebaseRingtoneTypeBatteryDoorbellProperty ==
  Setting("DeviceChimeHomebaseRingtoneType", "CMD_BAT_DOORBELL_DINGDONG_R")
DeviceRotationSpeedProperty == Setting("DeviceRotationSpeed", "CMD_INDOOR_PAN_SPEED")
DeviceImageMirroredProperty == Setting("DeviceImageMirrored", "CMD_SET_MIRRORMODE")
DeviceNotificationRingProperty ==
  Setting("DeviceNotificationRing", "CMD_BAT_DOORBELL_SET_NOTIFICATION_MODE")
DeviceNotificationRingWiredDoorbellProperty ==
  Setting("DeviceNotificationRing", "DOORBELL_NOTIFICATION_OPEN")
DeviceNotificationMotionProperty ==
  Setting("DeviceNotificationMotion", "CMD_BAT_DOORBELL_SET_NOTIFICATION_MODE")
DeviceNotificationRadarDetectorProperty ==
  Setting("DeviceNotificationRadarDetector", "CMD_DOORBELL_DUAL_NOTIFICATION_HUMAN_DETECT")
DeviceNotificationMotionWiredDoorbellProperty ==
  Setting("DeviceNotificationMotion", "DOORBELL_NOTIFICATION_OPEN")
DeviceChirpVolumeEntrySensorProperty ==
  Setting("DeviceChirpVolume", "CMD_SENSOR_SET_CHIRP_VOLUME")
DeviceChirpToneEntrySensorProperty == Setting("DeviceChirpTone", "CMD_SENSOR_SET_CHIRP_TONE")
DeviceAutoCalibrationProperty ==
  Setting("DeviceAutoCalibration", "CMD_FLOODLIGHT_SET_AUTO_CALIBRATION")
DeviceAutoLockProperty == Setting("DeviceAutoLock", "CMD_SMARTLOCK_AUTO_LOCK")
DeviceAutoLockTimerProperty == Setting("DeviceAutoLockTimer", "CMD_SMARTLOCK_AUTO_LOCK_TIMER")
DeviceAutoLockScheduleProperty ==
  Setting("DeviceAutoLockSchedule", "CMD_SMARTLOCK_AUTO_LOCK_SCHEDULE")
DeviceAutoLockScheduleStartTimeProperty ==
  Setting("DeviceAutoLockScheduleStartTime", "CMD_SMARTLOCK_AUTO_LOCK_SCHEDULE_STARTTIME")
DeviceAutoLockScheduleEndTimeProperty ==
  Setting("DeviceAutoLockScheduleEndTime", "CMD_SMARTLOCK_AUTO_LOCK_SCHEDULE_ENDTIME")
DeviceOneTouchLockingProperty == Setting("DeviceOneTouchLocking", "CMD_SMARTLOCK_ONE_TOUCH_LOCK")
DeviceWrongTryProtectionProperty ==
  Setting("DeviceWrongTryProtection", "CMD_SMARTLOCK_WRONG_TRY_PROTECT")
DeviceWrongTryProtectionSmartSafeProperty ==
  Setting("DeviceWrongTryProtection", "CMD_SMARTSAFE_IS_ENABLE_CRACK_PROTECT")
DeviceWrongTryLockdownTimeProperty ==
  Setting("DeviceWrongTryLockdownTime", "CMD_SMARTLOCK_WRONG_TRY_LOCKDOWN")
DeviceWrongTryLockdownTimeSmartSafeProperty ==
  Setting("DeviceWrongTryLockdownTime", "CMD_SMARTSAFE_PROTECT_COOLDOWN_SECONDS")
DeviceWrongTryAttemptsProperty ==
  Setting("DeviceWrongTryAttempts", "CMD_SMARTLOCK_WRONG_TRY_ATTEMPTS")
DeviceWrongTryAttemptsSmartSafeProperty ==
  Setting("DeviceWrongTryAttempts", "CMD_SMARTSAFE_MAX_WRONG_PIN_TIMES")
DeviceScramblePasscodeProperty ==
  Setting("DeviceScramblePasscode", "CMD_SMARTLOCK_SCRAMBLE_PASSCODE")
DeviceScramblePasscodeSmartSafeProperty ==
  Setting("DeviceScramblePasscode", "CMD_SMARTSAFE_IS_SET_PREFIX_PWD")
DeviceNotificationProperty == Setting("DeviceNotification", "CMD_SMARTLOCK_NOTIFICATION")
DeviceNotificationSmartLockProperty == Setting("DeviceNotification", "CMD_DOORLOCK_SET_PUSH_MODE")
DeviceNotificationWalllightProperty ==
  Setting("DeviceNotification", "CMD_WALL_LIGHT_NOTIFICATION")
DeviceNotificationUnlockedProperty ==
  Setting("DeviceNotificationUnlocked", "CMD_SMARTLOCK_NOTIFICATION_UNLOCKED")
DeviceNotificationUnlockedSmartLockProperty ==
  Setting("DeviceNotificationUnlocked", "CMD_DOORLOCK_SET_PUSH_MODE")
DeviceNotificationLockedProperty ==
  Setting("DeviceNotificationLocked", "CMD_SMARTLOCK_NOTIFICATION_LOCKED")
DeviceNotificationLockedSmartLockProperty ==
  Setting("DeviceNotificationLocked", "CMD_DOORLOCK_SET_PUSH_MODE")
DeviceLoiteringDetectionProperty ==
  Setting("DeviceLoiteringDetection", "CMD_DOORBELL_DUAL_RADAR_WD_SWITCH")
DeviceLoiteringDetectionRangeProperty ==
  Setting("DeviceLoiteringDetectionRange", "CMD_DOORBELL_DUAL_RADAR_WD_DISTANCE")
DeviceLoiteringDetectionLengthProperty ==
  Setting("DeviceLoiteringDetectionLength", "CMD_DOORBELL_DUAL_RADAR_WD_TIME")
DeviceLoiteringCustomResponsePhoneNotificationProperty ==
  Setting("DeviceLoiteringCustomResponsePhoneNotification",
          "CMD_DOORBELL_DUAL_RADAR_WD_AUTO_RESPONSE")
DeviceLoiteringCustomResponseAutoVoiceResponseProperty ==
  Setting("DeviceLoiteringCustomResponseAutoVoiceResponse",
          "CMD_DOORBELL_DUAL_RADAR_WD_AUTO_RESPONSE")
DeviceLoiteringCustomResponseAutoVoiceResponseVoiceProperty ==
  Setting("DeviceLoiteringCustomResponseAutoVoiceResponseVoice",
          "CMD_DOORBELL_DUAL_RADAR_WD_AUTO_RESPONSE")
DeviceLoiteringCustomResponseHomeBaseNotificationProperty ==
  Setting("DeviceLoiteringCustomResponseHomeBaseNotification",
          "CMD_DOORBELL_DUAL_RADAR_WD_AUTO_RESPONSE")
DeviceLoiteringCustomResponseTimeFromProperty ==
  Setting("DeviceLoiteringCustomResponseTimeFrom", "CMD_DOORBELL_DUAL_RADAR_WD_AUTO_RESPONSE")
DeviceLoiteringCustomResponseTimeToProperty ==
  Setting("DeviceLoiteringCustomResponseTimeTo", "CMD_DOORBELL_DUAL_RADAR_WD_AUTO_RESPONSE")
DeviceDeliveryGuardProperty ==
  Setting("DeviceDeliveryGuard", "CMD_DOORBELL_DUAL_DELIVERY_GUARD_SWITCH")
DeviceDeliveryGuardPackageGuardingProperty ==
  Setting("DeviceDeliveryGuardPackageGuarding", "CMD_DOORBELL_DUAL_PACKAGE_GUARD_SWITCH")
DeviceDeliveryGuardPackageGuardingVoiceResponseVoiceProperty ==
  Setting("DeviceDeliveryGuardPackageGuardingVoiceResponseVoice",
          "CMD_DOORBELL_DUAL_PACKAGE_GUARD_VOICE")
DeviceDeliveryGuardPackageGuardingActivatedTimeFromProperty ==
  Setting("DeviceDeliveryGuardPackageGuardingActivatedTimeFrom",
          "CMD_DOORBELL_DUAL_PACKAGE_GUARD_TIME")
DeviceDeliveryGuardPackageGuardingActivatedTimeToProperty ==
  Setting("DeviceDeliveryGuardPackageGuardingActivatedTimeTo",
          "CMD_DOORBELL_DUAL_PACKAGE_GUARD_TIME")
DeviceDeliveryGuardUncollectedPackageAlertProperty ==
  Setting("DeviceDeliveryGuardUncollectedPackageAlert", "CMD_DOORBELL_DUAL_PACKAGE_STRAND_SWITCH")
DeviceDeliveryGuardUncollectedPackageAlertTimeToCheckProperty ==
  Setting("DeviceDeliveryGuardUncollectedPackageAlertTimeToCheck",
          "CMD_DOORBELL_DUAL_PACKAGE_STRAND_TIME")
DeviceDeliveryGuardPackageLiveCheckAssistanceProperty ==
  Setting("DeviceDeliveryGuardPackageLiveCheckAssistance",
          "CMD_DOORBELL_DUAL_PACKAGE_ASSISTANT_SWITCH")
DeviceDualCamWatchViewModeProperty ==
  Setting("DeviceDualCamWatchViewMode", "CMD_DOORBELL_DUAL_VIEW_MODE")
DeviceDualCamWatchViewModeE340Property ==
  Setting("DeviceDualCamWatchViewMode", "CMD_DOORBELL_DUAL_VIEW_MODE2")
DeviceDualCamWatchViewModeS340Property ==
  Setting("DeviceDualCamWatchViewMode", "CMD_DOORBELL_DUAL_VIEW_MODE2")
DeviceRingAutoResponseProperty ==
  Setting("DeviceRingAutoResponse", "CMD_DOORBELL_DUAL_RING_AUTO_RESPONSE")
DeviceRingAutoResponseVoiceResponseProperty ==
  Setting("DeviceRingAutoResponseVoiceResponse", "CMD_DOORBELL_DUAL_RING_AUTO_RESPONSE")
DeviceRingAutoResponseVoiceResponseVoiceProperty ==
  Setting("DeviceRingAutoResponseVoiceResponseVoice", "CMD_DOORBELL_DUAL_RING_AUTO_RESPONSE")
DeviceRingAutoResponseTimeFromProperty ==
  Setting("DeviceRingAutoResponseTimeFrom", "CMD_DOORBELL_DUAL_RING_AUTO_RESPONSE")
DeviceRingAutoResponseTimeToProperty ==
  Setting("DeviceRingAutoResponseTimeTo", "CMD_DOORBELL_DUAL_RING_AUTO_RESPONSE")
DeviceContinuousRecordingProperty ==
  Setting("DeviceContinuousRecording", "CMD_INDOOR_SET_CONTINUE_ENABLE")
DeviceContinuousRecordingTypeProperty ==
  Setting("DeviceContinuousRecordingType", "CMD_INDOOR_SET_CONTINUE_TYPE")
DeviceDefaultAngleProperty == Setting("DeviceDefaultAngle", "CMD_INDOOR_DEFAULT_ANGLE_ENABLE")
DeviceDefaultAngleIdleTimeProperty ==
  Setting("DeviceDefaultAngleIdleTime", "CMD_INDOOR_DEFAULT_ANGLE_IDLE_TIME")
DeviceNotificationIntervalTimeProperty ==
  Setting("DeviceNotificationIntervalTime", "CMD_DEV_RECORD_INTERVAL")
DeviceLeftOpenAlarmProperty == Setting("DeviceLeftOpenAlarm", "CMD_SMARTSAFE_IS_ENABLE_LEFT_OPEN")
DeviceLeftOpenAlarmDurationProperty ==
  Setting("DeviceLeftOpenAlarmDuration", "CMD_SMARTSAFE_LEFT_OPEN_SECONDS")
DeviceDualUnlockProperty == Setting("DeviceDualUnlock", "CMD_SMARTSAFE_IS_ENABLE_TOW_FACTOR_CHK")
DevicePowerSaveProperty == Setting("DevicePowerSave", "CMD_SMARTSAFE_POWER_SAVE_ON")
DeviceInteriorBrightnessProperty ==
  Setting("DeviceInteriorBrightness", "CMD_SMARTSAFE_LED_BRIGHTNESS_LEVEL")
DeviceInteriorBrightnessDurationProperty ==
  Setting("DeviceInteriorBrightnessDuration", "CMD_SMARTSAFE_LED_BRIGHTNESS_SECOND")
DeviceTamperAlarmProperty == Setting("DeviceTamperAlarm", "CMD_SMARTSAFE_IS_ENABLE_SHAKE_ALARM")
DeviceRemoteUnlockProperty == Setting("DeviceRemoteUnlock", "CMD_SMARTSAFE_REMOTE_OPEN_TYPE")
DeviceRemoteUnlockMasterPINProperty ==
  Setting("DeviceRemoteUnlockMasterPIN", "CMD_SMARTSAFE_REMOTE_OPEN_TYPE")
DevicePromptVolumeProperty == Setting("DevicePromptVolume", "CMD_SMARTSAFE_VOLUME")
DeviceAlarmVolumeProperty == Setting("DeviceAlarmVolume", "CMD_SMARTSAFE_ALERT_VOLUME")
DeviceNotificationUnlockByKeyProperty ==
  Setting("DeviceNotificationUnlockByKey", "CMD_SMARTSAFE_NOTIF")
DeviceNotificationUnlockByPINProperty ==
  Setting("DeviceNotificationUnlockByPIN", "CMD_SMARTSAFE_NOTIF")
DeviceNotificationUnlockByFingerprintProperty ==
  Setting("DeviceNotificationUnlockByFingerprint", "CMD_SMARTSAFE_NOTIF")
DeviceNotificationUnlockByAppProperty ==
  Setting("DeviceNotificationUnlockByApp", "CMD_SMARTSAFE_NOTIF")
DeviceNotificationDualUnlockProperty ==
  Setting("DeviceNotificationDualUnlock", "CMD_SMARTSAFE_NOTIF")
DeviceNotificationDualLockProperty == Setting("DeviceNotificationDualLock", "CMD_SMARTSAFE_NOTIF")
DeviceNotificationWrongTryProtectProperty ==
  Setting("DeviceNotificationWrongTryProtect", "CMD_SMARTSAFE_NOTIF")
DeviceDoorControlWarningProperty ==
  Setting("DeviceDoorControlWarning", "CMD_CAMERA_GARAGE_DOOR_SENSORS")
DeviceDoor1OpenProperty == Setting("DeviceDoor1Open", "CMD_CAMERA_GARAGE_DOOR_STATUS")
DeviceDoor2OpenProperty == Setting("DeviceDoor2Open", "CMD_CAMERA_GARAGE_DOOR_STATUS")
DeviceTrackerTypeProperty == Setting("DeviceTrackerType", "TYPE_ICON_INDEX")
DeviceLeftBehindAlarmProperty == Setting("DeviceLeftBehindAlarm", "COMMAND_ANTILOST")
DeviceFindPhoneProperty == Setting("DeviceFindPhone", "COMMAND_TYPE_FINDMYPHONE")
DeviceFlickerAdjustmentProperty ==
  Setting("DeviceFlickerAdjustment", "CMD_SET_FLICKER_ADJUSTMENT")
DeviceLeavingDetectionProperty ==
  Setting("DeviceLeavingDetection", "CMD_MOTION_SET_LEAVING_DETECTION")
DeviceLeavingReactionNotificationProperty ==
  Setting("DeviceLeavingReactionNotification", "CMD_MOTION_SET_LEAVING_REACTIONS")
DeviceLeavingReactionStartTimeProperty ==
  Setting("DeviceLeavingReactionStartTime", "CMD_MOTION_SET_LEAVING_REACTIONS")
DeviceLeavingReactionEndTimeProperty ==
  Setting("DeviceLeavingReactionEndTime", "CMD_MOTION_SET_LEAVING_REACTIONS")
DeviceBeepVolumeProperty == Setting("DeviceBeepVolume", "CMD_SMARTLOCK_VOLUME")
DeviceOpenMethodProperty == Setting("DeviceOpenMethod", "CMD_SMART_DROP_DELIVERY_MODE")
StationGuardModeProperty == Setting("StationGuardMode", "GUARD_MODE")
StationAlarmVolumeProperty == Setting("StationAlarmVolume", "CMD_SET_HUB_SPK_VOLUME")
StationAlarmVolumeWalllightProperty ==
  Setting("StationAlarmVolume", "CMD_WALL_LIGHT_ALERT_VOLUME")
StationPromptVolumeProperty == Setting("StationPromptVolume", "CMD_SET_PROMPT_VOLUME")
StationAlarmToneProperty == Setting("StationAlarmTone", "CMD_HUB_ALARM_TONE")
StationNotificationSwitchModeScheduleProperty ==
  Setting("StationNotificationSwitchModeSchedule", "CMD_HUB_NOTIFY_MODE")
StationNotificationSwitchModeGeofenceProperty ==
  Setting("StationNotificationSwitchModeGeofence", "CMD_HUB_NOTIFY_MODE")
StationNotificationSwitchModeAppProperty ==
  Setting("StationNotificationSwitchModeApp", "CMD_HUB_NOTIFY_MODE")
StationNotificationSwitchModeKeypadProperty ==
  Setting("StationNotificationSwitchModeKeypad", "CMD_HUB_NOTIFY_MODE")
StationNotificationStartAlarmDelayProperty ==
  Setting("StationNotificationStartAlarmDelay", "CMD_HUB_NOTIFY_ALARM")
StationTimeFormatProperty == Setting("StationTimeFormat", "CMD_SET_HUB_OSD")
StationAutoEndAlarmProperty == Setting("StationAutoEndAlarm", "CMD_SET_HUB_ALARM_AUTO_END")
StationAlarmTypeProperty == Setting("StationAlarmType", "custom_alarmType")
StationAlarmArmDelayProperty == Setting("StationAlarmArmDelay", "custom_alarmArmDelay")
StationAlarmDelayProperty == Setting("StationAlarmDelay", "custom_alarmDelay")
StationAlarmDelayTypeProperty == Setting("StationAlarmDelayType", "custom_alarmDelayType")
StationContinuousTrackingTimeProperty ==
  Setting("StationContinuousTrackingTime", "CMD_SET_CONTINUOUS_TRACKING_TIME")
StationCrossCameraTrackingProperty ==
  Setting("StationCrossCameraTracking", "CMD_SET_CROSS_CAMERA_TRACKING")
StationTrackingAssistanceProperty ==
  Setting("StationTrackingAssistance", "CMD_SET_TRACKING_ASSISTANCE")
StationCrossTrackingCameraListProperty ==
  Setting("StationCrossTrackingCameraList", "CMD_SET_CROSS_TRACKING_CAMERA_LIST")
StationCrossTrackingGroupListProperty ==
  Setting("StationCrossTrackingGroupList", "CMD_SET_CROSS_TRACKING_GROUP_LIST")
==============================================================================
