-------------------------- MODULE DeviceProperties ---------------------------
(*
 Which writeable properties each model has: one set for each model's table in
 types.ts, and the metadata of a device on its station (Device and
 Station.getPropertiesMetadata).
*)
EXTENDS CameraSettings, DeviceKinds

Camera2Settings ==
  {DeviceEnabledProperty, DeviceAntitheftDetectionProperty, DeviceAutoNightvisionProperty,
   DeviceStatusLedProperty, DeviceMotionDetectionProperty, DeviceRTSPStreamProperty,
   DeviceWatermarkProperty, DeviceMicrophoneProperty, DeviceSpeakerProperty,
   DeviceSpeakerVolumeProperty, DeviceAudioRecordingProperty,
   DeviceMotionDetectionSensitivityCamera2Property, DeviceMotionDetectionTypeProperty,
   DevicePowerSourceProperty, DevicePowerWorkingModeProperty, DeviceRecordingClipLengthProperty,
   DeviceRecordingRetriggerIntervalProperty, DeviceRecordingEndClipMotionStopsProperty,
   DeviceNotificationTypeProperty}
Camera2cSettings ==
  {DeviceEnabledProperty, DeviceAntitheftDetectionProperty, DeviceNightvisionProperty,
   DeviceStatusLedProperty, DeviceMotionDetectionProperty, DeviceRTSPStreamProperty,
   DeviceWatermarkProperty, DeviceMicrophoneProperty, DeviceSpeakerProperty,
   DeviceSpeakerVolumeProperty, DeviceAudioRecordingProperty,
   DeviceMotionDetectionSensitivityCamera2Property, DeviceMotionDetectionTypeProperty,
   DevicePowerSourceProperty, DevicePowerWorkingModeProperty, DeviceRecordingClipLengthProperty,
   DeviceRecordingRetriggerIntervalProperty, DeviceRecordingEndClipMotionStopsProperty,
   DeviceNotificationTypeProperty, DeviceCameraLightSettingsBrightnessManualProperty,
   DeviceFloodlightLightProperty}
Camera2cProSettings ==
  {DeviceEnabledProperty, DeviceAntitheftDetectionProperty, DeviceNightvisionProperty,
   DeviceStatusLedProperty, DeviceMotionDetectionProperty, DeviceRTSPStreamProperty,
   DeviceWatermarkProperty, DeviceMicrophoneProperty, DeviceSpeakerProperty,
   DeviceSpeakerVolumeProperty, DeviceAudioRecordingProperty,
   DeviceMotionDetectionSensitivityCamera2Property, DeviceMotionDetectionTypeProperty,
   DevicePowerSourceProperty, DevicePowerWorkingModeProperty, DeviceRecordingClipLengthProperty,
   DeviceRecordingRetriggerIntervalProperty, DeviceRecordingEndClipMotionStopsProperty,
   DeviceNotificationTypeProperty, DeviceVideoStreamingQualityCameraProperty,
   DeviceVideoRecordingQualityCamera2CProProperty,
   DeviceCameraLightSettingsBrightnessManualProperty, DeviceFloodlightLightProperty}
Camera2ProSettings ==
  {DeviceEnabledProperty, DeviceAntitheftDetectionProperty, DeviceAutoNightvisionProperty,
   DeviceStatusLedProperty, DeviceMotionDetectionProperty, DeviceRTSPStreamProperty,
   DeviceWatermarkProperty, DeviceMicrophoneProperty, DeviceSpeakerProperty,
   DeviceSpeakerVolumeProperty, DeviceAudioRecordingProperty,
   DeviceMotionDetectionSensitivityCamera2Property, DeviceMotionDetectionTypeProperty,
   DevicePowerSourceProperty, DevicePowerWorkingModeProperty, DeviceRecordingClipLengthProperty,
   DeviceRecordingRetriggerIntervalProperty, DeviceRecordingEndClipMotionStopsProperty,
   DeviceNotificationTypeProperty}
Camera3Settings ==
  {DeviceEnabledSoloProperty, DeviceAntitheftDetectionProperty, DeviceNightvisionProperty,
   DeviceStatusLedProperty, DeviceMotionDetectionProperty, DeviceRTSPStreamProperty,
   DeviceWatermarkProperty, DeviceMicrophoneProperty, DeviceSpeakerProperty,
   DeviceSpeakerVolumeCamera3Property, DeviceAudioRecordingProperty,
   DeviceMotionDetectionSensitivityCamera2Property, DeviceMotionDetectionTypeProperty,
   DevicePowerSourceProperty, DevicePowerWorkingModeProperty, DeviceRecordingClipLengthProperty,
   DeviceRecordingRetriggerIntervalProperty, DeviceRecordingEndClipMotionStopsProperty,
   DeviceNotificationTypeProperty, DeviceVideoStreamingQualityCamera3Property,
   DeviceVideoRecordingQualityCamera3Property, DeviceFloodlightLightSettingsEnableProperty,
   DeviceLightSettingsBrightnessManualCamera3Property, DeviceFloodlightLightProperty}
Camera3cSettings ==
  {DeviceEnabledSoloProperty, DeviceNightvisionProperty, DeviceStatusLedProperty,
   DeviceMotionDetectionProperty, DeviceRTSPStreamProperty, DeviceWatermarkProperty,
   DeviceMicrophoneProperty, DeviceSpeakerProperty, DeviceSpeakerVolumeCamera3Property,
   DeviceAudioRecordingProperty, DeviceMotionDetectionSensitivityCamera2Property,
   DeviceMotionDetectionTypeProperty, DevicePowerSourceProperty, DevicePowerWorkingModeProperty,
   DeviceRecordingClipLengthProperty, DeviceRecordingRetriggerIntervalProperty,
   DeviceRecordingEndClipMotionStopsProperty, DeviceNotificationTypeProperty,
   DeviceVideoStreamingQualityCamera3Property, DeviceVideoRecordingQualityCamera3Property,
   DeviceFloodlightLightSettingsEnableProperty,
   DeviceLightSettingsBrightnessManualCamera3Property, DeviceFloodlightLightProperty}
Camera3ProSettings ==
  {DeviceEnabledSoloProperty, DeviceAntitheftDetectionProperty, DeviceNightvisionProperty,
   DeviceStatusLedProperty, DeviceMotionDetectionProperty, DeviceRTSPStreamProperty,
   DeviceWatermarkProperty, DeviceMicrophoneProperty, DeviceSpeakerProperty,
   DeviceSpeakerVolumeCamera3Property, DeviceAudioRecordingProperty,
   DeviceMotionDetectionSensitivityCamera2Property, DeviceMotionDetectionTypeProperty,
   DevicePowerSourceProperty, DevicePowerWorkingModeProperty, DeviceRecordingClipLengthProperty,
   DeviceRecordingRetriggerIntervalProperty, DeviceRecordingEndClipMotionStopsProperty,
   DeviceNotificationTypeProperty, DeviceVideoStreamingQualityCamera3Property,
   DeviceVideoRecordingQualityCamera3Property, DeviceFloodlightLightSettingsEnableProperty,
   DeviceLightSettingsBrightnessManualCamera3Property, DeviceFloodlightLightProperty}
CameraS4Settings ==
  {DeviceEnabledIndoorS350Property, DeviceNightvisionProperty, DeviceAntitheftDetectionProperty,
   DeviceMotionDetectionIndoorSoloFloodProperty, DeviceWatermarkProperty, DeviceStatusLedProperty,
   DeviceFloodlightLightProperty, DeviceFloodlightLightSettingsBrightnessManualProperty,
   DeviceFloodlightLightSettingsEnableProperty,
   DeviceFloodlightLightSettingsMotionTriggeredProperty, DeviceRTSPStreamProperty,
   DeviceMotionDetectionSensitivityIndoorProperty, DeviceMicrophoneProperty,
   DeviceSpeakerProperty, DeviceSpeakerVolumeIndoorFloodDoorbellProperty,
   DeviceAudioRecordingProperty, DeviceMotionHB3DetectionTypeHumanProperty,
   DeviceMotionHB3DetectionTypeVehicleProperty,
   DeviceMotionHB3DetectionTypeAllOtherMotionsProperty, DeviceVideoStreamingQualitySoloProperty,
   DeviceVideoRecordingQualityProperty, DeviceNotificationTypeIndoorFloodlightProperty,
   DeviceImageMirroredProperty, DevicePowerSourceProperty, DevicePowerWorkingModeProperty,
   DeviceRecordingClipLengthOutdoorPTProperty, DeviceRecordingRetriggerIntervalProperty,
   DeviceRecordingEndClipMotionStopsProperty, DeviceWDRProperty,
   DeviceDualCamWatchViewModeProperty, DeviceContinuousRecordingProperty,
   DeviceContinuousRecordingTypeProperty, DeviceVideoTypeStoreToNASProperty}
Professional247Settings ==
  {DeviceEnabledSoloProperty, DeviceNightvisionProperty, DeviceStatusLedProperty,
   DeviceMotionDetectionProperty, DeviceWatermarkProperty, DeviceMicrophoneProperty,
   DeviceSpeakerProperty, DeviceSpeakerVolumeCamera3Property, DeviceAudioRecordingProperty,
   DeviceMotionDetectionTypeProperty, DeviceRecordingClipLengthProperty,
   DeviceRecordingEndClipMotionStopsProperty, DeviceNotificationTypeProperty,
   DeviceVideoStreamingQualityCameraProfessionalProperty,
   DeviceLightSettingsBrightnessManualCamera3Property, DeviceFloodlightLightProperty,
   DeviceImageMirroredProperty, DeviceFlickerAdjustmentProperty}
CameraSettings ==
  {DeviceEnabledProperty, DeviceAutoNightvisionProperty, DeviceMotionDetectionProperty,
   DeviceWatermarkBatteryDoorbellCamera1Property, DeviceMicrophoneProperty, DeviceSpeakerProperty,
   DevicePowerSourceProperty, DevicePowerWorkingModeProperty, DeviceRecordingClipLengthProperty,
   DeviceRecordingRetriggerIntervalProperty, DeviceRecordingEndClipMotionStopsProperty,
   DeviceNotificationTypeProperty, DeviceStatusLedProperty, DeviceAntitheftDetectionProperty,
   DeviceAudioRecordingProperty, DeviceRTSPStreamProperty,
   DeviceMotionDetectionSensitivityCamera1Property, DeviceMotionDetectionCamera1Property}
CameraESettings ==
  {DeviceEnabledProperty, DeviceAutoNightvisionProperty, DeviceMotionDetectionProperty,
   DeviceWatermarkBatteryDoorbellCamera1Property, DeviceMicrophoneProperty, DeviceSpeakerProperty,
   DevicePowerSourceProperty, DevicePowerWorkingModeProperty, DeviceRecordingClipLengthProperty,
   DeviceRecordingRetriggerIntervalProperty, DeviceRecordingEndClipMotionStopsProperty,
   DeviceNotificationTypeProperty, DeviceStatusLedProperty, DeviceAntitheftDetectionProperty,
   DeviceAudioRecordingProperty, DeviceRTSPStreamProperty,
   DeviceMotionDetectionSensitivityCamera1Property, DeviceMotionDetectionCamera1Property}
DoorbellSettings ==
  {DeviceEnabledStandaloneProperty, DeviceAutoNightvisionWiredDoorbellProperty,
   DeviceMotionDetectionDoorbellProperty, DeviceWatermarkSoloWiredDoorbellProperty,
   DeviceStatusLedDoorbellProperty, DeviceMotionDetectionSensitivityWiredDoorbellProperty,
   DeviceVideoHDRWiredDoorbellProperty, DeviceVideoDistortionCorrectionWiredDoorbellProperty,
   DeviceVideoStreamingQualityProperty, DeviceVideoRecordingQualityWiredDoorbellProperty,
   DeviceVideoRingRecordWiredDoorbellProperty, DeviceAudioRecordingWiredDoorbellProperty,
   DeviceChimeIndoorWiredDoorbellProperty, DeviceSpeakerVolumeWiredDoorbellProperty,
   DeviceRingtoneVolumeWiredDoorbellProperty, DeviceNotificationRingWiredDoorbellProperty,
   DeviceNotificationMotionWiredDoorbellProperty, DeviceNotificationTypeWiredDoorbellProperty}
BatteryDoorbellSettings ==
  {DeviceEnabledProperty, DeviceAutoNightvisionProperty, DeviceStatusLedBatteryDoorbellProperty,
   DeviceMotionDetectionProperty, DeviceWatermarkBatteryDoorbellCamera1Property,
   DeviceSpeakerVolumeIndoorFloodDoorbellProperty, DeviceRingtoneVolumeBatteryDoorbellProperty,
   DeviceAudioRecordingProperty, DeviceMotionDetectionTypeProperty,
   DeviceMotionDetectionSensitivityBatteryDoorbellProperty,
   DevicePowerWorkingModeBatteryDoorbellProperty, DeviceRecordingClipLengthProperty,
   DeviceRecordingRetriggerIntervalBatteryDoorbellProperty,
   DeviceRecordingEndClipMotionStopsProperty, DeviceVideoStreamingQualityBatteryDoorbellProperty,
   DeviceWDRProperty, DeviceChimeIndoorBatteryDoorbellProperty,
   DeviceChimeHomebaseBatteryDoorbellProperty,
   DeviceChimeHomebaseRingtoneVolumeBatteryDoorbellProperty,
   DeviceChimeHomebaseRingtoneTypeBatteryDoorbellProperty,
   DeviceNotificationTypeBatteryDoorbellProperty, DeviceNotificationRingProperty,
   DeviceNotificationMotionProperty}
BatteryDoorbell2Settings ==
  {DeviceEnabledProperty, DeviceAutoNightvisionProperty, DeviceStatusLedBatteryDoorbellProperty,
   DeviceMotionDetectionProperty, DeviceWatermarkBatteryDoorbellCamera1Property,
   DeviceSpeakerVolumeIndoorFloodDoorbellProperty, DeviceRingtoneVolumeBatteryDoorbellProperty,
   DeviceAudioRecordingProperty, DeviceMotionDetectionTypeProperty,
   DeviceMotionDetectionSensitivityBatteryDoorbellProperty,
   DevicePowerWorkingModeBatteryDoorbellProperty, DeviceRecordingClipLengthProperty,
   DeviceRecordingRetriggerIntervalBatteryDoorbellProperty,
   DeviceRecordingEndClipMotionStopsProperty, DeviceVideoStreamingQualityBatteryDoorbellProperty,
   DeviceWDRProperty, DeviceChimeIndoorBatteryDoorbellProperty,
   DeviceChimeHomebaseBatteryDoorbellProperty,
   DeviceChimeHomebaseRingtoneVolumeBatteryDoorbellProperty,
   DeviceChimeHomebaseRingtoneTypeBatteryDoorbellProperty,
   DeviceNotificationTypeBatteryDoorbellProperty, DeviceNotificationRingProperty,
   DeviceNotificationMotionProperty}
BatteryDoorbellPlusSettings ==
  {DeviceEnabledProperty, DeviceAutoNightvisionProperty,
   DeviceStatusLedBatteryDoorbellDualProperty, DeviceMotionDetectionProperty,
   DeviceWatermarkBatteryDoorbellCamera1Property, DeviceSpeakerVolumeIndoorFloodDoorbellProperty,
   DeviceRingtoneVolumeBatteryDoorbellProperty, DeviceAudioRecordingProperty,
   DeviceMotionDetectionTypeProperty, DevicePowerWorkingModeBatteryDoorbellProperty,
   DeviceRecordingClipLengthProperty, DeviceRecordingRetriggerIntervalBatteryDoorbellProperty,
   DeviceRecordingEndClipMotionStopsProperty, DeviceVideoStreamingQualityBatteryDoorbellProperty,
   DeviceWDRProperty, DeviceChimeIndoorBatteryDoorbellProperty,
   DeviceChimeHomebaseBatteryDoorbellProperty,
   DeviceChimeHomebaseRingtoneVolumeBatteryDoorbellProperty,
   DeviceChimeHomebaseRingtoneTypeBatteryDoorbellProperty,
   DeviceNotificationTypeBatteryDoorbellProperty, DeviceNotificationRingProperty,
   DeviceNotificationMotionProperty, DeviceNotificationRadarDetectorProperty,
   DeviceMotionDetectionSensitivityModeProperty, DeviceMotionDetectionSensitivityStandardProperty,
   DeviceMotionDetectionSensitivityAdvancedAProperty,
   DeviceMotionDetectionSensitivityAdvancedBProperty,
   DeviceMotionDetectionSensitivityAdvancedCProperty,
   DeviceMotionDetectionSensitivityAdvancedDProperty,
   DeviceMotionDetectionSensitivityAdvancedEProperty,
   DeviceMotionDetectionSensitivityAdvancedFProperty,
   DeviceMotionDetectionSensitivityAdvancedGProperty,
   DeviceMotionDetectionSensitivityAdvancedHProperty, DeviceLoiteringDetectionProperty,
   DeviceLoiteringDetectionLengthProperty, DeviceLoiteringDetectionRangeProperty,
   DeviceLoiteringCustomResponsePhoneNotificationProperty,
   DeviceLoiteringCustomResponseAutoVoiceResponseProperty,
   DeviceLoiteringCustomResponseAutoVoiceResponseVoiceProperty,
   DeviceLoiteringCustomResponseHomeBaseNotificationProperty,
   DeviceLoiteringCustomResponseTimeFromProperty, DeviceLoiteringCustomResponseTimeToProperty,
   DeviceDeliveryGuardProperty, DeviceDeliveryGuardPackageGuardingProperty,
   DeviceDeliveryGuardPackageGuardingActivatedTimeFromProperty,
   DeviceDeliveryGuardPackageGuardingActivatedTimeToProperty,
   DeviceDeliveryGuardPackageGuardingVoiceResponseVoiceProperty,
   DeviceDeliveryGuardPackageLiveCheckAssistanceProperty,
   DeviceDeliveryGuardUncollectedPackageAlertProperty,
   DeviceDeliveryGuardUncollectedPackageAlertTimeToCheckProperty,
   DeviceDualCamWatchViewModeProperty, DeviceRingAutoResponseProperty,
   DeviceRingAutoResponseVoiceResponseProperty, DeviceRingAutoResponseVoiceResponseVoiceProperty,
   DeviceRingAutoResponseTimeFromProperty, DeviceRingAutoResponseTimeToProperty}
BatteryDoorbellC30Settings ==
  {DeviceEnabledProperty, DeviceNightvisionProperty, DeviceStatusLedBatteryDoorbellProperty,
   DeviceMotionDetectionProperty, DeviceWatermarkBatteryDoorbellCamera1Property,
   DeviceSpeakerVolumeIndoorFloodDoorbellProperty, DeviceRingtoneVolumeBatteryDoorbellProperty,
   DeviceMicrophoneProperty, DeviceAudioRecordingProperty, DeviceMotionDetectionTypeProperty,
   DeviceMotionDetectionSensitivityDoorbellE340Property,
   DevicePowerWorkingModeBatteryDoorbellProperty, DeviceRecordingClipLengthProperty,
   DeviceRecordingRetriggerIntervalBatteryDoorbellProperty,
   DeviceRecordingEndClipMotionStopsProperty, DeviceVideoStreamingQualityDoorbellE340Property,
   DeviceVideoRecordingQualityDoorbellE340Property, DeviceWDRProperty,
   DeviceChimeIndoorBatteryDoorbellProperty, DeviceChimeHomebaseBatteryDoorbellProperty,
   DeviceChimeHomebaseRingtoneVolumeBatteryDoorbellProperty,
   DeviceChimeHomebaseRingtoneTypeBatteryDoorbellProperty,
   DeviceNotificationTypeBatteryDoorbellProperty, DeviceNotificationRingProperty,
   DeviceNotificationMotionProperty}
BatteryDoorbellC31Settings ==
  {DeviceEnabledProperty, DeviceNightvisionProperty, DeviceStatusLedBatteryDoorbellProperty,
   DeviceMotionDetectionProperty, DeviceWatermarkBatteryDoorbellCamera1Property,
   DeviceSpeakerVolumeIndoorFloodDoorbellProperty, DeviceRingtoneVolumeBatteryDoorbellProperty,
   DeviceMicrophoneProperty, DeviceAudioRecordingProperty, DeviceMotionDetectionTypeProperty,
   DeviceMotionDetectionSensitivityDoorbellE340Property,
   DevicePowerWorkingModeBatteryDoorbellProperty, DeviceRecordingClipLengthProperty,
   DeviceRecordingRetriggerIntervalBatteryDoorbellProperty,
   DeviceRecordingEndClipMotionStopsProperty, DeviceVideoStreamingQualityDoorbellE340Property,
   DeviceVideoRecordingQualityDoorbellE340Property, DeviceWDRProperty,
   DeviceChimeIndoorBatteryDoorbellProperty, DeviceChimeHomebaseBatteryDoorbellProperty,
   DeviceChimeHomebaseRingtoneVolumeBatteryDoorbellProperty,
   DeviceChimeHomebaseRingtoneTypeBatteryDoorbellProperty,
   DeviceNotificationTypeBatteryDoorbellProperty, DeviceNotificationRingProperty,
   DeviceNotificationMotionProperty}
BatteryDoorbellPlusE340Settings ==
  {DeviceEnabledProperty, DeviceNightvisionProperty, DeviceStatusLedBatteryDoorbellProperty,
   DeviceFloodlightLightProperty, DeviceMotionDetectionProperty,
   DeviceWatermarkBatteryDoorbellCamera1Property, DeviceSpeakerVolumeIndoorFloodDoorbellProperty,
   DeviceRingtoneVolumeBatteryDoorbellProperty, DeviceMicrophoneProperty,
   DeviceAudioRecordingProperty, DeviceMotionDetectionTypeProperty,
   DeviceMotionDetectionSensitivityDoorbellE340Property,
   DevicePowerWorkingModeBatteryDoorbellProperty, DeviceRecordingClipLengthProperty,
   DeviceRecordingRetriggerIntervalBatteryDoorbellProperty,
   DeviceRecordingEndClipMotionStopsProperty, DeviceVideoStreamingQualityDoorbellE340Property,
   DeviceVideoRecordingQualityDoorbellE340Property, DeviceWDRProperty,
   DeviceChimeIndoorBatteryDoorbellProperty, DeviceChimeHomebaseBatteryDoorbellProperty,
   DeviceChimeHomebaseRingtoneVolumeBatteryDoorbellProperty,
   DeviceChimeHomebaseRingtoneTypeBatteryDoorbellProperty,
   DeviceNotificationTypeBatteryDoorbellProperty, DeviceNotificationRingProperty,
   DeviceNotificationMotionProperty, DeviceDeliveryGuardProperty,
   DeviceDeliveryGuardPackageGuardingProperty,
   DeviceDeliveryGuardPackageGuardingActivatedTimeFromProperty,
   DeviceDeliveryGuardPackageGuardingActivatedTimeToProperty,
   DeviceDeliveryGuardPackageGuardingVoiceResponseVoiceProperty,
   DeviceDeliveryGuardPackageLiveCheckAssistanceProperty,
   DeviceDeliveryGuardUncollectedPackageAlertProperty,
   DeviceDeliveryGuardUncollectedPackageAlertTimeToCheckProperty,
   DeviceDualCamWatchViewModeE340Property, DeviceRingAutoResponseProperty,
   DeviceRingAutoResponseVoiceResponseProperty, DeviceRingAutoResponseVoiceResponseVoiceProperty,
   DeviceRingAutoResponseTimeFromProperty, DeviceRingAutoResponseTimeToProperty}
DoorbellSoloSettings ==
  {DeviceEnabledSoloProperty, DeviceAutoNightvisionProperty,
   DeviceStatusLedBatteryDoorbellProperty, DeviceMotionDetectionProperty,
   DeviceWatermarkBatteryDoorbellCamera1Property, DeviceSpeakerVolumeIndoorFloodDoorbellProperty,
   DeviceRingtoneVolumeBatteryDoorbellProperty, DeviceAudioRecordingProperty,
   DeviceMotionDetectionTypeProperty, DeviceMotionDetectionSensitivityBatteryDoorbellProperty,
   DeviceVideoStreamingQualityBatteryDoorbellProperty, DeviceWDRProperty,
   DeviceNotificationTypeBatteryDoorbellProperty, DeviceNotificationRingProperty,
   DeviceNotificationMotionProperty, DeviceDeliveryGuardProperty,
   DeviceDeliveryGuardPackageGuardingProperty,
   DeviceDeliveryGuardPackageGuardingActivatedTimeFromProperty,
   DeviceDeliveryGuardPackageGuardingActivatedTimeToProperty,
   DeviceDeliveryGuardPackageGuardingVoiceResponseVoiceProperty,
   DeviceDeliveryGuardPackageLiveCheckAssistanceProperty,
   DeviceDeliveryGuardUncollectedPackageAlertProperty,
   DeviceDeliveryGuardUncollectedPackageAlertTimeToCheckProperty,
   DeviceDualCamWatchViewModeProperty, DeviceRingAutoResponseProperty,
   DeviceRingAutoResponseVoiceResponseProperty, DeviceRingAutoResponseVoiceResponseVoiceProperty,
   DeviceRingAutoResponseTimeFromProperty, DeviceRingAutoResponseTimeToProperty}
Lock8530Settings ==
  {DeviceEnabledProperty, DeviceAutoNightvisionProperty, DeviceMotionDetectionProperty,
   DeviceWatermarkBatteryDoorbellCamera1Property, DeviceSpeakerVolumeIndoorFloodDoorbellProperty,
   DeviceRingtoneVolumeBatteryDoorbellProperty, DeviceAudioRecordingProperty,
   DeviceMotionDetectionTypeProperty, DevicePowerWorkingModeBatteryDoorbellProperty,
   DeviceRecordingClipLengthProperty, DeviceRecordingRetriggerIntervalBatteryDoorbellProperty,
   DeviceRecordingEndClipMotionStopsProperty, DeviceVideoStreamingQualityBatteryDoorbellProperty,
   DeviceVideoRecordingQualityT8530Property, DeviceChimeIndoorBatteryDoorbellProperty,
   DeviceChimeHomebaseBatteryDoorbellProperty,
   DeviceChimeHomebaseRingtoneVolumeBatteryDoorbellProperty,
   DeviceChimeHomebaseRingtoneTypeBatteryDoorbellProperty,
   DeviceNotificationTypeBatteryDoorbellProperty, DeviceNotificationRingProperty,
   DeviceNotificationMotionProperty, DeviceMotionDetectionSensitivityModeProperty,
   DeviceMotionDetectionSensitivityStandardProperty,
   DeviceMotionDetectionSensitivityAdvancedAProperty,
   DeviceMotionDetectionSensitivityAdvancedBProperty,
   DeviceMotionDetectionSensitivityAdvancedCProperty,
   DeviceMotionDetectionSensitivityAdvancedDProperty,
   DeviceMotionDetectionSensitivityAdvancedEProperty,
   DeviceMotionDetectionSensitivityAdvancedFProperty,
   DeviceMotionDetectionSensitivityAdvancedGProperty,
   DeviceMotionDetectionSensitivityAdvancedHProperty, DeviceLoiteringDetectionProperty,
   DeviceLoiteringDetectionLengthProperty, DeviceLoiteringDetectionRangeProperty,
   DeviceLoiteringCustomResponsePhoneNotificationProperty,
   DeviceLoiteringCustomResponseAutoVoiceResponseProperty,
   DeviceLoiteringCustomResponseAutoVoiceResponseVoiceProperty,
   DeviceLoiteringCustomResponseHomeBaseNotificationProperty,
   DeviceLoiteringCustomResponseTimeFromProperty, DeviceLoiteringCustomResponseTimeToProperty,
   DeviceLockedProperty, DeviceLeavingDetectionProperty,
   DeviceLeavingReactionNotificationProperty, DeviceLeavingReactionStartTimeProperty,
   DeviceLeavingReactionEndTimeProperty, DeviceAutoLockProperty, DeviceAutoLockTimerProperty,
   DeviceAutoLockScheduleProperty, DeviceAutoLockScheduleStartTimeProperty,
   DeviceAutoLockScheduleEndTimeProperty, DeviceOneTouchLockingProperty,
   DeviceWrongTryProtectionProperty, DeviceWrongTryAttemptsProperty,
   DeviceWrongTryLockdownTimeProperty, DeviceScramblePasscodeProperty,
   DeviceNotificationUnlockedProperty, DeviceNotificationLockedProperty, DeviceBeepVolumeProperty,
   DeviceNightvisionOptimizationProperty, DeviceNightvisionOptimizationSideProperty}
FloodlightSettings ==
  {DeviceEnabledProperty, DeviceAutoNightvisionProperty, DeviceMotionDetectionProperty,
   DeviceWatermarkBatteryDoorbellCamera1Property, DeviceStatusLedProperty,
   DeviceFloodlightLightProperty, DeviceFloodlightLightSettingsEnableProperty,
   DeviceFloodlightLightSettingsBrightnessManualProperty,
   DeviceFloodlightLightSettingsBrightnessMotionProperty,
   DeviceFloodlightLightSettingsBrightnessScheduleProperty,
   DeviceFloodlightLightSettingsMotionTriggeredProperty,
   DeviceFloodlightLightSettingsMotionTriggeredDistanceProperty,
   DeviceFloodlightLightSettingsMotionTriggeredTimerProperty,
   DeviceMotionDetectionSensitivityFloodlightT8420Property, DeviceMicrophoneProperty,
   DeviceSpeakerProperty, DeviceSpeakerVolumeFloodlightT8420Property,
   DeviceAudioRecordingFloodlightT8420Property, DeviceRecordingClipLengthFloodlightProperty,
   DeviceRecordingRetriggerIntervalFloodlightProperty, DeviceRecordingEndClipMotionStopsProperty,
   DeviceMotionDetectionTestModeProperty}
FloodlightCamera8422Settings ==
  {DeviceEnabledStandaloneProperty, DeviceAutoNightvisionProperty,
   DeviceMotionDetectionIndoorSoloFloodProperty, DeviceWatermarkIndoorFloodProperty,
   DeviceStatusLedIndoorFloodProperty, DeviceFloodlightLightProperty,
   DeviceFloodlightLightSettingsEnableProperty,
   DeviceFloodlightLightSettingsBrightnessManualProperty,
   DeviceFloodlightLightSettingsBrightnessMotionProperty,
   DeviceFloodlightLightSettingsBrightnessScheduleProperty,
   DeviceFloodlightLightSettingsMotionTriggeredProperty,
   DeviceFloodlightLightSettingsMotionTriggeredTimerProperty,
   DeviceMotionDetectionSensitivityIndoorProperty, DeviceMicrophoneProperty,
   DeviceSpeakerProperty, DeviceSpeakerVolumeIndoorFloodDoorbellProperty,
   DeviceAudioRecordingIndoorSoloFloodlightProperty, DeviceMotionDetectionTypeFloodlightProperty,
   DeviceRecordingClipLengthFloodlightProperty,
   DeviceRecordingRetriggerIntervalFloodlightProperty, DeviceRecordingEndClipMotionStopsProperty,
   DeviceVideoStreamingQualityProperty, DeviceNotificationTypeIndoorFloodlightProperty,
   DeviceVideoRecordingQualityIndoorProperty}
FloodlightCamera8423Settings ==
  {DeviceEnabledSoloProperty, DeviceAutoNightvisionProperty,
   DeviceMotionDetectionIndoorSoloFloodProperty, DeviceWatermarkSoloWiredDoorbellProperty,
   DeviceStatusLedProperty, DeviceFloodlightLightProperty,
   DeviceFloodlightLightSettingsEnableProperty,
   DeviceFloodlightLightSettingsBrightnessManualProperty,
   DeviceFloodlightLightSettingsBrightnessMotionProperty,
   DeviceFloodlightLightSettingsBrightnessScheduleProperty,
   DeviceFloodlightLightSettingsMotionTriggeredProperty,
   DeviceFloodlightLightSettingsMotionTriggeredTimerProperty, DeviceMicrophoneProperty,
   DeviceSpeakerProperty, DeviceSpeakerVolumeIndoorFloodDoorbellProperty,
   DeviceAudioRecordingProperty, DeviceMotionDetectionTypeFloodlightT8423Property,
   DeviceRecordingClipLengthFloodlightProperty, DeviceRecordingEndClipMotionStopsProperty,
   DeviceVideoStreamingQualitySoloProperty, DeviceNotificationTypeIndoorFloodlightProperty,
   DeviceVideoRecordingQualityProperty, DeviceMotionTrackingProperty,
   DeviceMotionDetectionRangeProperty, DeviceMotionDetectionRangeStandardSensitivityProperty,
   DeviceMotionDetectionRangeAdvancedLeftSensitivityProperty,
   DeviceMotionDetectionRangeAdvancedMiddleSensitivityProperty,
   DeviceMotionDetectionRangeAdvancedRightSensitivityProperty,
   DeviceMotionDetectionTestModeProperty, DeviceMotionTrackingSensitivityProperty,
   DeviceMotionAutoCruiseProperty, DeviceMotionOutOfViewDetectionProperty,
   DeviceLightSettingsColorTemperatureManualProperty,
   DeviceLightSettingsColorTemperatureMotionProperty,
   DeviceLightSettingsColorTemperatureScheduleProperty,
   DeviceLightSettingsMotionActivationModeProperty, DeviceVideoNightvisionImageAdjustmentProperty,
   DeviceVideoColorNightvisionProperty, DeviceAutoCalibrationProperty}
FloodlightCamera8424Settings ==
  {DeviceEnabledStandaloneProperty, DeviceAutoNightvisionProperty,
   DeviceMotionDetectionIndoorSoloFloodProperty, DeviceWatermarkIndoorFloodProperty,
   DeviceStatusLedIndoorFloodProperty, DeviceFloodlightLightProperty,
   DeviceFloodlightLightSettingsEnableProperty,
   DeviceFloodlightLightSettingsBrightnessManualProperty,
   DeviceFloodlightLightSettingsBrightnessMotionProperty,
   DeviceFloodlightLightSettingsBrightnessScheduleProperty,
   DeviceFloodlightLightSettingsMotionTriggeredProperty,
   DeviceFloodlightLightSettingsMotionTriggeredTimerProperty,
   DeviceMotionDetectionSensitivityIndoorProperty, DeviceMicrophoneProperty,
   DeviceSpeakerProperty, DeviceSpeakerVolumeIndoorFloodDoorbellProperty,
   DeviceAudioRecordingIndoorSoloFloodlightProperty, DeviceMotionDetectionTypeFloodlightProperty,
   DeviceRecordingClipLengthFloodlightProperty,
   DeviceRecordingRetriggerIntervalFloodlightProperty, DeviceRecordingEndClipMotionStopsProperty,
   DeviceVideoStreamingQualityProperty, DeviceNotificationTypeIndoorFloodlightProperty,
   DeviceVideoRecordingQualityIndoorProperty}
FloodlightCamera8425Settings ==
  {DeviceEnabledSoloProperty, DeviceNightvisionProperty,
   DeviceMotionDetectionIndoorSoloFloodProperty, DeviceWatermarkProperty,
   DeviceStatusLedIndoorS350Property, DeviceFloodlightLightProperty,
   DeviceFloodlightLightSettingsEnableProperty,
   DeviceFloodlightLightSettingsBrightnessManualProperty,
   DeviceFloodlightLightSettingsBrightnessMotionT8425Property,
   DeviceFloodlightLightSettingsBrightnessScheduleT8425Property,
   DeviceFloodlightLightSettingsMotionTriggeredT8425Property,
   DeviceFloodlightLightSettingsMotionTriggeredTimerT8425Property, DeviceMicrophoneProperty,
   DeviceSpeakerProperty, DeviceSpeakerVolumeIndoorFloodDoorbellProperty,
   DeviceAudioRecordingProperty, DeviceMotionDetectionTypeFloodlightT8423Property,
   DeviceMotionDetectionSensitivityBatteryDoorbellProperty,
   DeviceVideoStreamingQualityS340Property, DeviceVideoRecordingQualityS340Property,
   DeviceMotionTrackingProperty, DeviceMotionDetectionRangeT8425Property,
   DeviceMotionDetectionRangeStandardSensitivityT8425Property,
   DeviceMotionDetectionRangeAdvancedLeftSensitivityT8425Property,
   DeviceMotionDetectionRangeAdvancedRightSensitivityT8425Property,
   DeviceMotionDetectionTestModeT8425Property, DeviceMotionAutoCruiseProperty,
   DeviceMotionOutOfViewDetectionProperty, DeviceLightSettingsMotionActivationModeT8425Property,
   DeviceAutoCalibrationProperty, DeviceRotationSpeedProperty,
   DeviceDualCamWatchViewModeS340Property, DeviceImageMirroredProperty,
   DeviceNotificationPersonS350Property, DeviceNotificationPetS350Property,
   DeviceNotificationVehicleProperty, DeviceNotificationAllOtherMotionS350Property,
   DeviceNotificationTypeIndoorFloodlightProperty, DeviceNotificationIntervalTimeProperty}
FloodlightCamera8426Settings ==
  {DeviceEnabledSoloProperty, DeviceNightvisionProperty,
   DeviceMotionDetectionIndoorSoloFloodProperty, DeviceWatermarkProperty,
   DeviceStatusLedIndoorS350Property, DeviceFloodlightLightProperty,
   DeviceFloodlightLightSettingsEnableProperty,
   DeviceFloodlightLightSettingsBrightnessManualProperty,
   DeviceFloodlightLightSettingsBrightnessMotionT8425Property,
   DeviceFloodlightLightSettingsBrightnessScheduleT8425Property,
   DeviceFloodlightLightSettingsMotionTriggeredT8425Property,
   DeviceFloodlightLightSettingsMotionTriggeredTimerT8425Property, DeviceMicrophoneProperty,
   DeviceSpeakerProperty, DeviceSpeakerVolumeIndoorFloodDoorbellProperty,
   DeviceAudioRecordingProperty, DeviceMotionDetectionTypeFloodlightT8423Property,
   DeviceMotionDetectionSensitivityBatteryDoorbellProperty,
   DeviceVideoStreamingQualityS340Property, DeviceVideoRecordingQualityS340Property,
   DeviceMotionTrackingProperty, DeviceMotionDetectionRangeT8425Property,
   DeviceMotionDetectionRangeStandardSensitivityT8425Property,
   DeviceMotionDetectionRangeAdvancedLeftSensitivityT8425Property,
   DeviceMotionDetectionRangeAdvancedRightSensitivityT8425Property,
   DeviceMotionDetectionTestModeT8425Property, DeviceMotionAutoCruiseProperty,
   DeviceMotionOutOfViewDetectionProperty, DeviceLightSettingsMotionActivationModeT8425Property,
   DeviceAutoCalibrationProperty, DeviceRotationSpeedProperty,
   DeviceDualCamWatchViewModeS340Property, DeviceImageMirroredProperty,
   DeviceNotificationPersonS350Property, DeviceNotificationPetS350Property,
   DeviceNotificationVehicleProperty, DeviceNotificationAllOtherMotionS350Property,
   DeviceNotificationTypeIndoorFloodlightProperty, DeviceNotificationIntervalTimeProperty}
IndoorCameraSettings ==
  {DeviceEnabledStandaloneProperty, DeviceAutoNightvisionProperty,
   DeviceMotionDetectionIndoorSoloFloodProperty, DeviceSoundDetectionProperty,
   DevicePetDetectionProperty, DeviceRTSPStreamProperty, DeviceWatermarkIndoorFloodProperty,
   DeviceSoundDetectionTypeProperty, DeviceSoundDetectionSensitivityProperty,
   DeviceStatusLedIndoorFloodProperty, DeviceMotionDetectionSensitivityIndoorProperty,
   DeviceMicrophoneProperty, DeviceSpeakerProperty,
   DeviceSpeakerVolumeIndoorFloodDoorbellProperty,
   DeviceAudioRecordingIndoorSoloFloodlightProperty, DeviceMotionDetectionTypeIndoorProperty,
   DeviceVideoStreamingQualityProperty, DeviceVideoRecordingQualityIndoorProperty,
   DeviceNotificationTypeIndoorFloodlightProperty, DeviceNotificationPersonProperty,
   DeviceNotificationPetProperty, DeviceNotificationAllOtherMotionProperty,
   DeviceNotificationAllSoundProperty, DeviceNotificationCryingProperty,
   DeviceNotificationIntervalTimeProperty, DeviceContinuousRecordingProperty,
   DeviceContinuousRecordingTypeProperty, DeviceVideoTypeStoreToNASProperty}
IndoorCamera1080Settings ==
  {DeviceEnabledStandaloneProperty, DeviceAutoNightvisionProperty,
   DeviceMotionDetectionIndoorSoloFloodProperty, DeviceSoundDetectionProperty,
   DevicePetDetectionProperty, DeviceRTSPStreamProperty, DeviceWatermarkIndoorFloodProperty,
   DeviceSoundDetectionTypeProperty, DeviceSoundDetectionSensitivityProperty,
   DeviceStatusLedIndoorFloodProperty, DeviceMotionDetectionSensitivityIndoorProperty,
   DeviceMicrophoneProperty, DeviceSpeakerProperty,
   DeviceSpeakerVolumeIndoorFloodDoorbellProperty,
   DeviceAudioRecordingIndoorSoloFloodlightProperty, DeviceMotionDetectionTypeIndoorProperty,
   DeviceVideoStreamingQualityProperty, DeviceNotificationTypeIndoorFloodlightProperty,
   DeviceNotificationPersonProperty, DeviceNotificationPetProperty,
   DeviceNotificationAllOtherMotionProperty, DeviceNotificationAllSoundProperty,
   DeviceNotificationCryingProperty, DeviceNotificationIntervalTimeProperty,
   DeviceContinuousRecordingProperty, DeviceContinuousRecordingTypeProperty,
   DeviceVideoTypeStoreToNASProperty}
IndoorCostDownCameraSettings ==
  {DeviceEnabledIndoorMiniProperty, DeviceAutoNightvisionProperty,
   DeviceMotionDetectionIndoorSoloFloodProperty, DeviceSoundDetectionProperty,
   DeviceRTSPStreamProperty, DeviceWatermarkIndoorFloodProperty,
   DeviceSoundDetectionSensitivityProperty, DeviceStatusLedIndoorFloodProperty,
   DeviceMotionDetectionSensitivityIndoorProperty, DeviceMicrophoneProperty,
   DeviceSpeakerProperty, DeviceSpeakerVolumeIndoorFloodDoorbellProperty,
   DeviceAudioRecordingIndoorSoloFloodlightProperty, DeviceMotionDetectionTypeIndoorMiniProperty,
   DeviceMotionTrackingProperty, DeviceVideoStreamingQualityProperty,
   DeviceVideoRecordingQualityIndoorProperty, DeviceNotificationTypeIndoorFloodlightProperty,
   DeviceRotationSpeedProperty, DeviceNotificationPersonProperty,
   DeviceNotificationAllOtherMotionProperty, DeviceNotificationAllSoundProperty,
   DeviceContinuousRecordingProperty, DeviceContinuousRecordingTypeProperty,
   DeviceDefaultAngleProperty, DeviceDefaultAngleIdleTimeProperty,
   DeviceNotificationIntervalTimeProperty, DeviceSoundDetectionRoundLookProperty,
   DeviceVideoTypeStoreToNASProperty}
IndoorPtCameraSettings ==
  {DeviceEnabledStandaloneProperty, DeviceAutoNightvisionProperty,
   DeviceMotionDetectionIndoorSoloFloodProperty, DeviceSoundDetectionProperty,
   DevicePetDetectionProperty, DeviceRTSPStreamProperty, DeviceWatermarkIndoorFloodProperty,
   DeviceSoundDetectionTypeProperty, DeviceSoundDetectionSensitivityProperty,
   DeviceStatusLedIndoorFloodProperty, DeviceMotionDetectionSensitivityIndoorProperty,
   DeviceMicrophoneProperty, DeviceSpeakerProperty,
   DeviceSpeakerVolumeIndoorFloodDoorbellProperty,
   DeviceAudioRecordingIndoorSoloFloodlightProperty, DeviceMotionDetectionTypeIndoorProperty,
   DeviceMotionTrackingProperty, DeviceVideoStreamingQualityProperty,
   DeviceVideoRecordingQualityIndoorProperty, DeviceNotificationTypeIndoorFloodlightProperty,
   DeviceRotationSpeedProperty, DeviceNotificationPersonProperty, DeviceNotificationPetProperty,
   DeviceNotificationAllOtherMotionProperty, DeviceNotificationAllSoundProperty,
   DeviceNotificationCryingProperty, DeviceNotificationIntervalTimeProperty,
   DeviceContinuousRecordingProperty, DeviceContinuousRecordingTypeProperty,
   DeviceMotionZoneProperty, DeviceImageMirroredProperty, DeviceVideoTypeStoreToNASProperty}
IndoorPtCamera1080Settings ==
  {DeviceEnabledStandaloneProperty, DeviceAutoNightvisionProperty,
   DeviceMotionDetectionIndoorSoloFloodProperty, DeviceSoundDetectionProperty,
   DevicePetDetectionProperty, DeviceRTSPStreamProperty, DeviceWatermarkIndoorFloodProperty,
   DeviceSoundDetectionTypeProperty, DeviceSoundDetectionSensitivityProperty,
   DeviceStatusLedIndoorFloodProperty, DeviceMotionDetectionSensitivityIndoorProperty,
   DeviceMicrophoneProperty, DeviceSpeakerProperty,
   DeviceSpeakerVolumeIndoorFloodDoorbellProperty,
   DeviceAudioRecordingIndoorSoloFloodlightProperty, DeviceMotionDetectionTypeIndoorProperty,
   DeviceMotionTrackingProperty, DeviceVideoStreamingQualityProperty,
   DeviceNotificationTypeIndoorFloodlightProperty, DeviceRotationSpeedProperty,
   DeviceNotificationPersonProperty, DeviceNotificationPetProperty,
   DeviceNotificationAllOtherMotionProperty, DeviceNotificationAllSoundProperty,
   DeviceNotificationCryingProperty, DeviceNotificationIntervalTimeProperty,
   DeviceContinuousRecordingProperty, DeviceContinuousRecordingTypeProperty,
   DeviceVideoTypeStoreToNASProperty}
IndoorOutdoorCamera1080pSettings ==
  {DeviceEnabledStandaloneProperty, DeviceNightvisionProperty,
   DeviceMotionDetectionIndoorSoloFloodProperty, DeviceSoundDetectionProperty,
   DevicePetDetectionProperty, DeviceRTSPStreamProperty, DeviceWatermarkIndoorFloodProperty,
   DeviceSoundDetectionTypeProperty, DeviceSoundDetectionSensitivityProperty,
   DeviceStatusLedIndoorFloodProperty, DeviceMotionDetectionSensitivityIndoorProperty,
   DeviceMicrophoneProperty, DeviceSpeakerProperty,
   DeviceSpeakerVolumeIndoorFloodDoorbellProperty,
   DeviceAudioRecordingIndoorSoloFloodlightProperty, DeviceMotionDetectionTypeIndoorProperty,
   DeviceVideoStreamingQualityProperty, DeviceVideoRecordingQualityIndoorProperty,
   DeviceNotificationTypeIndoorFloodlightProperty, DeviceNotificationPersonProperty,
   DeviceNotificationPetProperty, DeviceNotificationAllOtherMotionProperty,
   DeviceNotificationAllSoundProperty, DeviceNotificationCryingProperty,
   DeviceFloodlightLightProperty, DeviceFloodlightLightSettingsBrightnessManualProperty,
   DeviceVideoTypeStoreToNASProperty}
IndoorOutdoorCamera1080pNoLightSettings ==
  {DeviceEnabledStandaloneProperty, DeviceAutoNightvisionProperty,
   DeviceMotionDetectionIndoorSoloFloodProperty, DeviceSoundDetectionProperty,
   DevicePetDetectionProperty, DeviceRTSPStreamProperty, DeviceWatermarkIndoorFloodProperty,
   DeviceSoundDetectionTypeProperty, DeviceSoundDetectionSensitivityProperty,
   DeviceStatusLedIndoorFloodProperty, DeviceMotionDetectionSensitivityIndoorProperty,
   DeviceMicrophoneProperty, DeviceSpeakerProperty,
   DeviceSpeakerVolumeIndoorFloodDoorbellProperty,
   DeviceAudioRecordingIndoorSoloFloodlightProperty, DeviceMotionDetectionTypeIndoorProperty,
   DeviceVideoStreamingQualityProperty, DeviceVideoRecordingQualityIndoorProperty,
   DeviceNotificationTypeIndoorFloodlightProperty, DeviceNotificationPersonProperty,
   DeviceNotificationPetProperty, DeviceNotificationAllOtherMotionProperty,
   DeviceNotificationAllSoundProperty, DeviceNotificationCryingProperty,
   DeviceVideoTypeStoreToNASProperty}
IndoorOutdoorCamera2kSettings ==
  {DeviceEnabledStandaloneProperty, DeviceAutoNightvisionProperty,
   DeviceMotionDetectionIndoorSoloFloodProperty, DeviceSoundDetectionProperty,
   DevicePetDetectionProperty, DeviceRTSPStreamProperty, DeviceWatermarkIndoorFloodProperty,
   DeviceSoundDetectionTypeProperty, DeviceSoundDetectionSensitivityProperty,
   DeviceStatusLedIndoorFloodProperty, DeviceMotionDetectionSensitivityIndoorProperty,
   DeviceMicrophoneProperty, DeviceSpeakerProperty,
   DeviceSpeakerVolumeIndoorFloodDoorbellProperty,
   DeviceAudioRecordingIndoorSoloFloodlightProperty, DeviceMotionDetectionTypeIndoorProperty,
   DeviceVideoStreamingQualityProperty, DeviceVideoRecordingQualityIndoorProperty,
   DeviceNotificationTypeIndoorFloodlightProperty, DeviceNotificationPersonProperty,
   DeviceNotificationPetProperty, DeviceNotificationAllOtherMotionProperty,
   DeviceNotificationAllSoundProperty, DeviceNotificationCryingProperty,
   DeviceFloodlightLightProperty, DeviceFloodlightLightSettingsBrightnessManualProperty,
   DeviceVideoTypeStoreToNASProperty}
OutdoorPtCameraSettings ==
  {DeviceEnabledSoloProperty, DeviceNightvisionProperty,
   DeviceMotionDetectionIndoorSoloFloodProperty, DeviceWatermarkProperty,
   DeviceStatusLedIndoorFloodProperty, DeviceFloodlightLightProperty,
   DeviceFloodlightLightSettingsBrightnessManualProperty,
   DeviceFloodlightLightSettingsEnableProperty, DeviceMotionDetectionSensitivitySoloProperty,
   DeviceMicrophoneProperty, DeviceSpeakerProperty,
   DeviceSpeakerVolumeIndoorFloodDoorbellProperty,
   DeviceAudioRecordingIndoorSoloFloodlightProperty, DeviceMotionHB3DetectionTypeHumanProperty,
   DeviceMotionHB3DetectionTypeVehicleProperty,
   DeviceMotionHB3DetectionTypeAllOtherMotionsProperty, DeviceMotionTrackingProperty,
   DeviceVideoStreamingQualityS340Property, DeviceVideoRecordingQualityS340Property,
   DeviceNotificationTypeIndoorFloodlightProperty, DeviceRotationSpeedProperty,
   DeviceMotionZoneProperty, DevicePowerSourceProperty, DevicePowerWorkingModeProperty,
   DeviceRecordingClipLengthOutdoorPTProperty, DeviceRecordingRetriggerIntervalProperty,
   DeviceRecordingEndClipMotionStopsProperty, DeviceDualCamWatchViewModeS340Property}
SolocamE42Settings ==
  {DeviceEnabledSoloProperty, DeviceNightvisionProperty,
   DeviceMotionDetectionIndoorSoloFloodProperty, DeviceWatermarkProperty,
   DeviceStatusLedIndoorFloodProperty, DeviceFloodlightLightProperty,
   DeviceFloodlightLightSettingsBrightnessManualProperty,
   DeviceFloodlightLightSettingsEnableProperty,
   DeviceFloodlightLightSettingsMotionTriggeredProperty,
   DeviceMotionDetectionSensitivitySoloProperty, DeviceMicrophoneProperty, DeviceSpeakerProperty,
   DeviceSpeakerVolumeIndoorFloodDoorbellProperty,
   DeviceAudioRecordingIndoorSoloFloodlightProperty, DeviceMotionHB3DetectionTypeHumanProperty,
   DeviceMotionHB3DetectionTypeVehicleProperty,
   DeviceMotionHB3DetectionTypeAllOtherMotionsProperty, DeviceMotionTrackingProperty,
   DeviceVideoStreamingQualityS340Property, DeviceVideoRecordingQualityS340Property,
   DeviceNotificationTypeIndoorFloodlightProperty, DeviceRotationSpeedProperty,
   DeviceMotionZoneProperty, DevicePowerSourceProperty, DevicePowerWorkingModeProperty,
   DeviceRecordingClipLengthOutdoorPTProperty, DeviceRecordingRetriggerIntervalProperty,
   DeviceRecordingEndClipMotionStopsProperty, DeviceDualCamWatchViewModeS340Property,
   DeviceRTSPStreamProperty, DeviceContinuousRecordingProperty,
   DeviceContinuousRecordingTypeProperty, DeviceVideoTypeStoreToNASProperty,
   DeviceImageMirroredProperty}
IndoorPtCameraS350Settings ==
  {DeviceEnabledIndoorS350Property, DeviceNightvisionS350Property,
   DeviceMotionDetectionIndoorSoloFloodProperty, DeviceSoundDetectionProperty,
   DeviceWatermarkProperty, DeviceSoundDetectionTypeS350Property,
   DeviceSoundDetectionSensitivityProperty, DeviceStatusLedIndoorFloodProperty,
   DeviceMotionDetectionSensitivityIndoorProperty, DeviceMicrophoneProperty,
   DeviceSpeakerProperty, DeviceSpeakerVolumeIndoorFloodDoorbellProperty,
   DeviceAudioRecordingIndoorSoloFloodlightProperty, DeviceMotionHB3DetectionTypeHumanProperty,
   DeviceMotionHB3DetectionTypePetProperty, DeviceMotionHB3DetectionTypeAllOtherMotionsProperty,
   DeviceVideoStreamingQualityS350Property, DeviceVideoRecordingQualityS350Property,
   DeviceNotificationTypeIndoorFloodlightProperty, DeviceNotificationPersonS350Property,
   DeviceNotificationPetS350Property, DeviceNotificationAllOtherMotionS350Property,
   DeviceNotificationAllSoundS350Property, DeviceNotificationCryingS350Property,
   DeviceMotionTrackingProperty, DeviceSoundDetectionRoundLookS350Property,
   DeviceRotationSpeedProperty, DeviceMotionAutoCruiseProperty, DeviceAutoCalibrationProperty,
   DeviceDualCamWatchViewModeS340Property, DeviceImageMirroredProperty,
   DeviceNotificationIntervalTimeProperty, DeviceContinuousRecordingProperty,
   DeviceContinuousRecordingTypeProperty, DeviceRTSPStreamProperty,
   DeviceVideoTypeStoreToNASProperty}
IndoorPtCameraE30Settings ==
  {DeviceEnabledIndoorS350Property, DeviceAutoNightvisionProperty,
   DeviceMotionDetectionIndoorSoloFloodProperty, DeviceSoundDetectionProperty,
   DeviceWatermarkProperty, DeviceSoundDetectionTypeS350Property,
   DeviceSoundDetectionSensitivityProperty, DeviceStatusLedIndoorFloodProperty,
   DeviceMotionDetectionSensitivityIndoorProperty, DeviceMicrophoneProperty,
   DeviceSpeakerProperty, DeviceSpeakerVolumeIndoorFloodDoorbellProperty,
   DeviceAudioRecordingIndoorSoloFloodlightProperty, DeviceMotionHB3DetectionTypeHumanProperty,
   DeviceMotionHB3DetectionTypePetProperty, DeviceMotionHB3DetectionTypeAllOtherMotionsProperty,
   DeviceVideoStreamingQualityS350Property, DeviceVideoRecordingQualityS350Property,
   DeviceNotificationTypeIndoorFloodlightProperty, DeviceNotificationPersonS350Property,
   DeviceNotificationPetS350Property, DeviceNotificationAllOtherMotionS350Property,
   DeviceNotificationAllSoundS350Property, DeviceNotificationCryingS350Property,
   DeviceMotionTrackingProperty, DeviceSoundDetectionRoundLookS350Property,
   DeviceRotationSpeedProperty, DeviceMotionAutoCruiseProperty, DeviceAutoCalibrationProperty,
   DeviceDualCamWatchViewModeS340Property, DeviceImageMirroredProperty,
   DeviceNotificationIntervalTimeProperty, DeviceContinuousRecordingProperty,
   DeviceContinuousRecordingTypeProperty, DeviceRTSPStreamProperty,
   DeviceVideoTypeStoreToNASProperty}
IndoorPtCameraC210Settings ==
  {DeviceEnabledIndoorS350Property, DeviceAutoNightvisionProperty,
   DeviceMotionDetectionIndoorSoloFloodProperty, DeviceSoundDetectionProperty,
   DeviceWatermarkProperty, DeviceSoundDetectionTypeS350Property,
   DeviceSoundDetectionSensitivityProperty, DeviceStatusLedIndoorFloodProperty,
   DeviceMotionDetectionSensitivityIndoorProperty, DeviceMicrophoneProperty,
   DeviceSpeakerProperty, DeviceSpeakerVolumeIndoorFloodDoorbellProperty,
   DeviceAudioRecordingIndoorSoloFloodlightProperty, DeviceMotionHB3DetectionTypeHumanProperty,
   DeviceMotionHB3DetectionTypePetProperty, DeviceMotionHB3DetectionTypeAllOtherMotionsProperty,
   DeviceVideoStreamingQualityS350Property, DeviceVideoRecordingQualityS350Property,
   DeviceNotificationTypeIndoorFloodlightProperty, DeviceNotificationPersonS350Property,
   DeviceNotificationPetS350Property, DeviceNotificationAllOtherMotionS350Property,
   DeviceNotificationAllSoundS350Property, DeviceNotificationCryingS350Property,
   DeviceMotionTrackingProperty, DeviceSoundDetectionRoundLookS350Property,
   DeviceRotationSpeedProperty, DeviceMotionAutoCruiseProperty, DeviceAutoCalibrationProperty,
   DeviceDualCamWatchViewModeS340Property, DeviceImageMirroredProperty,
   DeviceNotificationIntervalTimeProperty, DeviceContinuousRecordingProperty,
   DeviceContinuousRecordingTypeProperty, DeviceRTSPStreamProperty,
   DeviceVideoTypeStoreToNASProperty}
IndoorPtCameraC220Settings ==
  {DeviceEnabledIndoorS350Property, DeviceAutoNightvisionProperty,
   DeviceMotionDetectionIndoorSoloFloodProperty, DeviceSoundDetectionProperty,
   DeviceWatermarkProperty, DeviceSoundDetectionTypeS350Property,
   DeviceSoundDetectionSensitivityProperty, DeviceStatusLedIndoorFloodProperty,
   DeviceMotionDetectionSensitivityIndoorProperty, DeviceMicrophoneProperty,
   DeviceSpeakerProperty, DeviceSpeakerVolumeIndoorFloodDoorbellProperty,
   DeviceAudioRecordingIndoorSoloFloodlightProperty, DeviceMotionHB3DetectionTypeHumanProperty,
   DeviceMotionHB3DetectionTypePetProperty, DeviceMotionHB3DetectionTypeAllOtherMotionsProperty,
   DeviceVideoStreamingQualityS350Property, DeviceVideoRecordingQualityS350Property,
   DeviceNotificationTypeIndoorFloodlightProperty, DeviceNotificationPersonS350Property,
   DeviceNotificationPetS350Property, DeviceNotificationAllOtherMotionS350Property,
   DeviceNotificationAllSoundS350Property, DeviceNotificationCryingS350Property,
   DeviceMotionTrackingProperty, DeviceSoundDetectionRoundLookS350Property,
   DeviceRotationSpeedProperty, DeviceMotionAutoCruiseProperty, DeviceAutoCalibrationProperty,
   DeviceDualCamWatchViewModeS340Property, DeviceImageMirroredProperty,
   DeviceNotificationIntervalTimeProperty, DeviceContinuousRecordingProperty,
   DeviceContinuousRecordingTypeProperty, DeviceRTSPStreamProperty,
   DeviceVideoTypeStoreToNASProperty}
CameraFgSettings ==
  {DeviceEnabledSoloProperty, DeviceNightvisionProperty,
   DeviceMotionDetectionIndoorSoloFloodProperty, DeviceWatermarkSoloWiredDoorbellProperty,
   DeviceStatusLedProperty, DeviceMicrophoneProperty, DeviceSpeakerProperty,
   DeviceSpeakerVolumeSoloProperty, DeviceAudioRecordingStarlight4gLTEProperty,
   DeviceMotionDetectionTypeProperty, DevicePowerWorkingModeProperty,
   DeviceRecordingClipLengthProperty, DeviceRecordingRetriggerIntervalProperty,
   DeviceRecordingEndClipMotionStopsProperty, DeviceVideoStreamingQualitySoloProperty,
   DeviceVideoRecordingQualityProperty, DeviceNotificationTypeIndoorFloodlightProperty,
   DeviceMotionDetectionSensitivitySoloProperty, DeviceAntitheftDetectionProperty,
   DevicePowerSourceProperty}
Camera4gS330Settings ==
  {DeviceEnabledSoloProperty, DeviceNightvisionProperty,
   DeviceMotionDetectionIndoorSoloFloodProperty, DeviceWatermarkProperty, DeviceStatusLedProperty,
   DeviceFloodlightLightProperty, DeviceFloodlightLightSettingsBrightnessManualProperty,
   DeviceFloodlightLightSettingsEnableProperty,
   DeviceFloodlightLightSettingsMotionTriggeredProperty,
   DeviceMotionDetectionSensitivitySoloProperty, DeviceMicrophoneProperty, DeviceSpeakerProperty,
   DeviceSpeakerVolumeIndoorFloodDoorbellProperty, DeviceAudioRecordingStarlight4gLTEProperty,
   DeviceMotionHB3DetectionTypeHumanProperty, DeviceMotionHB3DetectionTypeVehicleProperty,
   DeviceMotionHB3DetectionTypeAllOtherMotionsProperty, DeviceMotionTrackingProperty,
   DeviceVideoStreamingQualityS340Property, DeviceVideoRecordingQualityS340Property,
   DeviceNotificationTypeIndoorFloodlightProperty, DeviceRotationSpeedProperty,
   DeviceMotionZoneProperty, DevicePowerSourceProperty, DevicePowerWorkingModeProperty,
   DeviceRecordingClipLengthOutdoorPTProperty, DeviceRecordingRetriggerIntervalProperty,
   DeviceRecordingEndClipMotionStopsProperty, DeviceDualCamWatchViewModeS340Property,
   DeviceRTSPStreamProperty, DeviceContinuousRecordingProperty,
   DeviceContinuousRecordingTypeProperty, DeviceVideoTypeStoreToNASProperty,
   DeviceImageMirroredProperty, DeviceAntitheftDetectionProperty}
SoloCameraSettings ==
  {DeviceEnabledSoloProperty, DeviceAutoNightvisionProperty,
   DeviceMotionDetectionIndoorSoloFloodProperty, DeviceWatermarkSoloWiredDoorbellProperty,
   DeviceStatusLedProperty, DeviceMicrophoneProperty, DeviceSpeakerProperty,
   DeviceSpeakerVolumeSoloProperty, DeviceAudioRecordingIndoorSoloFloodlightProperty,
   DeviceMotionDetectionTypeProperty, DevicePowerWorkingModeProperty,
   DeviceRecordingClipLengthProperty, DeviceRecordingRetriggerIntervalProperty,
   DeviceRecordingEndClipMotionStopsProperty, DeviceVideoStreamingQualitySoloProperty,
   DeviceVideoRecordingQualityProperty, DeviceNotificationTypeIndoorFloodlightProperty,
   DeviceMotionDetectionSensitivitySoloProperty}
SoloCameraProSettings ==
  {DeviceEnabledSoloProperty, DeviceAutoNightvisionProperty,
   DeviceMotionDetectionIndoorSoloFloodProperty, DeviceWatermarkSoloWiredDoorbellProperty,
   DeviceStatusLedProperty, DeviceMicrophoneProperty, DeviceSpeakerProperty,
   DeviceSpeakerVolumeSoloProperty, DeviceAudioRecordingIndoorSoloFloodlightProperty,
   DeviceMotionDetectionTypeProperty, DevicePowerWorkingModeProperty,
   DeviceRecordingClipLengthProperty, DeviceRecordingRetriggerIntervalProperty,
   DeviceRecordingEndClipMotionStopsProperty, DeviceVideoStreamingQualitySoloProperty,
   DeviceVideoRecordingQualityProperty, DeviceNotificationTypeIndoorFloodlightProperty,
   DeviceMotionDetectionSensitivitySoloProperty}
SoloCameraSpotlight1080Settings ==
  {DeviceEnabledSoloProperty, DeviceNightvisionProperty,
   DeviceMotionDetectionIndoorSoloFloodProperty, DeviceWatermarkSoloWiredDoorbellProperty,
   DeviceStatusLedProperty, DeviceMicrophoneProperty, DeviceSpeakerProperty,
   DeviceSpeakerVolumeSoloProperty, DeviceAudioRecordingIndoorSoloFloodlightProperty,
   DeviceMotionDetectionTypeProperty, DevicePowerWorkingModeProperty,
   DeviceRecordingClipLengthProperty, DeviceRecordingRetriggerIntervalProperty,
   DeviceRecordingEndClipMotionStopsProperty, DeviceVideoStreamingQualitySoloProperty,
   DeviceVideoRecordingQualityProperty, DeviceNotificationTypeIndoorFloodlightProperty,
   DeviceFloodlightLightProperty, DeviceFloodlightLightSettingsBrightnessManualProperty,
   DeviceMotionDetectionSensitivitySoloProperty}
SoloCameraSpotlight2kSettings ==
  {DeviceEnabledSoloProperty, DeviceNightvisionProperty,
   DeviceMotionDetectionIndoorSoloFloodProperty, DeviceWatermarkSoloWiredDoorbellProperty,
   DeviceStatusLedProperty, DeviceMicrophoneProperty, DeviceSpeakerProperty,
   DeviceSpeakerVolumeSoloProperty, DeviceAudioRecordingIndoorSoloFloodlightProperty,
   DeviceMotionDetectionTypeProperty, DevicePowerWorkingModeProperty,
   DeviceRecordingClipLengthProperty, DeviceRecordingRetriggerIntervalProperty,
   DeviceRecordingEndClipMotionStopsProperty, DeviceVideoStreamingQualitySoloProperty,
   DeviceVideoRecordingQualityProperty, DeviceNotificationTypeIndoorFloodlightProperty,
   DeviceFloodlightLightProperty, DeviceFloodlightLightSettingsBrightnessManualProperty,
   DeviceMotionDetectionSensitivitySoloProperty}
SoloCameraSpotlightSolarSettings ==
  {DeviceEnabledSoloProperty, DeviceNightvisionProperty,
   DeviceMotionDetectionIndoorSoloFloodProperty, DeviceWatermarkSoloWiredDoorbellProperty,
   DeviceStatusLedProperty, DeviceMicrophoneProperty, DeviceSpeakerProperty,
   DeviceSpeakerVolumeSoloProperty, DeviceAudioRecordingProperty,
   DeviceMotionDetectionTypeProperty, DevicePowerWorkingModeProperty,
   DeviceRecordingClipLengthProperty, DeviceRecordingRetriggerIntervalProperty,
   DeviceRecordingEndClipMotionStopsProperty, DeviceVideoStreamingQualitySoloProperty,
   DeviceVideoRecordingQualityProperty, DeviceNotificationTypeIndoorFloodlightProperty,
   DeviceFloodlightLightProperty, DeviceFloodlightLightSettingsBrightnessManualProperty,
   DeviceMotionDetectionSensitivitySoloProperty}
SoloCameraSolarSettings ==
  {DeviceEnabledSoloProperty, DeviceAutoNightvisionSoloProperty,
   DeviceMotionDetectionIndoorSoloFloodProperty, DeviceWatermarkProperty, DeviceStatusLedProperty,
   DeviceMicrophoneProperty, DeviceSpeakerProperty, DeviceSpeakerVolumeSoloProperty,
   DeviceAudioRecordingIndoorSoloFloodlightProperty, DeviceMotionHB3DetectionTypeHumanProperty,
   DeviceMotionHB3DetectionTypeAllOtherMotionsProperty, DevicePowerWorkingModeProperty,
   DeviceRecordingClipLengthProperty, DeviceRecordingRetriggerIntervalProperty,
   DeviceRecordingEndClipMotionStopsProperty, DeviceVideoStreamingQualitySoloProperty,
   DeviceVideoRecordingQualitySoloProperty, DeviceMotionDetectionSensitivitySoloProperty,
   DeviceNotificationTypeIndoorFloodlightProperty, DevicePowerSourceProperty}
SoloCameraC210Settings ==
  {DeviceEnabledSoloProperty, DeviceAutoNightvisionSoloProperty,
   DeviceMotionDetectionIndoorSoloFloodProperty, DeviceWatermarkProperty, DeviceStatusLedProperty,
   DeviceMicrophoneProperty, DeviceSpeakerProperty, DeviceSpeakerVolumeSoloProperty,
   DeviceAudioRecordingIndoorSoloFloodlightProperty, DeviceMotionHB3DetectionTypeHumanProperty,
   DeviceMotionHB3DetectionTypeAllOtherMotionsProperty, DevicePowerWorkingModeProperty,
   DeviceRecordingClipLengthProperty, DeviceRecordingRetriggerIntervalProperty,
   DeviceRecordingEndClipMotionStopsProperty, DeviceVideoStreamingQualitySoloProperty,
   DeviceVideoRecordingQualitySoloProperty, DeviceMotionDetectionSensitivitySoloProperty,
   DeviceNotificationTypeIndoorFloodlightProperty}
SoloCameraE30Settings ==
  {DeviceEnabledSoloProperty, DeviceAutoNightvisionSoloProperty,
   DeviceMotionDetectionIndoorSoloFloodProperty, DeviceWatermarkProperty, DeviceStatusLedProperty,
   DeviceMicrophoneProperty, DeviceSpeakerProperty, DeviceSpeakerVolumeSoloProperty,
   DeviceAudioRecordingProperty, DeviceMotionHB3DetectionTypeHumanProperty,
   DeviceMotionHB3DetectionTypeAllOtherMotionsProperty, DevicePowerWorkingModeProperty,
   DeviceRecordingClipLengthProperty, DeviceRecordingRetriggerIntervalProperty,
   DeviceRecordingEndClipMotionStopsProperty, DeviceVideoStreamingQualitySoloProperty,
   DeviceVideoRecordingQualitySoloProperty, DeviceMotionDetectionSensitivitySoloProperty,
   DeviceNotificationTypeProperty}
LockWifiSettings ==
  {DeviceLockedProperty, DeviceAutoLockProperty, DeviceAutoLockTimerProperty,
   DeviceAutoLockScheduleProperty, DeviceAutoLockScheduleStartTimeProperty,
   DeviceAutoLockScheduleEndTimeProperty, DeviceOneTouchLockingProperty,
   DeviceWrongTryProtectionProperty, DeviceWrongTryAttemptsProperty,
   DeviceWrongTryLockdownTimeProperty, DeviceScramblePasscodeProperty, DeviceSoundProperty,
   DeviceNotificationProperty, DeviceNotificationUnlockedProperty,
   DeviceNotificationLockedProperty}
LockWifiNoFingerSettings ==
  {DeviceLockedProperty, DeviceAutoLockProperty, DeviceAutoLockTimerProperty,
   DeviceAutoLockScheduleProperty, DeviceAutoLockScheduleStartTimeProperty,
   DeviceAutoLockScheduleEndTimeProperty, DeviceOneTouchLockingProperty,
   DeviceWrongTryProtectionProperty, DeviceWrongTryAttemptsProperty,
   DeviceWrongTryLockdownTimeProperty, DeviceScramblePasscodeProperty, DeviceSoundProperty,
   DeviceNotificationProperty, DeviceNotificationUnlockedProperty,
   DeviceNotificationLockedProperty}
Lock8503Settings ==
  {DeviceLockedProperty, DeviceAutoLockProperty, DeviceAutoLockTimerProperty,
   DeviceAutoLockScheduleProperty, DeviceAutoLockScheduleStartTimeProperty,
   DeviceAutoLockScheduleEndTimeProperty, DeviceOneTouchLockingProperty,
   DeviceWrongTryProtectionProperty, DeviceWrongTryAttemptsProperty,
   DeviceWrongTryLockdownTimeProperty, DeviceScramblePasscodeProperty, DeviceSoundSimpleProperty,
   DeviceNotificationSmartLockProperty, DeviceNotificationUnlockedSmartLockProperty,
   DeviceNotificationLockedSmartLockProperty}
Lock8506Settings ==
  {DeviceLockedProperty, DeviceAutoLockProperty, DeviceAutoLockTimerProperty,
   DeviceAutoLockScheduleProperty, DeviceAutoLockScheduleStartTimeProperty,
   DeviceAutoLockScheduleEndTimeProperty, DeviceOneTouchLockingProperty,
   DeviceWrongTryProtectionProperty, DeviceWrongTryAttemptsProperty,
   DeviceWrongTryLockdownTimeProperty, DeviceScramblePasscodeProperty, DeviceSoundProperty,
   DeviceNotificationSmartLockProperty, DeviceNotificationUnlockedSmartLockProperty,
   DeviceNotificationLockedSmartLockProperty}
Lock85l0Settings ==
  {DeviceLockedProperty, DeviceAutoLockProperty, DeviceAutoLockTimerProperty,
   DeviceAutoLockScheduleProperty, DeviceAutoLockScheduleStartTimeProperty,
   DeviceAutoLockScheduleEndTimeProperty, DeviceOneTouchLockingProperty,
   DeviceWrongTryProtectionProperty, DeviceWrongTryAttemptsProperty,
   DeviceWrongTryLockdownTimeProperty, DeviceScramblePasscodeProperty, DeviceSoundProperty,
   DeviceNotificationSmartLockProperty, DeviceNotificationUnlockedSmartLockProperty,
   DeviceNotificationLockedSmartLockProperty}
Lock8531Settings ==
  {DeviceLockedProperty, DeviceAutoLockProperty, DeviceAutoLockTimerProperty,
   DeviceAutoLockScheduleProperty, DeviceAutoLockScheduleStartTimeProperty,
   DeviceAutoLockScheduleEndTimeProperty, DeviceOneTouchLockingProperty,
   DeviceWrongTryProtectionProperty, DeviceWrongTryAttemptsProperty,
   DeviceWrongTryLockdownTimeProperty, DeviceScramblePasscodeProperty, DeviceSoundProperty,
   DeviceNotificationSmartLockProperty, DeviceNotificationUnlockedSmartLockProperty,
   DeviceNotificationLockedSmartLockProperty}
Lock85d0Settings ==
  {DeviceLockedProperty, DeviceAutoLockProperty, DeviceAutoLockTimerProperty,
   DeviceAutoLockScheduleProperty, DeviceAutoLockScheduleStartTimeProperty,
   DeviceAutoLockScheduleEndTimeProperty, DeviceOneTouchLockingProperty,
   DeviceWrongTryProtectionProperty, DeviceWrongTryAttemptsProperty,
   DeviceWrongTryLockdownTimeProperty, DeviceScramblePasscodeProperty, DeviceSoundProperty,
   DeviceNotificationSmartLockProperty, DeviceNotificationUnlockedSmartLockProperty,
   DeviceNotificationLockedSmartLockProperty}
Lock8502Settings ==
  {DeviceLockedProperty, DeviceAutoLockProperty, DeviceAutoLockTimerProperty,
   DeviceAutoLockScheduleProperty, DeviceAutoLockScheduleStartTimeProperty,
   DeviceAutoLockScheduleEndTimeProperty, DeviceOneTouchLockingProperty,
   DeviceWrongTryProtectionProperty, DeviceWrongTryAttemptsProperty,
   DeviceWrongTryLockdownTimeProperty, DeviceScramblePasscodeProperty, DeviceSoundProperty,
   DeviceNotificationSmartLockProperty, DeviceNotificationUnlockedSmartLockProperty,
   DeviceNotificationLockedSmartLockProperty}
Lock8504Settings ==
  {DeviceLockedProperty, DeviceAutoLockProperty, DeviceAutoLockTimerProperty,
   DeviceAutoLockScheduleProperty, DeviceAutoLockScheduleStartTimeProperty,
   DeviceAutoLockScheduleEndTimeProperty, DeviceOneTouchLockingProperty,
   DeviceWrongTryProtectionProperty, DeviceWrongTryAttemptsProperty,
   DeviceWrongTryLockdownTimeProperty, DeviceScramblePasscodeProperty, DeviceSoundSimpleProperty,
   DeviceNotificationSmartLockProperty, DeviceNotificationUnlockedSmartLockProperty,
   DeviceNotificationLockedSmartLockProperty}
Lock85v0Settings ==
  {DeviceEnabledProperty, DeviceAutoNightvisionProperty, DeviceMotionDetectionProperty,
   DeviceWatermarkBatteryDoorbellCamera1Property, DeviceSpeakerVolumeIndoorFloodDoorbellProperty,
   DeviceRingtoneVolumeBatteryDoorbellProperty, DeviceAudioRecordingProperty,
   DeviceMotionDetectionTypeProperty, DevicePowerWorkingModeBatteryDoorbellProperty,
   DeviceRecordingClipLengthProperty, DeviceRecordingRetriggerIntervalBatteryDoorbellProperty,
   DeviceRecordingEndClipMotionStopsProperty, DeviceVideoStreamingQualityBatteryDoorbellProperty,
   DeviceVideoRecordingQualityT8530Property, DeviceChimeIndoorBatteryDoorbellProperty,
   DeviceChimeHomebaseBatteryDoorbellProperty,
   DeviceChimeHomebaseRingtoneVolumeBatteryDoorbellProperty,
   DeviceChimeHomebaseRingtoneTypeBatteryDoorbellProperty,
   DeviceNotificationTypeBatteryDoorbellProperty, DeviceNotificationRingProperty,
   DeviceNotificationMotionProperty, DeviceMotionDetectionSensitivityModeProperty,
   DeviceMotionDetectionSensitivityStandardProperty,
   DeviceMotionDetectionSensitivityAdvancedAProperty,
   DeviceMotionDetectionSensitivityAdvancedBProperty,
   DeviceMotionDetectionSensitivityAdvancedCProperty,
   DeviceMotionDetectionSensitivityAdvancedDProperty,
   DeviceMotionDetectionSensitivityAdvancedEProperty,
   DeviceMotionDetectionSensitivityAdvancedFProperty,
   DeviceMotionDetectionSensitivityAdvancedGProperty,
   DeviceMotionDetectionSensitivityAdvancedHProperty, DeviceLoiteringDetectionProperty,
   DeviceLoiteringDetectionLengthProperty, DeviceLoiteringDetectionRangeProperty,
   DeviceLoiteringCustomResponsePhoneNotificationProperty,
   DeviceLoiteringCustomResponseAutoVoiceResponseProperty,
   DeviceLoiteringCustomResponseAutoVoiceResponseVoiceProperty,
   DeviceLoiteringCustomResponseHomeBaseNotificationProperty,
   DeviceLoiteringCustomResponseTimeFromProperty, DeviceLoiteringCustomResponseTimeToProperty,
   DeviceLockedProperty, DeviceLeavingDetectionProperty,
   DeviceLeavingReactionNotificationProperty, DeviceLeavingReactionStartTimeProperty,
   DeviceLeavingReactionEndTimeProperty, DeviceAutoLockProperty, DeviceAutoLockTimerProperty,
   DeviceAutoLockScheduleProperty, DeviceAutoLockScheduleStartTimeProperty,
   DeviceAutoLockScheduleEndTimeProperty, DeviceOneTouchLockingProperty,
   DeviceWrongTryProtectionProperty, DeviceWrongTryAttemptsProperty,
   DeviceWrongTryLockdownTimeProperty, DeviceScramblePasscodeProperty,
   DeviceNotificationUnlockedProperty, DeviceNotificationLockedProperty, DeviceBeepVolumeProperty,
   DeviceNightvisionOptimizationProperty, DeviceNightvisionOptimizationSideProperty}
Lock85p0Settings ==
  {DeviceLockedProperty, DeviceAutoLockProperty, DeviceAutoLockTimerProperty,
   DeviceAutoLockScheduleProperty, DeviceAutoLockScheduleStartTimeProperty,
   DeviceAutoLockScheduleEndTimeProperty, DeviceOneTouchLockingProperty,
   DeviceWrongTryProtectionProperty, DeviceWrongTryAttemptsProperty,
   DeviceWrongTryLockdownTimeProperty, DeviceScramblePasscodeProperty, DeviceSoundProperty,
   DeviceNotificationSmartLockProperty, DeviceNotificationUnlockedSmartLockProperty,
   DeviceNotificationLockedSmartLockProperty}
LockBleSettings == {DeviceLockedProperty}
LockBleNoFingerSettings == {DeviceLockedProperty}
SensorSettings == {DeviceChirpVolumeEntrySensorProperty, DeviceChirpToneEntrySensorProperty}
SmartSafe7400Settings ==
  {DeviceWrongTryProtectionSmartSafeProperty, DeviceWrongTryAttemptsSmartSafeProperty,
   DeviceWrongTryLockdownTimeSmartSafeProperty, DeviceLeftOpenAlarmProperty,
   DeviceLeftOpenAlarmDurationProperty, DeviceDualUnlockProperty, DevicePowerSaveProperty,
   DeviceInteriorBrightnessProperty, DeviceInteriorBrightnessDurationProperty,
   DeviceTamperAlarmProperty, DeviceRemoteUnlockProperty, DeviceRemoteUnlockMasterPINProperty,
   DeviceScramblePasscodeSmartSafeProperty, DeviceAlarmVolumeProperty, DevicePromptVolumeProperty,
   DeviceNotificationUnlockByKeyProperty, DeviceNotificationUnlockByPINProperty,
   DeviceNotificationUnlockByFingerprintProperty, DeviceNotificationUnlockByAppProperty,
   DeviceNotificationDualLockProperty, DeviceNotificationDualUnlockProperty,
   DeviceNotificationWrongTryProtectProperty}
SmartSafe7401Settings ==
  {DeviceWrongTryProtectionSmartSafeProperty, DeviceWrongTryAttemptsSmartSafeProperty,
   DeviceWrongTryLockdownTimeSmartSafeProperty, DeviceLeftOpenAlarmProperty,
   DeviceLeftOpenAlarmDurationProperty, DeviceDualUnlockProperty, DevicePowerSaveProperty,
   DeviceInteriorBrightnessProperty, DeviceInteriorBrightnessDurationProperty,
   DeviceTamperAlarmProperty, DeviceRemoteUnlockProperty, DeviceRemoteUnlockMasterPINProperty,
   DeviceScramblePasscodeSmartSafeProperty, DeviceAlarmVolumeProperty, DevicePromptVolumeProperty,
   DeviceNotificationUnlockByKeyProperty, DeviceNotificationUnlockByPINProperty,
   DeviceNotificationUnlockByFingerprintProperty, DeviceNotificationUnlockByAppProperty,
   DeviceNotificationDualLockProperty, DeviceNotificationDualUnlockProperty,
   DeviceNotificationWrongTryProtectProperty}
SmartSafe7402Settings ==
  {DeviceWrongTryProtectionSmartSafeProperty, DeviceWrongTryAttemptsSmartSafeProperty,
   DeviceWrongTryLockdownTimeSmartSafeProperty, DeviceLeftOpenAlarmProperty,
   DeviceLeftOpenAlarmDurationProperty, DeviceDualUnlockProperty, DevicePowerSaveProperty,
   DeviceInteriorBrightnessProperty, DeviceInteriorBrightnessDurationProperty,
   DeviceTamperAlarmProperty, DeviceRemoteUnlockProperty, DeviceRemoteUnlockMasterPINProperty,
   DeviceScramblePasscodeSmartSafeProperty, DeviceAlarmVolumeProperty, DevicePromptVolumeProperty,
   DeviceNotificationUnlockByKeyProperty, DeviceNotificationUnlockByPINProperty,
   DeviceNotificationUnlockByFingerprintProperty, DeviceNotificationUnlockByAppProperty,
   DeviceNotificationDualLockProperty, DeviceNotificationDualUnlockProperty,
   DeviceNotificationWrongTryProtectProperty}
SmartSafe7403Settings ==
  {DeviceWrongTryProtectionSmartSafeProperty, DeviceWrongTryAttemptsSmartSafeProperty,
   DeviceWrongTryLockdownTimeSmartSafeProperty, DeviceLeftOpenAlarmProperty,
   DeviceLeftOpenAlarmDurationProperty, DeviceDualUnlockProperty, DevicePowerSaveProperty,
   DeviceInteriorBrightnessProperty, DeviceInteriorBrightnessDurationProperty,
   DeviceTamperAlarmProperty, DeviceRemoteUnlockProperty, DeviceRemoteUnlockMasterPINProperty,
   DeviceScramblePasscodeSmartSafeProperty, DeviceAlarmVolumeProperty, DevicePromptVolumeProperty,
   DeviceNotificationUnlockByKeyProperty, DeviceNotificationUnlockByPINProperty,
   DeviceNotificationUnlockByFingerprintProperty, DeviceNotificationUnlockByAppProperty,
   DeviceNotificationDualLockProperty, DeviceNotificationDualUnlockProperty,
   DeviceNotificationWrongTryProtectProperty}
SmartDropSettings ==
  {DeviceMotionDetectionProperty, DeviceMotionDetectionTypeProperty,
   DeviceMotionDetectionSensitivityCamera2Property, DeviceWatermarkSoloWiredDoorbellProperty,
   DevicePowerWorkingModeSmartDropProperty, DeviceOpenMethodProperty,
   DeviceMotionActivatedPromptProperty, DeviceAutoNightvisionProperty, DeviceSpeakerProperty,
   DeviceSpeakerVolumeSmartDropProperty, DeviceAudioRecordingProperty, DeviceMicrophoneProperty,
   DeviceRecordingClipLengthWalllightProperty, DeviceRecordingEndClipMotionStopsProperty,
   DeviceVideoStreamingQualitySmartDropProperty}
WallLightCamSettings ==
  {DeviceEnabledSoloProperty, DeviceAutoNightvisionSoloProperty,
   DeviceMotionDetectionIndoorSoloFloodProperty, DeviceWatermarkSoloWiredDoorbellProperty,
   DeviceStatusLedProperty, DeviceFloodlightLightProperty,
   DeviceFloodlightLightSettingsBrightnessManualProperty,
   DeviceLightSettingsManualLightingActiveModeProperty,
   DeviceLightSettingsManualDailyLightingProperty,
   DeviceLightSettingsManualColoredLightingProperty,
   DeviceLightSettingsManualDynamicLightingProperty,
   DeviceLightSettingsScheduleLightingActiveModeProperty,
   DeviceFloodlightLightSettingsBrightnessMotionProperty,
   DeviceLightSettingsMotionLightingActiveModeProperty,
   DeviceFloodlightLightSettingsBrightnessScheduleProperty,
   DeviceLightSettingsScheduleDailyLightingProperty,
   DeviceLightSettingsScheduleColoredLightingProperty,
   DeviceLightSettingsScheduleDynamicLightingProperty,
   DeviceFloodlightLightSettingsMotionTriggeredProperty,
   DeviceFloodlightLightSettingsMotionTriggeredTimerProperty,
   DeviceLightSettingsMotionDailyLightingProperty,
   DeviceLightSettingsMotionColoredLightingProperty,
   DeviceLightSettingsMotionDynamicLightingProperty,
   DeviceLightSettingsMotionActivationModeProperty,
   DeviceLightSettingsColoredLightingColorsProperty,
   DeviceLightSettingsDynamicLightingThemesProperty,
   DeviceMotionDetectionSensitivityBatteryDoorbellProperty, DeviceSpeakerVolumeWalllightProperty,
   DeviceAudioRecordingProperty, DeviceRecordingClipLengthWalllightProperty,
   DeviceRecordingEndClipMotionStopsProperty, DeviceVideoStreamingQualityWalllightProperty,
   DeviceVideoRecordingQualityWalllightProperty, DeviceNotificationPersonWalllightProperty,
   DeviceNotificationAllOtherMotionWalllightProperty,
   DeviceMotionDetectionTypeHumanWallLightProperty,
   DeviceMotionDetectionTypeAllOtherMotionsWalllightProperty, DeviceNotificationWalllightProperty,
   DeviceNotificationTypeWalllightProperty}
WallLightCam81a0Settings ==
  {DeviceEnabledSoloProperty, DeviceAutoNightvisionSoloProperty,
   DeviceMotionDetectionIndoorSoloFloodProperty, DeviceWatermarkSoloWiredDoorbellProperty,
   DeviceStatusLedProperty, DeviceFloodlightLightProperty,
   DeviceCameraLightSettingsBrightnessManualWalllightS120Property,
   DeviceFloodlightLightSettingsMotionTriggeredProperty,
   DeviceMotionDetectionSensitivityBatteryDoorbellProperty, DeviceSpeakerVolumeWalllightProperty,
   DeviceAudioRecordingProperty, DeviceRecordingClipLengthWalllightS120Property,
   DeviceRecordingEndClipMotionStopsProperty, DeviceRecordingRetriggerIntervalProperty,
   DeviceVideoStreamingQualityWalllightProperty, DeviceVideoRecordingQualityWalllightProperty,
   DeviceNotificationPersonWalllightProperty, DeviceNotificationAllOtherMotionWalllightProperty,
   DeviceMotionDetectionTypeHumanWallLightProperty,
   DeviceMotionDetectionTypeAllOtherMotionsWalllightProperty, DeviceNotificationWalllightProperty,
   DeviceNotificationTypeWalllightProperty, DevicePowerWorkingModeProperty}
CameraGarageT8453Settings ==
  {DeviceEnabledSoloProperty, DeviceAutoNightvisionProperty,
   DeviceMotionDetectionIndoorSoloFloodProperty, DeviceWatermarkGarageCameraProperty,
   DeviceStatusLedProperty, DeviceMicrophoneProperty, DeviceSpeakerProperty,
   DeviceSpeakerVolumeIndoorFloodDoorbellProperty, DeviceAudioRecordingProperty,
   DeviceMotionDetectionTypeProperty, DeviceVideoStreamingQualitySoloProperty,
   DeviceVideoRecordingQualityProperty, DeviceNotificationTypeIndoorFloodlightProperty,
   DeviceNotificationPersonProperty, DeviceNotificationAllOtherMotionProperty,
   DeviceMotionDetectionSensitivityGarageCameraProperty, DeviceContinuousRecordingProperty,
   DeviceContinuousRecordingTypeProperty, DeviceDoorControlWarningProperty,
   DeviceDoor1OpenProperty, DeviceDoor2OpenProperty, DeviceRTSPStreamProperty,
   DeviceVideoTypeStoreToNASProperty}
CameraGarageT8453CommonSettings ==
  {DeviceEnabledSoloProperty, DeviceAutoNightvisionProperty,
   DeviceMotionDetectionIndoorSoloFloodProperty, DeviceWatermarkGarageCameraProperty,
   DeviceStatusLedProperty, DeviceMicrophoneProperty, DeviceSpeakerProperty,
   DeviceSpeakerVolumeIndoorFloodDoorbellProperty, DeviceAudioRecordingProperty,
   DeviceMotionDetectionTypeProperty, DeviceVideoStreamingQualitySoloProperty,
   DeviceVideoRecordingQualityProperty, DeviceNotificationTypeIndoorFloodlightProperty,
   DeviceNotificationPersonProperty, DeviceNotificationAllOtherMotionProperty,
   DeviceMotionDetectionSensitivityGarageCameraProperty, DeviceContinuousRecordingProperty,
   DeviceContinuousRecordingTypeProperty, DeviceDoorControlWarningProperty,
   DeviceDoor1OpenProperty, DeviceDoor2OpenProperty, DeviceRTSPStreamProperty,
   DeviceVideoTypeStoreToNASProperty}
CameraGarageT8452Settings ==
  {DeviceEnabledSoloProperty, DeviceAutoNightvisionProperty,
   DeviceMotionDetectionIndoorSoloFloodProperty, DeviceWatermarkGarageCameraProperty,
   DeviceStatusLedProperty, DeviceMicrophoneProperty, DeviceSpeakerProperty,
   DeviceSpeakerVolumeIndoorFloodDoorbellProperty, DeviceAudioRecordingProperty,
   DeviceMotionDetectionTypeProperty, DeviceVideoStreamingQualitySoloProperty,
   DeviceVideoRecordingQualityProperty, DeviceNotificationTypeIndoorFloodlightProperty,
   DeviceNotificationPersonProperty, DeviceNotificationAllOtherMotionProperty,
   DeviceMotionDetectionSensitivityGarageCameraProperty, DeviceContinuousRecordingProperty,
   DeviceContinuousRecordingTypeProperty, DeviceDoorControlWarningProperty,
   DeviceDoor1OpenProperty, DeviceDoor2OpenProperty, DeviceRTSPStreamProperty,
   DeviceVideoTypeStoreToNASProperty}
SmartTrackCardSettings ==
  {DeviceTrackerTypeProperty, DeviceLeftBehindAlarmProperty, DeviceFindPhoneProperty}
SmartTrackLinkSettings ==
  {DeviceTrackerTypeProperty, DeviceLeftBehindAlarmProperty, DeviceFindPhoneProperty}
CameraE40Settings ==
  {DeviceEnabledProperty, DeviceAntitheftDetectionProperty, DeviceAutoNightvisionProperty,
   DeviceStatusLedProperty, DeviceMotionDetectionProperty, DeviceRTSPStreamProperty,
   DeviceVideoStreamingQualityCameraProperty, DeviceVideoRecordingQualityCamera2CProProperty,
   DeviceMicrophoneProperty, DeviceSpeakerProperty, DeviceSpeakerVolumeProperty,
   DeviceAudioRecordingProperty, DeviceMotionDetectionSensitivityCamera2Property,
   DeviceMotionDetectionTypeProperty, DevicePowerSourceProperty, DevicePowerWorkingModeProperty,
   DeviceRecordingClipLengthProperty, DeviceRecordingRetriggerIntervalProperty,
   DeviceRecordingEndClipMotionStopsProperty, DeviceNotificationTypeProperty}
CameraC35Settings ==
  {DeviceEnabledProperty, DeviceStatusLedProperty, DeviceFloodlightLightProperty,
   DeviceFloodlightLightSettingsEnableProperty,
   DeviceFloodlightLightSettingsMotionTriggeredT8425Property,
   DeviceFloodlightLightSettingsBrightnessManualProperty,
   DeviceMotionDetectionIndoorSoloFloodProperty, DeviceMotionDetectionSensitivitySoloProperty,
   DeviceMotionHB3DetectionTypeHumanProperty, DeviceMotionHB3DetectionTypeVehicleProperty,
   DeviceMotionHB3DetectionTypePetProperty, DeviceMotionHB3DetectionTypeAllOtherMotionsProperty,
   DevicePowerWorkingModeProperty, DeviceWatermarkProperty, DeviceNightvisionCameraC35Property,
   DeviceMicrophoneProperty, DeviceAudioRecordingIndoorSoloFloodlightProperty,
   DeviceSpeakerProperty, DeviceSpeakerVolumeIndoorFloodDoorbellProperty,
   DeviceRecordingClipLengthProperty, DeviceRecordingRetriggerIntervalProperty,
   DeviceRecordingEndClipMotionStopsProperty, DeviceVideoRecordingQualityCameraC35Property,
   DeviceVideoStreamingQualityCameraC35Property, DeviceNotificationTypeIndoorFloodlightProperty,
   DeviceNotificationPersonS350Property, DeviceNotificationPetS350Property,
   DeviceNotificationVehicleProperty, DeviceNotificationAllOtherMotionS350Property}
EntrySensorE20Settings ==
  {DeviceMotionDetectionTestModeProperty, DeviceChirpVolumeEntrySensorProperty,
   DeviceChirpToneEntrySensorProperty}
CameraPoeS4Settings ==
  {DeviceEnabledSoloProperty, DeviceAutoNightvisionProperty, DeviceNightvisionProperty,
   DeviceAntitheftDetectionProperty, DeviceMotionDetectionIndoorSoloFloodProperty,
   DeviceWatermarkProperty, DeviceStatusLedProperty, DeviceFloodlightLightProperty,
   DeviceFloodlightLightSettingsBrightnessManualProperty,
   DeviceFloodlightLightSettingsEnableProperty,
   DeviceFloodlightLightSettingsMotionTriggeredProperty, DeviceRTSPStreamProperty,
   DeviceMotionDetectionSensitivityCamera2Property, DeviceMotionDetectionTypeProperty,
   DeviceMicrophoneProperty, DeviceSpeakerProperty,
   DeviceSpeakerVolumeIndoorFloodDoorbellProperty, DeviceAudioRecordingProperty,
   DeviceMotionHB3DetectionTypeHumanProperty,
   DeviceMotionHB3DetectionTypeHumanRecognitionProperty, DeviceMotionHB3DetectionTypePetProperty,
   DeviceMotionHB3DetectionTypeVehicleProperty,
   DeviceMotionHB3DetectionTypeAllOtherMotionsProperty, DeviceVideoStreamingQualitySoloProperty,
   DeviceVideoRecordingQualityProperty, DeviceNotificationTypeIndoorFloodlightProperty,
   DeviceNotificationPersonS350Property, DeviceNotificationPetS350Property,
   DeviceNotificationAllOtherMotionS350Property, DeviceNotificationAllSoundS350Property,
   DeviceNotificationCryingS350Property, DeviceNotificationVehicleProperty,
   DeviceImageMirroredProperty, DevicePowerSourceProperty, DevicePowerWorkingModeProperty,
   DeviceRecordingClipLengthOutdoorPTProperty, DeviceRecordingRetriggerIntervalProperty,
   DeviceRecordingEndClipMotionStopsProperty, DeviceWDRProperty,
   DeviceDualCamWatchViewModeProperty, DeviceContinuousRecordingProperty,
   DeviceContinuousRecordingTypeProperty, DeviceVideoTypeStoreToNASProperty}

DeviceProperties ==
  [CAMERA2 |-> Camera2Settings, CAMERA2C |-> Camera2cSettings,
   CAMERA2C_PRO |-> Camera2cProSettings, CAMERA2_PRO |-> Camera2ProSettings,
   CAMERA3 |-> Camera3Settings, CAMERA3C |-> Camera3cSettings, CAMERA3_PRO |-> Camera3ProSettings,
   CAMERA_S4 |-> CameraS4Settings, PROFESSIONAL_247 |-> Professional247Settings,
   CAMERA |-> CameraSettings, CAMERA_E |-> CameraESettings, DOORBELL |-> DoorbellSettings,
   BATTERY_DOORBELL |-> BatteryDoorbellSettings, BATTERY_DOORBELL_2 |-> BatteryDoorbell2Settings,
   BATTERY_DOORBELL_PLUS |-> BatteryDoorbellPlusSettings,
   BATTERY_DOORBELL_C30 |-> BatteryDoorbellC30Settings,
   BATTERY_DOORBELL_C31 |-> BatteryDoorbellC31Settings,
   BATTERY_DOORBELL_PLUS_E340 |-> BatteryDoorbellPlusE340Settings,
   DOORBELL_SOLO |-> DoorbellSoloSettings, LOCK_8530 |-> Lock8530Settings,
   FLOODLIGHT |-> FloodlightSettings, FLOODLIGHT_CAMERA_8422 |-> FloodlightCamera8422Settings,
   FLOODLIGHT_CAMERA_8423 |-> FloodlightCamera8423Settings,
   FLOODLIGHT_CAMERA_8424 |-> FloodlightCamera8424Settings,
   FLOODLIGHT_CAMERA_8425 |-> FloodlightCamera8425Settings,
   FLOODLIGHT_CAMERA_8426 |-> FloodlightCamera8426Settings,
   INDOOR_CAMERA |-> IndoorCameraSettings, INDOOR_CAMERA_1080 |-> IndoorCamera1080Settings,
   INDOOR_COST_DOWN_CAMERA |-> IndoorCostDownCameraSettings,
   INDOOR_PT_CAMERA |-> IndoorPtCameraSettings,
   INDOOR_PT_CAMERA_1080 |-> IndoorPtCamera1080Settings,
   INDOOR_OUTDOOR_CAMERA_1080P |-> IndoorOutdoorCamera1080pSettings,
   INDOOR_OUTDOOR_CAMERA_1080P_NO_LIGHT |-> IndoorOutdoorCamera1080pNoLightSettings,
   INDOOR_OUTDOOR_CAMERA_2K |-> IndoorOutdoorCamera2kSettings,
   OUTDOOR_PT_CAMERA |-> OutdoorPtCameraSettings, SOLOCAM_E42 |-> SolocamE42Settings,
   INDOOR_PT_CAMERA_S350 |-> IndoorPtCameraS350Settings,
   INDOOR_PT_CAMERA_E30 |-> IndoorPtCameraE30Settings,
   INDOOR_PT_CAMERA_C210 |-> IndoorPtCameraC210Settings,
   INDOOR_PT_CAMERA_C220 |-> IndoorPtCameraC220Settings, CAMERA_FG |-> CameraFgSettings,
   CAMERA_4G_S330 |-> Camera4gS330Settings, SOLO_CAMERA |-> SoloCameraSettings,
   SOLO_CAMERA_PRO |-> SoloCameraProSettings,
   SOLO_CAMERA_SPOTLIGHT_1080 |-> SoloCameraSpotlight1080Settings,
   SOLO_CAMERA_SPOTLIGHT_2K |-> SoloCameraSpotlight2kSettings,
   SOLO_CAMERA_SPOTLIGHT_SOLAR |-> SoloCameraSpotlightSolarSettings,
   SOLO_CAMERA_SOLAR |-> SoloCameraSolarSettings, SOLO_CAMERA_C210 |-> SoloCameraC210Settings,
   SOLO_CAMERA_E30 |-> SoloCameraE30Settings, KEYPAD |-> {}, LOCK_WIFI |-> LockWifiSettings,
   LOCK_WIFI_NO_FINGER |-> LockWifiNoFingerSettings, LOCK_8503 |-> Lock8503Settings,
   LOCK_8506 |-> Lock8506Settings, LOCK_85L0 |-> Lock85l0Settings, LOCK_8531 |-> Lock8531Settings,
   LOCK_85D0 |-> Lock85d0Settings, LOCK_8502 |-> Lock8502Settings, LOCK_85A3 |-> {},
   LOCK_8504 |-> Lock8504Settings, LOCK_85V0 |-> Lock85v0Settings, LOCK_85P0 |-> Lock85p0Settings,
   LOCK_BLE |-> LockBleSettings, LOCK_BLE_NO_FINGER |-> LockBleNoFingerSettings,
   MOTION_SENSOR |-> {}, SENSOR |-> SensorSettings, SMART_SAFE_7400 |-> SmartSafe7400Settings,
   SMART_SAFE_7401 |-> SmartSafe7401Settings, SMART_SAFE_7402 |-> SmartSafe7402Settings,
   SMART_SAFE_7403 |-> SmartSafe7403Settings, SMART_DROP |-> SmartDropSettings,
   WALL_LIGHT_CAM |-> WallLightCamSettings, WALL_LIGHT_CAM_81A0 |-> WallLightCam81a0Settings,
   CAMERA_GARAGE_T8453 |-> CameraGarageT8453Settings,
   CAMERA_GARAGE_T8453_COMMON |-> CameraGarageT8453CommonSettings,
   CAMERA_GARAGE_T8452 |-> CameraGarageT8452Settings, SMART_TRACK_CARD |-> SmartTrackCardSettings,
   SMART_TRACK_LINK |-> SmartTrackLinkSettings, CAMERA_E40 |-> CameraE40Settings,
   CAMERA_C35 |-> CameraC35Settings, ENTRY_SENSOR_E20 |-> EntrySensorE20Settings,
   PIR_SENSOR_E20 |-> {}, SIREN_SENSOR_E20 |-> {}, WATER_FREEZE_SENSOR_8920 |-> {},
   CAMERA_POE_S4 |-> CameraPoeS4Settings, NVR_S4_MAX |-> {}]

StationStationSettings ==
  {StationGuardModeProperty, StationTimeFormatProperty, StationPromptVolumeProperty,
   StationAlarmVolumeProperty, StationAlarmToneProperty,
   StationNotificationSwitchModeScheduleProperty, StationNotificationSwitchModeGeofenceProperty,
   StationNotificationSwitchModeAppProperty, StationNotificationSwitchModeKeypadProperty,
   StationNotificationStartAlarmDelayProperty, StationAlarmTypeProperty,
   StationAlarmArmDelayProperty, StationAlarmDelayProperty, StationAlarmDelayTypeProperty}
Hb3StationSettings ==
  {StationGuardModeProperty, StationTimeFormatProperty, StationPromptVolumeProperty,
   StationAlarmVolumeProperty, StationAlarmToneProperty,
   StationNotificationSwitchModeScheduleProperty, StationNotificationSwitchModeGeofenceProperty,
   StationNotificationSwitchModeAppProperty, StationNotificationSwitchModeKeypadProperty,
   StationNotificationStartAlarmDelayProperty, StationAlarmTypeProperty,
   StationAlarmArmDelayProperty, StationAlarmDelayProperty, StationAlarmDelayTypeProperty,
   StationCrossCameraTrackingProperty, StationContinuousTrackingTimeProperty,
   StationTrackingAssistanceProperty, StationCrossTrackingCameraListProperty,
   StationCrossTrackingGroupListProperty}
HomebaseProfessionalS1StationSettings ==
  {StationGuardModeProperty, StationTimeFormatProperty, StationPromptVolumeProperty,
   StationAlarmVolumeProperty, StationAlarmToneProperty,
   StationNotificationSwitchModeScheduleProperty, StationNotificationSwitchModeGeofenceProperty,
   StationNotificationSwitchModeAppProperty, StationNotificationSwitchModeKeypadProperty,
   StationNotificationStartAlarmDelayProperty, StationAlarmTypeProperty,
   StationAlarmArmDelayProperty, StationAlarmDelayProperty, StationAlarmDelayTypeProperty,
   StationCrossCameraTrackingProperty, StationContinuousTrackingTimeProperty,
   StationTrackingAssistanceProperty, StationCrossTrackingCameraListProperty,
   StationCrossTrackingGroupListProperty}
MinibaseChimeStationSettings ==
  {StationGuardModeProperty, StationTimeFormatProperty, StationPromptVolumeProperty,
   StationAlarmVolumeProperty, StationAlarmToneProperty,
   StationNotificationSwitchModeScheduleProperty, StationNotificationSwitchModeGeofenceProperty,
   StationNotificationSwitchModeAppProperty, StationNotificationSwitchModeKeypadProperty,
   StationNotificationStartAlarmDelayProperty, StationAlarmTypeProperty,
   StationAlarmArmDelayProperty, StationAlarmDelayProperty, StationAlarmDelayTypeProperty}
HomebaseMiniStationSettings ==
  {StationGuardModeProperty, StationTimeFormatProperty, StationPromptVolumeProperty,
   StationAlarmVolumeProperty, StationAlarmToneProperty,
   StationNotificationSwitchModeScheduleProperty, StationNotificationSwitchModeGeofenceProperty,
   StationNotificationSwitchModeAppProperty, StationNotificationSwitchModeKeypadProperty,
   StationNotificationStartAlarmDelayProperty, StationAlarmTypeProperty,
   StationCrossCameraTrackingProperty, StationContinuousTrackingTimeProperty,
   StationTrackingAssistanceProperty, StationCrossTrackingCameraListProperty,
   StationCrossTrackingGroupListProperty}
NvrS4MaxStationSettings ==
  {StationGuardModeProperty, StationTimeFormatProperty, StationAlarmVolumeProperty,
   StationAlarmToneProperty, StationAutoEndAlarmProperty,
   StationNotificationSwitchModeScheduleProperty, StationNotificationSwitchModeGeofenceProperty,
   StationNotificationSwitchModeAppProperty, StationNotificationSwitchModeKeypadProperty,
   StationNotificationStartAlarmDelayProperty, StationAlarmTypeProperty}
IndoorCameraStationSettings ==
  {StationGuardModeProperty, StationTimeFormatProperty, StationAlarmTypeProperty}
IndoorCamera1080StationSettings ==
  {StationGuardModeProperty, StationTimeFormatProperty, StationAlarmTypeProperty}
IndoorPtCameraStationSettings ==
  {StationGuardModeProperty, StationTimeFormatProperty, StationAlarmTypeProperty}
IndoorCostDownCameraStationSettings ==
  {StationGuardModeProperty, StationTimeFormatProperty, StationAlarmTypeProperty}
IndoorPtCamera1080StationSettings ==
  {StationGuardModeProperty, StationTimeFormatProperty, StationAlarmTypeProperty}
IndoorOutdoorCamera1080pStationSettings ==
  {StationGuardModeProperty, StationTimeFormatProperty, StationAlarmTypeProperty}
IndoorOutdoorCamera1080pNoLightStationSettings ==
  {StationGuardModeProperty, StationTimeFormatProperty, StationAlarmTypeProperty}
IndoorPtCameraS350StationSettings ==
  {StationGuardModeProperty, StationTimeFormatProperty, StationAlarmTypeProperty}
IndoorPtCameraE30StationSettings ==
  {StationGuardModeProperty, StationTimeFormatProperty, StationAlarmTypeProperty}
IndoorPtCameraC210StationSettings ==
  {StationGuardModeProperty, StationTimeFormatProperty, StationAlarmTypeProperty}
IndoorPtCameraC220StationSettings ==
  {StationGuardModeProperty, StationTimeFormatProperty, StationAlarmTypeProperty}
IndoorOutdoorCamera2kStationSettings ==
  {StationGuardModeProperty, StationTimeFormatProperty, StationAlarmTypeProperty}
OutdoorPtCameraStationSettings ==
  {StationGuardModeProperty, StationTimeFormatProperty, StationAlarmTypeProperty,
   StationNotificationSwitchModeScheduleProperty, StationNotificationSwitchModeAppProperty}
CameraS4StationSettings ==
  {StationGuardModeProperty, StationTimeFormatProperty, StationAlarmTypeProperty,
   StationNotificationSwitchModeScheduleProperty, StationNotificationSwitchModeAppProperty}
SolocamE42StationSettings ==
  {StationGuardModeProperty, StationTimeFormatProperty, StationAlarmTypeProperty,
   StationNotificationSwitchModeScheduleProperty, StationNotificationSwitchModeAppProperty}
DoorbellStationSettings == {StationGuardModeProperty, StationTimeFormatProperty}
DoorbellSoloStationSettings == {StationGuardModeProperty, StationTimeFormatProperty}
BatteryDoorbellC30StationSettings == {StationGuardModeProperty, StationTimeFormatProperty}
BatteryDoorbellC31StationSettings == {StationGuardModeProperty, StationTimeFormatProperty}
BatteryDoorbellPlusE340StationSettings == {StationGuardModeProperty, StationTimeFormatProperty}
CameraFgStationSettings ==
  {StationGuardModeProperty, StationTimeFormatProperty, StationAlarmTypeProperty,
   StationNotificationSwitchModeScheduleProperty, StationNotificationSwitchModeAppProperty}
Camera4gS330StationSettings ==
  {StationGuardModeProperty, StationTimeFormatProperty, StationAlarmTypeProperty}
SoloCameraStationSettings ==
  {StationGuardModeProperty, StationTimeFormatProperty, StationAlarmTypeProperty}
SoloCameraProStationSettings ==
  {StationGuardModeProperty, StationTimeFormatProperty, StationAlarmTypeProperty}
SoloCameraSpotlight1080StationSettings ==
  {StationGuardModeProperty, StationTimeFormatProperty, StationAlarmTypeProperty}
SoloCameraSpotlight2kStationSettings ==
  {StationGuardModeProperty, StationTimeFormatProperty, StationAlarmTypeProperty}
SoloCameraSpotlightSolarStationSettings ==
  {StationGuardModeProperty, StationTimeFormatProperty, StationAlarmTypeProperty}
SoloCameraSolarStationSettings ==
  {StationGuardModeProperty, StationTimeFormatProperty, StationAlarmTypeProperty}
SoloCameraC210StationSettings ==
  {StationGuardModeProperty, StationTimeFormatProperty, StationAlarmTypeProperty,
   StationNotificationSwitchModeScheduleProperty, StationNotificationSwitchModeAppProperty}
SoloCameraE30StationSettings ==
  {StationGuardModeProperty, StationTimeFormatProperty, StationAlarmTypeProperty,
   StationNotificationSwitchModeScheduleProperty, StationNotificationSwitchModeAppProperty}
FloodlightStationSettings ==
  {StationGuardModeProperty, StationTimeFormatProperty, StationAlarmTypeProperty}
FloodlightCamera8422StationSettings ==
  {StationGuardModeProperty, StationTimeFormatProperty, StationAlarmTypeProperty}
FloodlightCamera8423StationSettings ==
  {StationGuardModeProperty, StationTimeFormatProperty, StationAlarmTypeProperty}
FloodlightCamera8424StationSettings ==
  {StationGuardModeProperty, StationTimeFormatProperty, StationAlarmTypeProperty}
FloodlightCamera8425StationSettings ==
  {StationGuardModeProperty, StationTimeFormatProperty, StationAlarmTypeProperty}
FloodlightCamera8426StationSettings ==
  {StationGuardModeProperty, StationTimeFormatProperty, StationAlarmTypeProperty}
WallLightCamStationSettings ==
  {StationGuardModeProperty, StationTimeFormatProperty, StationAlarmTypeProperty,
   StationAlarmVolumeWalllightProperty}
WallLightCam81a0StationSettings ==
  {StationGuardModeProperty, StationTimeFormatProperty, StationAlarmTypeProperty,
   StationAlarmVolumeWalllightProperty}
SmartDropStationSettings ==
  {StationGuardModeProperty, StationTimeFormatProperty, StationAlarmTypeProperty}
CameraC35StationSettings ==
  {StationGuardModeProperty, StationTimeFormatProperty, StationAlarmTypeProperty,
   StationNotificationSwitchModeScheduleProperty, StationNotificationSwitchModeGeofenceProperty,
   StationNotificationSwitchModeAppProperty}
EntrySensorE20StationSettings == {StationAlarmTypeProperty, StationAlarmToneProperty}
PirSensorE20StationSettings == {StationAlarmTypeProperty, StationAlarmToneProperty}
SirenSensorE20StationSettings ==
  {StationAlarmVolumeWalllightProperty, StationAlarmTypeProperty, StationAlarmToneProperty}

StationProperties ==
  [STATION |-> StationStationSettings, HB3 |-> Hb3StationSettings,
   HOMEBASE_PROFESSIONAL_S1 |-> HomebaseProfessionalS1StationSettings,
   MINIBASE_CHIME |-> MinibaseChimeStationSettings, HOMEBASE_MINI |-> HomebaseMiniStationSettings,
   NVR_S4_MAX |-> NvrS4MaxStationSettings, INDOOR_CAMERA |-> IndoorCameraStationSettings,
   INDOOR_CAMERA_1080 |-> IndoorCamera1080StationSettings,
   INDOOR_PT_CAMERA |-> IndoorPtCameraStationSettings,
   INDOOR_COST_DOWN_CAMERA |-> IndoorCostDownCameraStationSettings,
   INDOOR_PT_CAMERA_1080 |-> IndoorPtCamera1080StationSettings,
   INDOOR_OUTDOOR_CAMERA_1080P |-> IndoorOutdoorCamera1080pStationSettings,
   INDOOR_OUTDOOR_CAMERA_1080P_NO_LIGHT |-> IndoorOutdoorCamera1080pNoLightStationSettings,
   INDOOR_PT_CAMERA_S350 |-> IndoorPtCameraS350StationSettings,
   INDOOR_PT_CAMERA_E30 |-> IndoorPtCameraE30StationSettings,
   INDOOR_PT_CAMERA_C210 |-> IndoorPtCameraC210StationSettings,
   INDOOR_PT_CAMERA_C220 |-> IndoorPtCameraC220StationSettings,
   INDOOR_OUTDOOR_CAMERA_2K |-> IndoorOutdoorCamera2kStationSettings,
   OUTDOOR_PT_CAMERA |-> OutdoorPtCameraStationSettings, CAMERA_S4 |-> CameraS4StationSettings,
   SOLOCAM_E42 |-> SolocamE42StationSettings, DOORBELL |-> DoorbellStationSettings,
   DOORBELL_SOLO |-> DoorbellSoloStationSettings,
   BATTERY_DOORBELL_C30 |-> BatteryDoorbellC30StationSettings,
   BATTERY_DOORBELL_C31 |-> BatteryDoorbellC31StationSettings,
   BATTERY_DOORBELL_PLUS_E340 |-> BatteryDoorbellPlusE340StationSettings,
   CAMERA_FG |-> CameraFgStationSettings, CAMERA_4G_S330 |-> Camera4gS330StationSettings,
   SOLO_CAMERA |-> SoloCameraStationSettings, SOLO_CAMERA_PRO |-> SoloCameraProStationSettings,
   SOLO_CAMERA_SPOTLIGHT_1080 |-> SoloCameraSpotlight1080StationSettings,
   SOLO_CAMERA_SPOTLIGHT_2K |-> SoloCameraSpotlight2kStationSettings,
   SOLO_CAMERA_SPOTLIGHT_SOLAR |-> SoloCameraSpotlightSolarStationSettings,
   SOLO_CAMERA_SOLAR |-> SoloCameraSolarStationSettings,
   SOLO_CAMERA_C210 |-> SoloCameraC210StationSettings,
   SOLO_CAMERA_E30 |-> SoloCameraE30StationSettings, FLOODLIGHT |-> FloodlightStationSettings,
   FLOODLIGHT_CAMERA_8422 |-> FloodlightCamera8422StationSettings,
   FLOODLIGHT_CAMERA_8423 |-> FloodlightCamera8423StationSettings,
   FLOODLIGHT_CAMERA_8424 |-> FloodlightCamera8424StationSettings,
   FLOODLIGHT_CAMERA_8425 |-> FloodlightCamera8425StationSettings,
   FLOODLIGHT_CAMERA_8426 |-> FloodlightCamera8426StationSettings,
   WALL_LIGHT_CAM |-> WallLightCamStationSettings,
   WALL_LIGHT_CAM_81A0 |-> WallLightCam81a0StationSettings, CAMERA_GARAGE_T8452 |-> {},
   CAMERA_GARAGE_T8453 |-> {}, CAMERA_GARAGE_T8453_COMMON |-> {}, LOCK_WIFI |-> {},
   LOCK_WIFI_NO_FINGER |-> {}, LOCK_8503 |-> {}, LOCK_8504 |-> {}, LOCK_8506 |-> {},
   LOCK_8531 |-> {}, LOCK_85D0 |-> {}, LOCK_85L0 |-> {}, LOCK_8502 |-> {}, LOCK_8592 |-> {},
   LOCK_85P0 |-> {}, LOCK_BLE |-> {}, LOCK_BLE_NO_FINGER |-> {}, SMART_SAFE_7400 |-> {},
   SMART_SAFE_7401 |-> {}, SMART_SAFE_7402 |-> {}, SMART_SAFE_7403 |-> {},
   SMART_TRACK_CARD |-> {}, SMART_TRACK_LINK |-> {}, SMART_DROP |-> SmartDropStationSettings,
   CAMERA_C35 |-> CameraC35StationSettings, ENTRY_SENSOR_E20 |-> EntrySensorE20StationSettings,
   PIR_SENSOR_E20 |-> PirSensorE20StationSettings,
   SIREN_SENSOR_E20 |-> SirenSensorE20StationSettings]

FloodlightT8420XDeviceProperties ==
  {DeviceEnabledStandaloneProperty, DeviceAutoNightvisionProperty,
   DeviceMotionDetectionIndoorSoloFloodProperty, DeviceWatermarkIndoorFloodProperty,
   DeviceStatusLedIndoorFloodProperty, DeviceFloodlightLightProperty,
   DeviceFloodlightLightSettingsEnableProperty,
   DeviceFloodlightLightSettingsBrightnessManualProperty,
   DeviceFloodlightLightSettingsBrightnessMotionProperty,
   DeviceFloodlightLightSettingsBrightnessScheduleProperty,
   DeviceFloodlightLightSettingsMotionTriggeredProperty,
   DeviceFloodlightLightSettingsMotionTriggeredDistanceProperty,
   DeviceFloodlightLightSettingsMotionTriggeredTimerProperty,
   DeviceMotionDetectionSensitivityIndoorProperty, DeviceMicrophoneProperty,
   DeviceSpeakerProperty, DeviceSpeakerVolumeIndoorFloodDoorbellProperty,
   DeviceAudioRecordingIndoorSoloFloodlightProperty, DeviceMotionDetectionTypeFloodlightProperty,
   DeviceRecordingClipLengthFloodlightProperty,
   DeviceRecordingRetriggerIntervalFloodlightProperty, DeviceRecordingEndClipMotionStopsProperty,
   DeviceVideoStreamingQualityProperty, DeviceNotificationTypeIndoorFloodlightProperty}
WiredDoorbellT8200XDeviceProperties ==
  {DeviceEnabledSoloProperty, DeviceAutoNightvisionProperty, DeviceStatusLedT8200XProperty,
   DeviceMotionDetectionProperty, DeviceWatermarkSoloWiredDoorbellProperty,
   DeviceSpeakerVolumeIndoorFloodDoorbellProperty, DeviceRingtoneVolumeT8200XProperty,
   DeviceAudioRecordingIndoorSoloFloodlightProperty, DeviceMotionDetectionTypeT8200XProperty,
   DeviceMotionDetectionSensitivityBatteryDoorbellProperty,
   DeviceVideoStreamingQualitySoloProperty, DeviceVideoHDRWiredDoorbellProperty,
   DeviceNotificationTypeIndoorFloodlightProperty, DeviceNotificationRingWiredDoorbellProperty,
   DeviceNotificationMotionWiredDoorbellProperty, DeviceVideoRecordingQualityT8200XProperty,
   DeviceChimeIndoorT8200XProperty}
LockT8510PDeviceProperties ==
  {DeviceLockedProperty, DeviceAutoLockProperty, DeviceAutoLockTimerProperty,
   DeviceAutoLockScheduleProperty, DeviceAutoLockScheduleStartTimeProperty,
   DeviceAutoLockScheduleEndTimeProperty, DeviceOneTouchLockingProperty,
   DeviceWrongTryProtectionProperty, DeviceWrongTryAttemptsProperty,
   DeviceWrongTryLockdownTimeProperty, DeviceScramblePasscodeProperty, DeviceSoundProperty,
   DeviceNotificationSmartLockProperty, DeviceNotificationUnlockedSmartLockProperty,
   DeviceNotificationLockedSmartLockProperty}
LockT8520PDeviceProperties ==
  {DeviceLockedProperty, DeviceAutoLockProperty, DeviceAutoLockTimerProperty,
   DeviceAutoLockScheduleProperty, DeviceAutoLockScheduleStartTimeProperty,
   DeviceAutoLockScheduleEndTimeProperty, DeviceOneTouchLockingProperty,
   DeviceWrongTryProtectionProperty, DeviceWrongTryAttemptsProperty,
   DeviceWrongTryLockdownTimeProperty, DeviceScramblePasscodeProperty, DeviceSoundProperty,
   DeviceNotificationSmartLockProperty, DeviceNotificationUnlockedSmartLockProperty,
   DeviceNotificationLockedSmartLockProperty}
LockT85V0DeviceProperties ==
  {DeviceEnabledProperty, DeviceAutoNightvisionProperty, DeviceMotionDetectionProperty,
   DeviceWatermarkBatteryDoorbellCamera1Property, DeviceSpeakerVolumeIndoorFloodDoorbellProperty,
   DeviceRingtoneVolumeBatteryDoorbellProperty, DeviceAudioRecordingProperty,
   DeviceMotionDetectionTypeProperty, DevicePowerWorkingModeBatteryDoorbellProperty,
   DeviceRecordingClipLengthProperty, DeviceRecordingRetriggerIntervalBatteryDoorbellProperty,
   DeviceRecordingEndClipMotionStopsProperty, DeviceVideoStreamingQualityBatteryDoorbellProperty,
   DeviceVideoRecordingQualityT8530Property, DeviceChimeIndoorBatteryDoorbellProperty,
   DeviceChimeHomebaseBatteryDoorbellProperty,
   DeviceChimeHomebaseRingtoneVolumeBatteryDoorbellProperty,
   DeviceChimeHomebaseRingtoneTypeBatteryDoorbellProperty,
   DeviceNotificationTypeBatteryDoorbellProperty, DeviceNotificationRingProperty,
   DeviceNotificationMotionProperty, DeviceMotionDetectionSensitivityModeProperty,
   DeviceMotionDetectionSensitivityStandardProperty,
   DeviceMotionDetectionSensitivityAdvancedAProperty,
   DeviceMotionDetectionSensitivityAdvancedBProperty,
   DeviceMotionDetectionSensitivityAdvancedCProperty,
   DeviceMotionDetectionSensitivityAdvancedDProperty,
   DeviceMotionDetectionSensitivityAdvancedEProperty,
   DeviceMotionDetectionSensitivityAdvancedFProperty,
   DeviceMotionDetectionSensitivityAdvancedGProperty,
   DeviceMotionDetectionSensitivityAdvancedHProperty, DeviceLoiteringDetectionProperty,
   DeviceLoiteringDetectionLengthProperty, DeviceLoiteringDetectionRangeProperty,
   DeviceLoiteringCustomResponsePhoneNotificationProperty,
   DeviceLoiteringCustomResponseAutoVoiceResponseProperty,
   DeviceLoiteringCustomResponseAutoVoiceResponseVoiceProperty,
   DeviceLoiteringCustomResponseHomeBaseNotificationProperty,
   DeviceLoiteringCustomResponseTimeFromProperty, DeviceLoiteringCustomResponseTimeToProperty,
   DeviceLockedProperty, DeviceLeavingDetectionProperty,
   DeviceLeavingReactionNotificationProperty, DeviceLeavingReactionStartTimeProperty,
   DeviceLeavingReactionEndTimeProperty, DeviceAutoLockProperty, DeviceAutoLockTimerProperty,
   DeviceAutoLockScheduleProperty, DeviceAutoLockScheduleStartTimeProperty,
   DeviceAutoLockScheduleEndTimeProperty, DeviceOneTouchLockingProperty,
   DeviceWrongTryProtectionProperty, DeviceWrongTryAttemptsProperty,
   DeviceWrongTryLockdownTimeProperty, DeviceScramblePasscodeProperty,
   DeviceNotificationUnlockedProperty, DeviceNotificationLockedProperty, DeviceBeepVolumeProperty,
   DeviceNightvisionOptimizationProperty, DeviceNightvisionOptimizationSideProperty}

\* The settings of the models that share a DeviceType with another model.
SettingsBySerial(d) ==
  CASE isFloodLightT8420X(d) -> FloodlightT8420XDeviceProperties
    [] isWiredDoorbellT8200X(d) -> WiredDoorbellT8200XDeviceProperties
    [] isLockWifiT8510P(d) -> LockT8510PDeviceProperties
    [] isLockWifiT8520P(d) -> LockT8520PDeviceProperties
    [] isLockWifiT85V0(d) -> LockT85V0DeviceProperties
    [] OTHER -> DeviceProperties[d.type]

\* A metadata object in which the names of the second set are overwritten.
Overwrite(settings, by) == {s \in settings : \A t \in by : t.name # s.name} \cup by

\* A solo or S350 camera behind a home base stores some settings as that
\* home base's other cameras do.
SoloOnHomeBase(d) ==
  {DeviceAudioRecordingProperty, DeviceMotionDetectionSensitivityCamera2Property,
   DeviceNotificationTypeProperty, DeviceMotionDetectionProperty}
  \cup IF isCameraC35(d)
         THEN {DeviceVideoRecordingQualityCameraC35HB3Property, DeviceRTSPStreamProperty}
         ELSE {DeviceVideoRecordingQualitySoloCamerasHB3Property}
S350OnHomeBase ==
  {DeviceMotionDetectionProperty, DeviceAudioRecordingProperty,
   DeviceMotionDetectionSensitivityBatteryDoorbellProperty, DeviceStatusLedIndoorS350Property}
DetectionOnHomeBase(d) ==
  {DeviceMotionHB3DetectionTypeHumanProperty, DeviceMotionHB3DetectionTypeHumanRecognitionProperty,
   DeviceMotionHB3DetectionTypePetProperty, DeviceMotionHB3DetectionTypeVehicleProperty,
   DeviceMotionHB3DetectionTypeAllOtherMotionsProperty}
  \cup IF isSmartDrop(d) THEN {}
       ELSE IF isOutdoorPanAndTiltCamera(d) THEN {DeviceEnabledIndoorS350Property}
       ELSE {DeviceEnabledSoloProperty}

StationOverrides(d, settings) ==
  CASE d.sn # "" \/ isLockWifiT85V0(d) \/ ~isDeviceControlledByHomeBase(d) -> settings
    [] OTHER ->
         IF isSoloCameras(d) THEN Overwrite(settings, SoloOnHomeBase(d))
         ELSE IF isIndoorPanAndTiltCameraS350(d) THEN Overwrite(settings, S350OnHomeBase)
         ELSE settings

DetectionOverrides(d, settings) ==
  IF /\ isDeviceControlledByHomeBase(d)
     /\ \E s \in settings : s.name \in {"DeviceMotionDetectionType",
                                       "DeviceMotionDetectionTypeAllOtherMotions"}
     /\ isCamera(d)
  THEN Overwrite({s \in settings : s.name # "DeviceMotionDetectionType"}, DetectionOnHomeBase(d))
  ELSE settings

\* The writeable part of getPropertiesMetadata, of a device or of a station.
getPropertiesMetadata(d) ==
  IF d.role = "station" THEN StationProperties[d.type]
  ELSE DetectionOverrides(d, StationOverrides(d, SettingsBySerial(d)))

\* A device with its settings; the operators below are about such a device.
Equipped(d) == [type |-> d.type, sn |-> d.sn, hub |-> d.hub, role |-> d.role, recent |-> d.recent,
                settings |-> getPropertiesMetadata(d)]
NamesOf(d) == {s.name : s \in d.settings}
Sharing(d, key) == {s.name : s \in {t \in d.settings : t.key = key}}
KeyOf(d, name) == (CHOOSE s \in d.settings : s.name = name).key
==============================================================================
