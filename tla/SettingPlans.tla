---------------------------- MODULE SettingPlans -----------------------------
(*
 Which setter of station.ts serves a request to change a property, in the order
 of the switches of eufysecurity.ts, and which answer updates the shown value.
*)
EXTENDS DetectionSetters, PictureSetters, SoundSetters, NotificationSetters, LightSetters,
        DoorbellSetters, LockSetters, DeviceSetters, StationSetters, Functions

\* Notification kinds: flags of one mask for some models, commands of their own for others.
setNotificationKind(d, n, plan) ==
  CASE isIndoorPanAndTiltCameraS350(d) -> setNotificationIndoor(d, n)
    [] isFloodLightT8425(d) \/ isCameraC35(d) -> setNotificationFloodlightT8425(d, n)
    [] OTHER -> plan
setNotificationSound(d, n, plan) ==
  IF isIndoorPanAndTiltCameraS350(d) THEN setNotificationIndoor(d, n) ELSE plan
notificationProperty(d, n) ==
  CASE n = "DeviceNotificationPerson" -> setNotificationKind(d, n, setNotificationPerson(d))
    [] n = "DeviceNotificationPet" -> setNotificationKind(d, n, setNotificationPet(d))
    [] n = "DeviceNotificationAllOtherMotion" ->
         setNotificationKind(d, n, setNotificationAllOtherMotion(d))
    [] n = "DeviceNotificationAllSound" -> setNotificationSound(d, n, setNotificationAllSound(d))
    [] n = "DeviceNotificationCrying" -> setNotificationSound(d, n, setNotificationCrying(d))
    [] n = "DeviceNotificationVehicle" ->
         IF isFloodLightT8425(d) \/ isCameraC35(d)
         THEN setNotificationFloodlightT8425(d, n) ELSE Refused
    [] OTHER -> Refused

\* Detection types: the flag each family of cameras uses.
HumanType(d) ==
  IF isOutdoorPanAndTiltCamera(d) \/ isSoloCameras(d) \/ isIndoorPanAndTiltCameraS350(d)
  THEN 3 ELSE 2
AllOtherType(d) ==
  IF isSoloCameras(d) /\ ~isOutdoorPanAndTiltCamera(d) /\ ~isCameraC35(d) THEN 32771 ELSE 32768
detectionTypeProperty(d, n) ==
  CASE n = "DeviceMotionDetectionTypeHumanRecognition" -> setMotionDetectionTypeHB3(d, n, 131072)
    [] n = "DeviceMotionDetectionTypeHuman" ->
         IF isWallLightCam(d) THEN setMotionDetectionTypeHuman(d)
         ELSE setMotionDetectionTypeHB3(d, n, HumanType(d))
    [] n = "DeviceMotionDetectionTypePet" -> setMotionDetectionTypeHB3(d, n, 8)
    [] n = "DeviceMotionDetectionTypeVehicle" -> setMotionDetectionTypeHB3(d, n, 4)
    [] n = "DeviceMotionDetectionTypeAllOtherMotions" ->
         IF isWallLightCam(d) THEN setMotionDetectionTypeAllOtherMotions(d)
         ELSE setMotionDetectionTypeHB3(d, n, AllOtherType(d))
    [] OTHER -> Refused

SmartSafeProperties ==
  {"DeviceLeftOpenAlarm", "DeviceLeftOpenAlarmDuration", "DeviceDualUnlock", "DevicePowerSave",
   "DeviceInteriorBrightness", "DeviceInteriorBrightnessDuration", "DeviceTamperAlarm",
   "DeviceRemoteUnlock", "DeviceRemoteUnlockMasterPIN", "DeviceAlarmVolume", "DevicePromptVolume"}
  \cup SafeNotifications
\* Trackers are set through the cloud, not through a station.
TrackerProperties == {"DeviceLeftBehindAlarm", "DeviceFindPhone", "DeviceTrackerType"}

\* The other cases of the switch, in four parts.
cameraProperty(d, n) ==
  CASE n = "DeviceEnabled" -> enableDevice(d)
    [] n = "DeviceStatusLed" -> setStatusLed(d)
    [] n = "DeviceAutoNightvision" -> setAutoNightVision(d)
    [] n = "DeviceMotionDetection" -> setMotionDetection(d)
    [] n = "DeviceSoundDetection" -> setSoundDetection(d)
    [] n = "DevicePetDetection" -> setPetDetection(d)
    [] n = "DeviceRTSPStream" -> setRTSPStream(d)
    [] n = "DeviceAntitheftDetection" -> setAntiTheftDetection(d)
    [] n = "DeviceLocked" -> lockDevice(d)
    [] n = "DeviceWatermark" -> setWatermark(d)
    [] n = "DeviceLight" -> switchLight(d)
    [] n = "DeviceLightSettingsEnable" -> setFloodlightLightSettingsEnable(d)
    [] n = "DeviceLightSettingsBrightnessManual" -> setFloodlightLightSettingsBrightnessManual(d)
    [] n = "DeviceLightSettingsBrightnessMotion" -> setFloodlightLightSettingsBrightnessMotion(d)
    [] n = "DeviceLightSettingsBrightnessSchedule" ->
         setFloodlightLightSettingsBrightnessSchedule(d)
    [] n = "DeviceLightSettingsMotionTriggered" -> setFloodlightLightSettingsMotionTriggered(d)
    [] n = "DeviceLightSettingsMotionTriggeredDistance" ->
         setFloodlightLightSettingsMotionTriggeredDistance(d)
    [] n = "DeviceLightSettingsMotionTriggeredTimer" ->
         setFloodlightLightSettingsMotionTriggeredTimer(d)
    [] n = "DeviceMicrophone" -> setMicMute(d)
    [] n = "DeviceSpeaker" -> enableSpeaker(d)
    [] n = "DeviceSpeakerVolume" -> setSpeakerVolume(d)
    [] n = "DeviceAudioRecording" -> setAudioRecording(d)
    [] n = "DevicePowerSource" -> setPowerSource(d)
    [] n = "DevicePowerWorkingMode" -> setPowerWorkingMode(d)
    [] n = "DeviceRecordingEndClipMotionStops" -> setRecordingEndClipMotionStops(d)
    [] n = "DeviceRecordingClipLength" -> setRecordingClipLength(d)
    [] n = "DeviceRecordingRetriggerInterval" -> setRecordingRetriggerInterval(d)
    [] n = "DeviceVideoStreamingQuality" -> setVideoStreamingQuality(d)
    [] n = "DeviceVideoRecordingQuality" -> setVideoRecordingQuality(d)
    [] n = "DeviceMotionDetectionSensitivity" -> setMotionDetectionSensitivity(d)
    [] n = "DeviceMotionTracking" -> setMotionTracking(d)
    [] n = "DeviceMotionDetectionType" -> setMotionDetectionType(d)
    [] n = "DeviceMotionZone" -> setMotionZone(d)
    [] n = "DeviceVideoWDR" -> setWDR(d)
    [] n = "DeviceRingtoneVolume" -> setRingtoneVolume(d)
    [] n = "DeviceChimeIndoor" -> enableIndoorChime(d)
    [] n = "DeviceChimeHomebase" -> enableHomebaseChime(d)
    [] n = "DeviceChimeHomebaseRingtoneVolume" -> setHomebaseChimeRingtoneVolume(d)
    [] n = "DeviceChimeHomebaseRingtoneType" -> setHomebaseChimeRingtoneType(d)
    [] n = "DeviceNotificationType" -> setNotificationType(d)
    [] OTHER -> Refused
detectionProperty(d, n) ==
  CASE n = "DeviceNotificationMotion" -> setNotificationMotion(d)
    [] n = "DeviceNotificationRing" -> setNotificationRing(d)
    [] n = "DeviceChirpVolume" -> setChirpVolume(d)
    [] n = "DeviceChirpTone" -> setChirpTone(d)
    [] n = "DeviceVideoHDR" -> setHDR(d)
    [] n = "DeviceVideoDistortionCorrection" -> setDistortionCorrection(d)
    [] n = "DeviceVideoRingRecord" -> setRingRecord(d)
    [] n = "DeviceRotationSpeed" -> setPanAndTiltRotationSpeed(d)
    [] n = "DeviceNightvision" -> setNightVision(d)
    [] n = "DeviceMotionDetectionRange" -> setMotionDetectionRange(d)
    [] n = "DeviceMotionDetectionRangeStandardSensitivity" ->
         setMotionDetectionRangeStandardSensitivity(d)
    [] n = "DeviceMotionDetectionRangeAdvancedLeftSensitivity" ->
         setMotionDetectionRangeAdvancedLeftSensitivity(d)
    [] n = "DeviceMotionDetectionRangeAdvancedMiddleSensitivity" ->
         setMotionDetectionRangeAdvancedMiddleSensitivity(d)
    [] n = "DeviceMotionDetectionRangeAdvancedRightSensitivity" ->
         setMotionDetectionRangeAdvancedRightSensitivity(d)
    [] n = "DeviceMotionDetectionTestMode" -> setMotionDetectionTestMode(d)
    [] n = "DeviceMotionTrackingSensitivity" -> setMotionTrackingSensitivity(d)
    [] n = "DeviceMotionAutoCruise" -> setMotionAutoCruise(d)
    [] n = "DeviceMotionOutOfViewDetection" -> setMotionOutOfViewDetection(d)
    [] n = "DeviceLightSettingsColorTemperatureManual" ->
         setLightSettingsColorTemperatureManual(d)
    [] n = "DeviceLightSettingsColorTemperatureMotion" ->
         setLightSettingsColorTemperatureMotion(d)
    [] n = "DeviceLightSettingsColorTemperatureSchedule" ->
         setLightSettingsColorTemperatureSchedule(d)
    [] n = "DeviceLightSettingsMotionActivationMode" -> setLightSettingsMotionActivationMode(d)
    [] n = "DeviceVideoNightvisionImageAdjustment" -> setVideoNightvisionImageAdjustment(d)
    [] n = "DeviceVideoColorNightvision" -> setVideoColorNightvision(d)
    [] n = "DeviceAutoCalibration" -> setAutoCalibration(d)
    [] n = "DeviceAutoLock" -> setAutoLock(d)
    [] n = "DeviceAutoLockSchedule" -> setAutoLockSchedule(d)
    [] n = "DeviceAutoLockScheduleStartTime" -> setAutoLockScheduleStartTime(d)
    [] n = "DeviceAutoLockScheduleEndTime" -> setAutoLockScheduleEndTime(d)
    [] n = "DeviceAutoLockTimer" -> setAutoLockTimer(d)
    [] n = "DeviceOneTouchLocking" -> setOneTouchLocking(d)
    [] n = "DeviceSound" -> setSound(d)
    [] n = "DeviceNotification" -> setNotification(d)
    [] OTHER -> cameraProperty(d, n)
lockAndDoorbellProperty(d, n) ==
  CASE n = "DeviceNotificationLocked" -> setNotificationLocked(d)
    [] n = "DeviceNotificationUnlocked" -> setNotificationUnlocked(d)
    [] n = "DeviceScramblePasscode" -> setScramblePasscode(d)
    [] n = "DeviceWrongTryProtection" -> setWrongTryProtection(d)
    [] n = "DeviceWrongTryAttempts" -> setWrongTryAttempts(d)
    [] n = "DeviceWrongTryLockdownTime" -> setWrongTryLockdownTime(d)
    [] n = "DeviceLoiteringDetection" -> setLoiteringDetection(d)
    [] n = "DeviceLoiteringDetectionRange" -> setLoiteringDetectionRange(d)
    [] n = "DeviceLoiteringDetectionLength" -> setLoiteringDetectionLength(d)
    [] n \in {"DeviceLoiteringCustomResponseAutoVoiceResponse",
              "DeviceLoiteringCustomResponseHomeBaseNotification",
              "DeviceLoiteringCustomResponsePhoneNotification",
              "DeviceLoiteringCustomResponseAutoVoiceResponseVoice",
              "DeviceLoiteringCustomResponseTimeFrom", "DeviceLoiteringCustomResponseTimeTo"} ->
         loiteringCustomResponse(d)
    [] n = "DeviceMotionDetectionSensitivityMode" -> setMotionDetectionSensitivityMode(d)
    [] n = "DeviceMotionDetectionSensitivityStandard" -> setMotionDetectionSensitivityStandard(d)
    [] n \in {"DeviceMotionDetectionSensitivityAdvancedA",
              "DeviceMotionDetectionSensitivityAdvancedB",
              "DeviceMotionDetectionSensitivityAdvancedC",
              "DeviceMotionDetectionSensitivityAdvancedD",
              "DeviceMotionDetectionSensitivityAdvancedE",
              "DeviceMotionDetectionSensitivityAdvancedF",
              "DeviceMotionDetectionSensitivityAdvancedG",
              "DeviceMotionDetectionSensitivityAdvancedH"} ->
         setMotionDetectionSensitivityAdvanced(d)
    [] n = "DeviceDeliveryGuard" -> setDeliveryGuard(d)
    [] n = "DeviceDeliveryGuardPackageGuarding" -> setDeliveryGuardPackageGuarding(d)
    [] n = "DeviceDeliveryGuardPackageGuardingVoiceResponseVoice" ->
         setDeliveryGuardPackageGuardingVoiceResponseVoice(d)
    [] n \in {"DeviceDeliveryGuardPackageGuardingActivatedTimeFrom",
              "DeviceDeliveryGuardPackageGuardingActivatedTimeTo"} ->
         packageGuardingActivatedTime(d)
    [] n = "DeviceDeliveryGuardUncollectedPackageAlert" ->
         setDeliveryGuardUncollectedPackageAlert(d)
    [] n = "DeviceDeliveryGuardPackageLiveCheckAssistance" ->
         setDeliveryGuardPackageLiveCheckAssistance(d)
    [] n = "DeviceDualCamWatchViewMode" -> setDualCamWatchViewMode(d)
    [] n \in {"DeviceRingAutoResponse", "DeviceRingAutoResponseVoiceResponse",
              "DeviceRingAutoResponseVoiceResponseVoice", "DeviceRingAutoResponseTimeFrom",
              "DeviceRingAutoResponseTimeTo"} ->
         ringAutoResponse(d)
    [] n = "DeviceNotificationRadarDetector" -> setNotificationRadarDetector(d)
    [] n = "DeviceSoundDetectionSensitivity" -> setSoundDetectionSensitivity(d)
    [] n = "DeviceContinuousRecording" -> setContinuousRecording(d)
    [] n = "DeviceContinuousRecordingType" -> setContinuousRecordingType(d)
    [] n = "DeviceDefaultAngle" -> enableDefaultAngle(d)
    [] n = "DeviceDefaultAngleIdleTime" -> setDefaultAngleIdleTime(d)
    [] n = "DeviceNotificationIntervalTime" -> setNotificationIntervalTime(d)
    [] n = "DeviceSoundDetectionRoundLook" -> setSoundDetectionRoundLook(d)
    [] n = "DeviceDeliveryGuardUncollectedPackageAlertTimeToCheck" ->
         setDeliveryGuardUncollectedPackageAlertTimeToCheck(d)
    [] OTHER -> detectionProperty(d, n)
laterProperty(d, n) ==
  CASE n = "DeviceVideoTypeStoreToNAS" -> setVideoTypeStoreToNAS(d)
    [] n = "DeviceLightSettingsManualLightingActiveMode" ->
         setLightSettingsManualLightingActiveMode(d)
    [] n = "DeviceLightSettingsManualDailyLighting" -> setLightSettingsManualDailyLighting(d)
    [] n = "DeviceLightSettingsManualColoredLighting" -> setLightSettingsManualColoredLighting(d)
    [] n = "DeviceLightSettingsManualDynamicLighting" -> setLightSettingsManualDynamicLighting(d)
    [] n = "DeviceLightSettingsMotionLightingActiveMode" ->
         setLightSettingsMotionLightingActiveMode(d)
    [] n = "DeviceLightSettingsMotionDailyLighting" -> setLightSettingsMotionDailyLighting(d)
    [] n = "DeviceLightSettingsMotionColoredLighting" -> setLightSettingsMotionColoredLighting(d)
    [] n = "DeviceLightSettingsMotionDynamicLighting" -> setLightSettingsMotionDynamicLighting(d)
    [] n = "DeviceLightSettingsScheduleLightingActiveMode" ->
         setLightSettingsScheduleLightingActiveMode(d)
    [] n = "DeviceLightSettingsScheduleDailyLighting" -> setLightSettingsScheduleDailyLighting(d)
    [] n = "DeviceLightSettingsScheduleColoredLighting" ->
         setLightSettingsScheduleColoredLighting(d)
    [] n = "DeviceLightSettingsScheduleDynamicLighting" ->
         setLightSettingsScheduleDynamicLighting(d)
    [] n = "DeviceLightSettingsColoredLightingColors" -> setLightSettingsColoredLightingColors(d)
    [] n = "DeviceLightSettingsDynamicLightingThemes" -> setLightSettingsDynamicLightingThemes(d)
    [] n = "DeviceDoorControlWarning" -> setDoorControlWarning(d)
    [] n \in {"DeviceDoor1Open", "DeviceDoor2Open"} -> openDoor(d)
    [] n = "DeviceImageMirrored" -> setMirrorMode(d)
    [] n = "DeviceFlickerAdjustment" -> setFlickerAdjustment(d)
    [] n = "DeviceSoundDetectionType" -> setSoundDetectionType(d)
    [] n = "DeviceLeavingDetection" -> setLeavingDetection(d)
    [] n \in {"DeviceLeavingReactionNotification", "DeviceLeavingReactionStartTime",
              "DeviceLeavingReactionEndTime"} ->
         leavingReactions(d)
    [] n = "DeviceBeepVolume" -> setBeepVolume(d)
    [] n = "DeviceNightvisionOptimization" -> setNightvisionOptimization(d)
    [] n = "DeviceNightvisionOptimizationSide" -> setNightvisionOptimizationSide(d)
    [] n = "DeviceOpenMethod" -> setOpenMethod(d)
    [] n = "DeviceMotionActivatedPrompt" -> setMotionActivatedPrompt(d)
    [] OTHER -> lockAndDoorbellProperty(d, n)
setDeviceProperty(d, n) ==
  CASE n \in {"DeviceNotificationPerson", "DeviceNotificationPet",
             "DeviceNotificationAllOtherMotion", "DeviceNotificationAllSound",
             "DeviceNotificationCrying", "DeviceNotificationVehicle"} ->
         notificationProperty(d, n)
    [] n \in SmartSafeProperties -> setSmartSafeParams(d, n)
    [] n \in {"DeviceMotionDetectionTypeHumanRecognition", "DeviceMotionDetectionTypeHuman",
              "DeviceMotionDetectionTypePet", "DeviceMotionDetectionTypeVehicle",
              "DeviceMotionDetectionTypeAllOtherMotions"} -> detectionTypeProperty(d, n)
    [] n \in TrackerProperties -> Sent(<<"HTTP", n>>)
    [] OTHER -> laterProperty(d, n)

setStationProperty(d, n) ==
  CASE n = "StationGuardMode" -> setGuardMode(d)
    [] n = "StationAlarmTone" -> setStationAlarmTone(d)
    [] n = "StationAlarmVolume" -> setStationAlarmRingtoneVolume(d)
    [] n = "StationPromptVolume" -> setStationPromptVolume(d)
    [] n \in {"StationNotificationSwitchModeApp", "StationNotificationSwitchModeGeofence",
              "StationNotificationSwitchModeSchedule", "StationNotificationSwitchModeKeypad"} ->
         setStationNotificationSwitchMode(d)
    [] n = "StationNotificationStartAlarmDelay" -> setStationNotificationStartAlarmDelay(d)
    [] n = "StationTimeFormat" -> setStationTimeFormat(d)
    [] n = "StationSwitchModeWithAccessCode" -> setStationSwitchModeWithAccessCode(d)
    [] n = "StationAutoEndAlarm" -> setStationAutoEndAlarm(d)
    [] n = "StationTurnOffAlarmWithButton" -> setStationTurnOffAlarmWithButton(d)
    [] n = "StationCrossCameraTracking" -> setCrossCameraTracking(d)
    [] n = "StationContinuousTrackingTime" -> setContinuousTrackingTime(d)
    [] n = "StationTrackingAssistance" -> setTrackingAssistance(d)
    [] n = "StationCrossTrackingCameraList" -> setCrossTrackingCameraList(d)
    [] n = "StationCrossTrackingGroupList" -> setCrossTrackingGroupList(d)
    [] OTHER -> Refused

\* The answer that updates the shown value.  A lamp is left to the next poll of
\* the hub; the newer locks and the safes answer twice, and which of the two
\* counts depends on the model and the command.
AnswersWithin(d) ==
  isLockWifiT8506(d) \/ isLockWifiT8502(d) \/ isLockWifiT8510P(d) \/ isLockWifiT8520P(d)
    \/ isLockWifiT85L0(d)
onStationCommandResult(d, c) ==
  CASE c.shows = "DeviceLight" -> "never"
    [] d.role = "device" /\ (isLockWifiR10(d) \/ isLockWifiR20(d)) -> "second"
    [] d.role = "device" /\ isSmartSafe(d) /\ c.wire[1] = "CMD_SMARTSAFE_SETTINGS" -> "second"
    [] /\ d.role = "device"
       /\ AnswersWithin(d)
       /\ "CMD_DOORLOCK_SET_PUSH_MODE" \in Range(c.wire) -> "never"
    [] OTHER -> "first"
Answered(d, plan) == Each(plan, LAMBDA c : [c EXCEPT !.on = onStationCommandResult(d, c)])

\* What a request to change setting n of d sends, and what the answers do.
PlanOf(d, n) ==
  Answered(d, Named(d, n,
    IF d.role = "station" THEN setStationProperty(d, n) ELSE setDeviceProperty(d, n)))
==============================================================================
