--------------------------- MODULE StationSetters ----------------------------
(*
 What station.ts sends for the settings of stations: guard mode, alarm and tracking.
*)
EXTENDS SettingCommands

SwitchModes == {"StationNotificationSwitchMode" \o mode :
                  mode \in {"App", "Geofence", "Schedule", "Keypad"}}
AlarmDelay == {"StationNotificationStartAlarmDelay"}
setStationNotificationSwitchMode(d) ==
  WrittenBack(FirstOf(<<
    Arm(isStation(d) /\ d.recent,
        Carrying(AlarmDelay, FromRaw(SwitchModes, "zero", Payload("CMD_HUB_NOTIFY_MODE")))),
    Arm(\/ d.type = "OUTDOOR_PT_CAMERA" \/ isSoloCameraC210(d)
        \/ isCameraC35(d) /\ ~isDeviceControlledByHomeBase(d),
        Forcing(AlarmDelay, FromRaw(SwitchModes, "zero", Payload("CMD_HUB_NOTIFY_MODE")))),
    Otherwise(Forcing(SwitchModes, Carrying(AlarmDelay, Payload("CMD_HUB_NOTIFY_MODE"))))>>))
\* For a device that is its own station the form depends on its serial number.
setGuardMode(d) ==
  FirstOf(<<
    Arm(d.type \in {"HB3", "HOMEBASE_PROFESSIONAL_S1"}, Payload("CMD_SET_ARMING")),
    Arm(isStation(d) /\ d.recent, Payload("CMD_SET_ARMING")),
    Arm(isStation(d), Plain("CMD_SET_ARMING")),
    Otherwise(Payload("CMD_SET_ARMING") \cup Plain("CMD_SET_ARMING"))>>)
setStationAlarmRingtoneVolume(d) ==
  FirstOf(<<
    Arm(isWallLightCam(Hub(d)), Doorbell("CMD_WALL_LIGHT_ALERT_VOLUME")),
    Otherwise(Plain("CMD_SET_HUB_SPK_VOLUME"))>>)
setStationAlarmTone(d) == Payload("CMD_HUB_ALARM_TONE")
setStationPromptVolume(d) == Payload("CMD_SET_PROMPT_VOLUME")
setStationNotificationStartAlarmDelay(d) ==
  FromRaw(SwitchModes, "zero",
    IF d.recent THEN Payload("CMD_HUB_NOTIFY_ALARM") ELSE Payload("CMD_HUB_NOTIFY_MODE"))
setStationTimeFormat(d) ==
  FirstOf(<<
    Arm(isWallLightCam(Hub(d)), Doorbell("CMD_SET_HUB_OSD")),
    Otherwise(Plain("CMD_SET_HUB_OSD"))>>)
\* The property data names the geofence notification, and so the answer shows that.
setStationSwitchModeWithAccessCode(d) ==
  FirstOf(<<
    Arm(isStation(Hub(d)) /\ "StationNotificationSwitchModeGeofence" \in NamesOf(d),
        {<<[Command(<<"CMD_SET_PAYLOAD", "CMD_KEYPAD_PSW_OPEN">>) EXCEPT
              !.shows = "StationNotificationSwitchModeGeofence"]>>})>>)
setStationAutoEndAlarm(d) ==
  FirstOf(<<
    Arm(isStation(Hub(d)), Payload("CMD_SET_HUB_ALARM_AUTO_END"))>>)
setStationTurnOffAlarmWithButton(d) ==
  FirstOf(<<
    Arm(isStation(Hub(d)), Payload("CMD_SET_HUB_ALARM_CLOSE"))>>)
setCrossCameraTracking(d) == Payload("CMD_SET_CROSS_CAMERA_TRACKING")
setContinuousTrackingTime(d) == Payload("CMD_SET_CONTINUOUS_TRACKING_TIME")
setTrackingAssistance(d) == Payload("CMD_SET_TRACKING_ASSISTANCE")
setCrossTrackingCameraList(d) == Payload("CMD_SET_CROSS_TRACKING_CAMERA_LIST")
setCrossTrackingGroupList(d) == Payload("CMD_SET_CROSS_TRACKING_GROUP_LIST")
==============================================================================
