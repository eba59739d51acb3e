--------------------------- MODULE DoorbellSetters ---------------------------
(*
 What station.ts sends for the settings of doorbells: chimes, automatic responses, package guarding.
*)
EXTENDS SettingCommands

setRingtoneVolume(d) ==
  FirstOf(<<
    Arm(isBatteryDoorbell(d) \/ isWiredDoorbellDual(d) \/ isLockWifiVideo(d),
        Plain("CMD_BAT_DOORBELL_SET_RINGTONE_VOLUME")),
    Arm(isWiredDoorbellT8200X(d), Doorbell("CMD_T8200X_SET_RINGTONE_VOLUME")),
    Arm(isWiredDoorbell(d), Doorbell("COMMAND_RINGTONE_VOLUME"))>>)
enableIndoorChime(d) ==
  FirstOf(<<
    Arm(isBatteryDoorbell(d), Plain("CMD_BAT_DOORBELL_MECHANICAL_CHIME_SWITCH")),
    Arm(isWiredDoorbell(d), Doorbell("COMMAND_INDOOR_CHIME"))>>)
enableHomebaseChime(d) ==
  FirstOf(<<
    Arm(isBatteryDoorbell(d) \/ isLockWifiVideo(d),
        Plain("CMD_BAT_DOORBELL_CHIME_SWITCH"))>>)
setHomebaseChimeRingtoneVolume(d) ==
  FirstOf(<<
    Arm(isBatteryDoorbell(d) \/ isLockWifiVideo(d), Payload("CMD_BAT_DOORBELL_DINGDONG_V"))>>)
setHomebaseChimeRingtoneType(d) ==
  FirstOf(<<
    Arm(isBatteryDoorbell(d) \/ isLockWifiVideo(d), Payload("CMD_BAT_DOORBELL_DINGDONG_R"))>>)
setRingRecord(d) ==
  FirstOf(<<
    Arm(isWiredDoorbell(d), Doorbell("COMMAND_VIDEO_RING_RECORD"))>>)
setDeliveryGuard(d) ==
  FirstOf(<<
    Arm(isBatteryDoorbellDual(d) \/ isWiredDoorbellDual(d) \/ isBatteryDoorbellDualE340(d),
        Payload("CMD_DOORBELL_DUAL_DELIVERY_GUARD_SWITCH"))>>)
setDeliveryGuardPackageGuarding(d) ==
  FirstOf(<<
    Arm(isBatteryDoorbellDual(d) \/ isWiredDoorbellDual(d) \/ isBatteryDoorbellDualE340(d),
        Payload("CMD_DOORBELL_DUAL_PACKAGE_GUARD_SWITCH"))>>)
setDeliveryGuardPackageGuardingVoiceResponseVoice(d) ==
  FirstOf(<<
    Arm(isBatteryDoorbellDual(d) \/ isWiredDoorbellDual(d) \/ isBatteryDoorbellDualE340(d),
        Payload("CMD_DOORBELL_DUAL_PACKAGE_GUARD_VOICE"))>>)
packageGuardingActivatedTime(d) ==
  FirstOf(<<
    Arm(isBatteryDoorbellDual(d) \/ isWiredDoorbellDual(d) \/ isBatteryDoorbellDualE340(d),
        Carrying({"DeviceDeliveryGuardPackageGuardingActivatedTimeFrom",
                  "DeviceDeliveryGuardPackageGuardingActivatedTimeTo"},
                 Payload("CMD_DOORBELL_DUAL_PACKAGE_GUARD_TIME")))>>)
setDeliveryGuardUncollectedPackageAlert(d) ==
  FirstOf(<<
    Arm(isBatteryDoorbellDual(d) \/ isWiredDoorbellDual(d) \/ isBatteryDoorbellDualE340(d),
        Payload("CMD_DOORBELL_DUAL_PACKAGE_STRAND_SWITCH"))>>)
setDeliveryGuardUncollectedPackageAlertTimeToCheck(d) ==
  FirstOf(<<
    Arm(isBatteryDoorbellDual(d) \/ isWiredDoorbellDual(d) \/ isBatteryDoorbellDualE340(d),
        Payload("CMD_DOORBELL_DUAL_PACKAGE_STRAND_TIME"))>>)
setDeliveryGuardPackageLiveCheckAssistance(d) ==
  FirstOf(<<
    Arm(isBatteryDoorbellDual(d) \/ isWiredDoorbellDual(d) \/ isBatteryDoorbellDualE340(d),
        Payload("CMD_DOORBELL_DUAL_PACKAGE_ASSISTANT_SWITCH"))>>)
setDualCamWatchViewMode(d) ==
  FirstOf(<<
    Arm(isBatteryDoorbellDual(d) \/ isWiredDoorbellDual(d),
        Payload("CMD_DOORBELL_DUAL_VIEW_MODE")),
    Arm(\/ isBatteryDoorbellDualE340(d) \/ isOutdoorPanAndTiltCamera(d)
        \/ isIndoorPanAndTiltCameraS350(d) \/ isFloodLightT8425(d),
        Payload("CMD_DOORBELL_DUAL_VIEW_MODE2"))>>)
RingResponses ==
  {"DeviceRingAutoResponse" \o field :
     field \in {"", "VoiceResponse", "VoiceResponseVoice", "TimeFrom", "TimeTo"}}
ringAutoResponse(d) ==
  FirstOf(<<
    Arm(isBatteryDoorbellDual(d) \/ isWiredDoorbellDual(d) \/ isBatteryDoorbellDualE340(d),
        Carrying(RingResponses, Payload("CMD_DOORBELL_DUAL_RING_AUTO_RESPONSE")))>>)
==============================================================================
