----------------------------- MODULE DeviceKinds -----------------------------
(*
 What a station or a device is, as far as the library's decisions depend on it.
 d.type  its DeviceType;
 d.sn    the serial number pattern of the models that share a type with another
         model ("" for every other device);
 d.hub   "own" when the device is its own station, otherwise the type of the
         station it is paired with;
 d.role  "device" or "station", the side whose properties are addressed;
 d.recent  whether the station runs firmware after the change the code tests
         for (Station.isStation commands, the indoor cameras' privacy command).
*)

\* The type of the station that d's commands go through.
StationType(d) == IF d.hub = "own" THEN d.type ELSE d.hub
Hub(d) == [d EXCEPT !.type = StationType(d), !.hub = "own", !.role = "station"]

isStation(d) == d.type \in {"STATION", "HB3", "HOMEBASE_PROFESSIONAL_S1", "MINIBASE_CHIME",
                            "HOMEBASE_MINI", "NVR_S4_MAX"}
isDeviceControlledByHomeBase(d) ==
  StationType(d) \in {"HB3", "HOMEBASE_MINI", "HOMEBASE_PROFESSIONAL_S1"}

isCamera(d) ==
  d.type \in
    {"CAMERA", "CAMERA2", "CAMERA_E", "CAMERA2C", "INDOOR_CAMERA", "INDOOR_PT_CAMERA",
     "FLOODLIGHT", "DOORBELL", "BATTERY_DOORBELL", "BATTERY_DOORBELL_2", "BATTERY_DOORBELL_PLUS",
     "BATTERY_DOORBELL_PLUS_E340", "BATTERY_DOORBELL_C30", "BATTERY_DOORBELL_C31",
     "DOORBELL_SOLO", "CAMERA2C_PRO", "CAMERA2_PRO", "CAMERA_E40", "CAMERA3", "CAMERA3C",
     "CAMERA3_PRO", "PROFESSIONAL_247", "INDOOR_CAMERA_1080", "INDOOR_PT_CAMERA_1080",
     "OUTDOOR_PT_CAMERA", "SOLO_CAMERA", "SOLO_CAMERA_PRO", "SOLO_CAMERA_SPOTLIGHT_1080",
     "SOLO_CAMERA_SPOTLIGHT_2K", "SOLO_CAMERA_SPOTLIGHT_SOLAR", "SOLO_CAMERA_SOLAR",
     "SOLO_CAMERA_C210", "SOLO_CAMERA_E30", "CAMERA_S4", "CAMERA_C35", "LOCK_85V0",
     "INDOOR_OUTDOOR_CAMERA_1080P", "INDOOR_OUTDOOR_CAMERA_1080P_NO_LIGHT",
     "INDOOR_OUTDOOR_CAMERA_2K", "INDOOR_COST_DOWN_CAMERA", "FLOODLIGHT_CAMERA_8422",
     "FLOODLIGHT_CAMERA_8423", "FLOODLIGHT_CAMERA_8424", "FLOODLIGHT_CAMERA_8425",
     "FLOODLIGHT_CAMERA_8426", "WALL_LIGHT_CAM", "WALL_LIGHT_CAM_81A0",
     "CAMERA_GARAGE_T8453_COMMON", "CAMERA_GARAGE_T8453", "CAMERA_GARAGE_T8452", "CAMERA_FG",
     "CAMERA_4G_S330", "INDOOR_PT_CAMERA_S350", "INDOOR_PT_CAMERA_E30", "INDOOR_PT_CAMERA_C210",
     "INDOOR_PT_CAMERA_C220", "INDOOR_PT_CAMERA_C220_V2", "SOLOCAM_E42", "SMART_DROP",
     "CAMERA_POE_S4"}
isSensor(d) == d.type \in {"SENSOR", "MOTION_SENSOR", "ENTRY_SENSOR_E20"}
isWiredDoorbell(d) == d.type = "DOORBELL"
isWiredDoorbellT8200X(d) == d.type = "DOORBELL" /\ d.sn = "T8200X"
isWiredDoorbellDual(d) == d.type = "DOORBELL_SOLO"
isIndoorCamera(d) ==
  d.type \in
    {"INDOOR_CAMERA", "INDOOR_CAMERA_1080", "INDOOR_PT_CAMERA", "INDOOR_PT_CAMERA_1080",
     "INDOOR_OUTDOOR_CAMERA_1080P", "INDOOR_OUTDOOR_CAMERA_1080P_NO_LIGHT",
     "INDOOR_OUTDOOR_CAMERA_2K", "INDOOR_COST_DOWN_CAMERA", "INDOOR_PT_CAMERA_S350",
     "INDOOR_PT_CAMERA_E30", "INDOOR_PT_CAMERA_C210", "INDOOR_PT_CAMERA_C220",
     "INDOOR_PT_CAMERA_C220_V2"}
isOutdoorPanAndTiltCamera(d) ==
  d.type \in
    {"OUTDOOR_PT_CAMERA", "SOLO_CAMERA_E30", "CAMERA_S4", "SOLOCAM_E42", "CAMERA_4G_S330"}
isIndoorPanAndTiltCameraS350(d) ==
  d.type \in
    {"INDOOR_PT_CAMERA_S350", "INDOOR_PT_CAMERA_E30", "INDOOR_PT_CAMERA_C210",
     "INDOOR_PT_CAMERA_C220", "INDOOR_PT_CAMERA_C220_V2"}
isFloodLight(d) ==
  d.type \in
    {"FLOODLIGHT", "FLOODLIGHT_CAMERA_8422", "FLOODLIGHT_CAMERA_8423", "FLOODLIGHT_CAMERA_8424",
     "FLOODLIGHT_CAMERA_8425", "FLOODLIGHT_CAMERA_8426"}
isFloodLightT8420X(d) == d.type = "FLOODLIGHT" /\ d.sn = "T8420X"
isFloodLightT8425(d) == d.type = "FLOODLIGHT_CAMERA_8425"
isFloodLightT8426(d) == d.type = "FLOODLIGHT_CAMERA_8426"
isWallLightCam(d) == d.type \in {"WALL_LIGHT_CAM", "WALL_LIGHT_CAM_81A0"}
isLockBle(d) == d.type = "LOCK_BLE"
isLockWifiT8510P(d) == d.type = "LOCK_WIFI" /\ d.sn = "T8510P"
isLockWifiT8520P(d) == d.type = "LOCK_WIFI" /\ d.sn = "T8520P"
isLockWifi(d) ==
  /\ d.type = "LOCK_WIFI"
  /\ ~isLockWifiT8510P(d)
  /\ ~isLockWifiT8520P(d)
isLockBleNoFinger(d) == d.type = "LOCK_BLE_NO_FINGER"
isLockWifiNoFinger(d) == d.type = "LOCK_WIFI_NO_FINGER"
isLockWifiR10(d) == d.type = "LOCK_8503"
isLockWifiR20(d) == d.type = "LOCK_8504"
isLockWifiVideo(d) == d.type = "LOCK_8530"
isLockWifiT8506(d) == d.type = "LOCK_8506"
isLockWifiT85V0(d) == d.type = "LOCK_85V0"
isLockWifiT8502(d) == d.type = "LOCK_8502"
isLockWifiT85L0(d) == d.type = "LOCK_85L0"
isLockWifiT8531(d) == d.type = "LOCK_8531"
isLockWifiT85D0(d) == d.type = "LOCK_85D0"
isLockWifiT85P0(d) == d.type = "LOCK_85P0"
isLock(d) ==
  \/ isLockBle(d) \/ isLockWifi([d EXCEPT !.sn = ""]) \/ isLockBleNoFinger(d)
  \/ isLockWifiNoFinger(d) \/ isLockWifiR10(d) \/ isLockWifiR20(d) \/ isLockWifiVideo(d)
  \/ isLockWifiT8506(d) \/ isLockWifiT85V0(d) \/ isLockWifiT8502(d) \/ isLockWifiT85L0(d)
  \/ isLockWifiT8531(d) \/ isLockWifiT85D0(d) \/ isLockWifiT85P0(d)
isBatteryDoorbellDual(d) == d.type \in {"BATTERY_DOORBELL_PLUS", "LOCK_85V0"}
isBatteryDoorbellDualE340(d) == d.type = "BATTERY_DOORBELL_PLUS_E340"
isBatteryDoorbellC30(d) == d.type = "BATTERY_DOORBELL_C30"
isBatteryDoorbellC31(d) == d.type = "BATTERY_DOORBELL_C31"
isBatteryDoorbell(d) ==
  d.type \in
    {"BATTERY_DOORBELL", "BATTERY_DOORBELL_2", "BATTERY_DOORBELL_PLUS",
     "BATTERY_DOORBELL_PLUS_E340", "BATTERY_DOORBELL_C30", "BATTERY_DOORBELL_C31", "LOCK_85V0"}
isSoloCamera(d) == d.type = "SOLO_CAMERA"
isSoloCameraSpotlight1080(d) == d.type = "SOLO_CAMERA_SPOTLIGHT_1080"
isSoloCameraSpotlight2k(d) == d.type = "SOLO_CAMERA_SPOTLIGHT_2K"
isSoloCameraSpotlightSolar(d) == d.type = "SOLO_CAMERA_SPOTLIGHT_SOLAR"
isSoloCameraSolar(d) == d.type = "SOLO_CAMERA_SOLAR"
isSoloCameraC210(d) == d.type = "SOLO_CAMERA_C210"
isCameraC35(d) == d.type = "CAMERA_C35"
isSoloCameraPro(d) == d.type = "SOLO_CAMERA_PRO"
isSoloCameraE30(d) == d.type = "SOLO_CAMERA_E30"
isSoloCamE42(d) == d.type = "SOLOCAM_E42"
isSoloCameras(d) ==
  \/ isSoloCamera(d) \/ isSoloCameraPro(d) \/ isSoloCameraSpotlight1080(d)
  \/ isSoloCameraSpotlight2k(d) \/ isSoloCameraSpotlightSolar(d)
  \/ isOutdoorPanAndTiltCamera(d) \/ isSoloCameraSolar(d) \/ isSoloCameraC210(d)
  \/ isSoloCameraE30(d) \/ isSoloCamE42(d) \/ isCameraC35(d)
isStarlight4GLTE(d) == d.type = "CAMERA_FG"
isIndoorOutdoorCamera1080p(d) == d.type = "INDOOR_OUTDOOR_CAMERA_1080P"
isIndoorOutdoorCamera2k(d) == d.type = "INDOOR_OUTDOOR_CAMERA_2K"
isIndoorCamMini(d) == d.type = "INDOOR_COST_DOWN_CAMERA"
isCamera2C(d) == d.type = "CAMERA2C"
isCamera2CPro(d) == d.type = "CAMERA2C_PRO"
isCamera2(d) == d.type = "CAMERA2"
isCamera2Pro(d) == d.type = "CAMERA2_PRO"
isCameraE40(d) == d.type = "CAMERA_E40"
isCamera2Product(d) ==
  \/ isCamera2(d) \/ isCamera2C(d) \/ isCamera2Pro(d) \/ isCamera2CPro(d) \/ isCameraE40(d)
isCamera3(d) == d.type = "CAMERA3"
isCamera3C(d) == d.type = "CAMERA3C"
isCamera3Pro(d) == d.type = "CAMERA3_PRO"
isCameraProfessional247(d) == d.type = "PROFESSIONAL_247"
isCamera3Product(d) ==
  \/ isCamera3(d) \/ isCamera3C(d) \/ isCameraProfessional247(d) \/ isCamera3Pro(d)
isEntryE20(d) == d.type = "ENTRY_SENSOR_E20"
isEntrySensor(d) == d.type = "SENSOR" \/ isEntryE20(d)
isSmartDrop(d) == d.type = "SMART_DROP"
isSmartSafe(d) ==
  d.type \in
    {"SMART_SAFE_7400", "SMART_SAFE_7401", "SMART_SAFE_7402", "SMART_SAFE_7403"}
isGarageCamera(d) ==
  d.type \in
    {"CAMERA_GARAGE_T8452", "CAMERA_GARAGE_T8453", "CAMERA_GARAGE_T8453_COMMON"}

\* Models that take the commands of the newer lock protocols.
isLockV12(d) == isLockWifiR10(d) \/ isLockWifiR20(d)
isSmartLock(d) ==
  \/ isLockWifiT8506(d) \/ isLockWifiT8502(d) \/ isLockWifiT8510P(d)
  \/ isLockWifiT8520P(d) \/ isLockWifiT85L0(d) \/ isLockWifiT85V0(d) \/ isLockWifiT85P0(d)
==============================================================================
