---------------------------- MODULE LightSetters -----------------------------
(*
 What station.ts sends for the settings of flood lights and wall lights.
*)
EXTENDS SettingCommands

\* A wall light's shade: choosing one also selects it as the active mode.
LightSetting(kind, what) == "DeviceLightSettings" \o kind \o what
Lighting(d, kind, shade) ==
  FirstOf(<<
    Arm(isWallLightCam(d),
        Telling({LightSetting(kind, "LightingActiveMode")},
          Sent(<<"CMD_DOORBELL_SET_PAYLOAD", "CMD_WALL_LIGHT_SETTINGS", kind, shade>>)))>>)
\* Selecting a mode sends the shade stored for it, or a default of its kind.
LightingActiveMode(d, kind) ==
  FirstOf(<<
    Arm(isWallLightCam(d),
        UNION {Telling({LightSetting(kind, shade \o "Lighting")},
                 Sent(<<"CMD_DOORBELL_SET_PAYLOAD", "CMD_WALL_LIGHT_SETTINGS", kind, shade>>)) :
               shade \in {"Daily", "Colored", "Dynamic"}})>>)
switchLight(d) ==
  FirstOf(<<
    Arm(\/ (isFloodLight(d) /\ ~isFloodLightT8425(d) /\ ~isFloodLightT8426(d))
        \/ isSoloCameraSpotlight1080(d) \/ isSoloCameraSpotlight2k(d)
        \/ isSoloCameraSpotlightSolar(d) \/ isCamera2C(d) \/ isCamera2CPro(d)
        \/ isIndoorOutdoorCamera1080p(d) \/ isIndoorOutdoorCamera2k(d) \/ isCamera3(d)
        \/ isCamera3C(d) \/ isCameraProfessional247(d) \/ isCamera3Pro(d)
        \/ (isCameraC35(d) /\ isDeviceControlledByHomeBase(d)),
        Plain("CMD_SET_FLOODLIGHT_MANUAL_SWITCH")),
    Arm(\/ isBatteryDoorbellDualE340(d) \/ isOutdoorPanAndTiltCamera(d) \/ isFloodLightT8425(d)
        \/ isFloodLightT8426(d) \/ isStarlight4GLTE(d) \/ isWallLightCam(d)
        \/ (isCameraC35(d) /\ ~isDeviceControlledByHomeBase(d)),
        Doorbell("CMD_SET_FLOODLIGHT_MANUAL_SWITCH"))>>)
setFloodlightLightSettingsEnable(d) == Plain("CMD_SET_FLOODLIGHT_TOTAL_SWITCH")
setFloodlightLightSettingsBrightnessManual(d) ==
  FirstOf(<<
    Arm(\/ isFloodLight(d) \/ isSoloCameraSpotlight1080(d) \/ isSoloCameraSpotlight2k(d)
        \/ isSoloCameraSpotlightSolar(d) \/ isCamera2C(d) \/ isCamera2CPro(d)
        \/ isIndoorOutdoorCamera1080p(d) \/ isIndoorOutdoorCamera2k(d) \/ isCamera3(d)
        \/ isCamera3C(d) \/ isCamera3Pro(d) \/ isOutdoorPanAndTiltCamera(d)
        \/ isCameraProfessional247(d)
        \/ isCameraC35(d), Plain("CMD_SET_FLOODLIGHT_BRIGHT_VALUE")),
    Arm(isWallLightCam(d), Doorbell("CMD_SET_FLOODLIGHT_BRIGHT_VALUE"))>>)
setFloodlightLightSettingsBrightnessMotion(d) ==
  FirstOf(<<
    Arm(isFloodLightT8425(d), RecordOf(d, "CMD_SET_LIGHT_CTRL_BRIGHT_PIR_T8425")),
    Arm(isFloodLight(d), Plain("CMD_SET_LIGHT_CTRL_BRIGHT_PIR")),
    Arm(isWallLightCam(d), Doorbell("CMD_SET_LIGHT_CTRL_BRIGHT_PIR"))>>)
setFloodlightLightSettingsBrightnessSchedule(d) ==
  FirstOf(<<
    Arm(isFloodLightT8425(d), Payload("CMD_SET_LIGHT_CTRL_BRIGHT_SCH_T8425")),
    Arm(isFloodLight(d), Plain("CMD_SET_LIGHT_CTRL_BRIGHT_SCH")),
    Arm(isWallLightCam(d), Doorbell("CMD_SET_LIGHT_CTRL_BRIGHT_SCH"))>>)
setFloodlightLightSettingsMotionTriggered(d) ==
  FirstOf(<<
    Arm(isFloodLightT8425(d)
        \/ isCameraC35(d), RecordOf(d, "CMD_SET_LIGHT_CTRL_BRIGHT_PIR_T8425")),
    Arm(isFloodLight(d), Plain("CMD_SET_LIGHT_CTRL_PIR_SWITCH")),
    Arm(isWallLightCam(d), Doorbell("CMD_SET_LIGHT_CTRL_PIR_SWITCH"))>>)
setFloodlightLightSettingsMotionTriggeredDistance(d) == Plain("CMD_SET_PIRSENSITIVITY")
setFloodlightLightSettingsMotionTriggeredTimer(d) ==
  FirstOf(<<
    Arm(isFloodLightT8425(d), RecordOf(d, "CMD_SET_LIGHT_CTRL_BRIGHT_PIR_T8425")),
    Arm(isFloodLight(d), Plain("CMD_SET_LIGHT_CTRL_PIR_TIME")),
    Arm(isWallLightCam(d), Doorbell("CMD_SET_LIGHT_CTRL_PIR_TIME"))>>)
setLightSettingsColorTemperatureManual(d) ==
  FirstOf(<<
    Arm(d.type = "FLOODLIGHT_CAMERA_8423",
        Doorbell("CMD_FLOODLIGHT_SET_LIGHT_COLOR_TEMP_MANUAL"))>>)
setLightSettingsColorTemperatureMotion(d) ==
  FirstOf(<<
    Arm(d.type = "FLOODLIGHT_CAMERA_8423",
        Doorbell("CMD_FLOODLIGHT_SET_LIGHT_COLOR_TEMP_MOTION"))>>)
setLightSettingsColorTemperatureSchedule(d) ==
  FirstOf(<<
    Arm(d.type = "FLOODLIGHT_CAMERA_8423",
        Doorbell("CMD_FLOODLIGHT_SET_LIGHT_COLOR_TEMP_SCHEDULE"))>>)
setLightSettingsMotionActivationMode(d) ==
  FirstOf(<<
    Arm(isFloodLightT8425(d), RecordOf(d, "CMD_SET_LIGHT_CTRL_BRIGHT_PIR_T8425")),
    Arm(d.type = "FLOODLIGHT_CAMERA_8423", Plain("CMD_SET_FLOODLIGHT_STREET_LAMP")),
    Arm(isWallLightCam(d), Doorbell("CMD_SET_FLOODLIGHT_STREET_LAMP"))>>)
setLightSettingsManualLightingActiveMode(d) == LightingActiveMode(d, "Manual")
setLightSettingsManualDailyLighting(d) == Lighting(d, "Manual", "Daily")
setLightSettingsManualColoredLighting(d) == Lighting(d, "Manual", "Colored")
setLightSettingsManualDynamicLighting(d) == Lighting(d, "Manual", "Dynamic")
setLightSettingsMotionLightingActiveMode(d) == LightingActiveMode(d, "Motion")
setLightSettingsMotionDailyLighting(d) == Lighting(d, "Motion", "Daily")
setLightSettingsMotionColoredLighting(d) == Lighting(d, "Motion", "Colored")
setLightSettingsMotionDynamicLighting(d) == Lighting(d, "Motion", "Dynamic")
setLightSettingsScheduleLightingActiveMode(d) == LightingActiveMode(d, "Schedule")
setLightSettingsScheduleDailyLighting(d) == Lighting(d, "Schedule", "Daily")
setLightSettingsScheduleColoredLighting(d) == Lighting(d, "Schedule", "Colored")
setLightSettingsScheduleDynamicLighting(d) == Lighting(d, "Schedule", "Dynamic")
setLightSettingsColoredLightingColors(d) ==
  FirstOf(<<
    Arm(isWallLightCam(d), Doorbell("CMD_WALL_LIGHT_SETTINGS_COLORED_LIGHTING_COLORS"))>>)
setLightSettingsDynamicLightingThemes(d) ==
  FirstOf(<<
    Arm(isWallLightCam(d), Doorbell("CMD_WALL_LIGHT_SETTINGS_DYNAMIC_LIGHTING_THEMES"))>>)
==============================================================================
