----------------------------- MODULE Ros2Handle -----------------------------
(***************************************************************************)
(* The ROS 2 converter's tables (app/ros2_converter/ros2_data_handle.cpp): *)
(* the topics of its constructor, what each dispatch publishes and what    *)
(* each subscriber sends.                                                  *)
(***************************************************************************)
EXTENDS RosCopies, TLC

Advertised ==
  {"location_result", "location_result_pose", "heartbeat", "anchor2tag_signal",
   "tag2anchor_dis", "tag2anchor_pdoa", "imu", "attitude", "anchor2tag_ddoa",
   "anchor_pos", "global_time_status", "user_data_from_device", "param",
   "run_time_param", "peripheral_config", "hardware_peripheral_config",
   "final_peripheral_config", "uart_interface_param", "iic_interface_param",
   "uwb_interface_param", "twr_param", "twr_result", "encrypt_param"}

Subscribed ==
  {"find", "restart", "encrypt_param_write", "state_control", "z_measurement",
   "map_measurement", "user_data_to_device", "param_read", "param_write",
   "run_time_param_read", "run_time_param_write", "peripheral_config_read",
   "peripheral_config_write", "hardware_peripheral_config_read",
   "final_peripheral_config_read", "uart_interface_param_read",
   "iic_interface_param_read", "uwb_interface_param_read", "twr_param_read"}
-----------------------------------------------------------------------------
\* The messages dispatch publishes of a struct.
DispatchTag ==
  [LocationResult |->
     {Message("location_result",
        Own({"local_time_us", "map_id", "error_code", "area_id"})
        \cup Loop(3, {"pos", "vel", "pos_noise", "vel_noise"}), {}),
      Message("location_result_pose", {Copy("position", "pos", 3)}, {})},
   Heartbeat |->
     {Message("heartbeat",
        Own({"battery_percent", "battery_charging", "need_restart",
             "reset_info_dirty", "assert_info_dirty", "restart_cnt",
             "user_request_sleep", "hardware_enabled_motion",
             "hardware_enabled_uart", "hardware_enabled_iic",
             "hardware_enabled_uwb", "hardware_enabled_ble",
             "hardware_enabled_four_g", "hardware_enabled_baro",
             "hardware_enabled_imu", "hardware_enabled_gnss",
             "firmware_series", "battery_voltage",
             "recent_rx_sts_error_occurred", "recent_rx_data_error_occurred",
             "recent_global_time_error_occurred",
             "recent_peer_global_time_error_occurred",
             "recent_peer_local_time_error_occurred", "rtos_warn", "mcu_warn",
             "uwb_warn"})
        \cup Loop(4, {"firmware_version"}) \cup Loop(6, {"uid"}), {})},
   Anchor2TagSignal |->
     {Message("anchor2tag_signal", Own({"begin_time_us", "location_mode"}),
        Own({"addr", "rx_rssi", "fp_rssi", "uwb_clock_offset_ppm",
             "mcu_clock_offset_ppm", "rx_rate"}))},
   Tag2AnchorDis |->
     {Message("tag2anchor_dis", Own({"begin_time_us"}), Own({"addr", "dis"}))}]

DispatchSensors ==
  [Tag2AnchorPdoa |->
     {Message("tag2anchor_pdoa", Own({"begin_time_us"}),
        Own({"addr", "antenna_type"}) \cup Assign({"pdoas"}))},
   Anchor2TagDdoa |->
     {Message("anchor2tag_ddoa",
        Own({"begin_time_us", "group_count", "group_index"}),
        Own({"a0", "a1", "ddoa"}))},
   AnchorPos |->
     {Message("anchor_pos",
        Own({"local_time_us", "src", "is_local_pos", "map_id", "relative_map_z"})
        \cup Loop(3, {"pos"}), {})},
   GlobalTimeStatus |->
     {Message("global_time_status",
        Own({"run", "timeout", "ttl", "time_us", "src"}), {})},
   UserData |-> {Message("user_data_from_device", {}, Own({"payload"}))},
   Imu |->
     {Message("imu", Own({"local_time_us"}) \cup Loop(3, {"gyro", "acc"}), {})},
   Attitude |->
     {Message("attitude",
        Own({"local_time_us"}) \cup Loop(4, {"q"}) \cup Loop(3, {"noise"}), {})}]

DispatchParams ==
  [Param |->
     {Message("param",
        Own({"expect_z", "z_noise", "smooth_window", "output_tag_pos",
             "output_anchor_packet", "output_anchor_pos",
             "output_anchor_link_data", "output_anchor_signal",
             "output_anchor_ddoa", "output_tag_pos_even_error",
             "output_anchor_link_status", "output_imu", "output_attitude",
             "output_dis", "output_pdoa", "sniff_duty_cycle",
             "update_interval_max", "reset_interval", "min_sync_anchor_count",
             "min_sniff_duty_cycle", "static_map_id"})
        \cup Loop(3, {"max_acceleration"}), {})},
   RunTimeParam |-> {Message("run_time_param", Own({"sniff_duty_cycle"}), {})},
   PeripheralConfig |->
     {Message("peripheral_config",
        Own({"uart", "iic", "uwb", "ble", "four_g", "priority", "motor", "bee",
             "key", "motion", "battery", "battery_chargeable", "baro", "imu",
             "gnss"}), {})},
   UartInterfaceParam |->
     {Message("uart_interface_param", Own({"baudrate"}), {})},
   IicInterfaceParam |-> {Message("iic_interface_param", Own({"addr"}), {})},
   UwbInterfaceParam |->
     {Message("uwb_interface_param",
        Own({"random_window_ms", "max_rx_interval_ms", "min_tx_interval_ms"}),
        {})},
   TwrParam |->
     {Message("twr_param",
        Own({"dis_frequency", "dis_slot_count_max", "dis_remain_slot_count"}),
        {})},
   TwrResult |->
     {Message("twr_result", Own({"peer", "dis", "clock_offset_ppm"}), {})},
   EncryptParam |->
     {Message("encrypt_param",
        Own({"success", "too_frequent"}) \cup Loop(16, {"key"}), {})}]

\* Mutant: the id is not looked at.
PeripheralTopicOne(id) == "peripheral_config"

\* One struct, three topics: the message id decides.
PeripheralTopic(id) ==
  CASE id = "HARDWARE_PERIPHERAL_CONFIG" -> "hardware_peripheral_config"
    [] id = "FINAL_PERIPHERAL_CONFIG"    -> "final_peripheral_config"
    [] OTHER                             -> "peripheral_config"

Dispatch(id, struct) ==
  IF struct = "PeripheralConfig"
  THEN {[m EXCEPT !.topic = PeripheralTopic(id)] : m \in DispatchParams[struct]}
  ELSE (DispatchTag @@ DispatchSensors @@ DispatchParams)[struct]

\* The struct on_frame_msg takes a message's data for; of other ids nothing
\* is made.
OnFrameMsg ==
  [LOCATION_RESULT |-> "LocationResult", HEARTBEAT |-> "Heartbeat",
   ANCHOR2TAG_SIGNAL |-> "Anchor2TagSignal", TAG2ANCHOR_DIS |-> "Tag2AnchorDis",
   TAG2ANCHOR_PDOA |-> "Tag2AnchorPdoa", IMU |-> "Imu", ATTITUDE |-> "Attitude",
   ANCHOR2TAG_DDOA |-> "Anchor2TagDdoa", ANCHOR_POS |-> "AnchorPos",
   GLOBAL_TIME_STATUS |-> "GlobalTimeStatus", USER_DATA |-> "UserData",
   PARAM |-> "Param", RUN_TIME_PARAM |-> "RunTimeParam",
   PERIPHERAL_CONFIG |-> "PeripheralConfig",
   HARDWARE_PERIPHERAL_CONFIG |-> "PeripheralConfig",
   FINAL_PERIPHERAL_CONFIG |-> "PeripheralConfig",
   UART_INTERFACE_PARAM |-> "UartInterfaceParam",
   IIC_INTERFACE_PARAM |-> "IicInterfaceParam",
   UWB_INTERFACE_PARAM |-> "UwbInterfaceParam", TWR_PARAM |-> "TwrParam",
   TWR_RESULT |-> "TwrResult", ENCRYPT_PARAM |-> "EncryptParam"]
-----------------------------------------------------------------------------
\* The subscribers; std::min and copy_n take at most 64 bytes of user data.
CommandTopics ==
  [find |-> Command("FIND", "Find", Own({"duration"}), {}),
   restart |->
     Command("RESTART", "Restart", Own({"delay", "only_restart_when_need"}), {}),
   encrypt_param_write |->
     Command("ENCRYPT_PARAM", "EncryptParamWrite", Loop(16, {"new_key"}), {}),
   state_control |->
     Command("STATE_CONTROL", "StateControl", Own({"sleep"}), {}),
   z_measurement |->
     Command("Z_MEASUREMENT", "ZMeasurement", Own({"z", "z_std", "timeout"}), {}),
   map_measurement |->
     Command("MAP_MEASUREMENT", "MapMeasurement", Own({"map_id", "timeout"}), {}),
   user_data_to_device |->
     Command("USER_DATA", "UserData", {}, Own({"payload"}))]

ParamTopics ==
  [param_read |-> Ask("READ_PARAM"),
   param_write |->
     Command("PARAM", "Param",
       Own({"expect_z", "z_noise", "smooth_window", "output_tag_pos",
            "output_anchor_packet", "output_anchor_pos",
            "output_anchor_link_data", "output_anchor_signal",
            "output_anchor_ddoa", "output_tag_pos_even_error",
            "output_anchor_link_status", "output_imu", "output_attitude",
            "output_dis", "output_pdoa", "sniff_duty_cycle",
            "update_interval_max", "reset_interval", "min_sync_anchor_count",
            "min_sniff_duty_cycle", "static_map_id"})
       \cup Loop(3, {"max_acceleration"}), {}),
   run_time_param_read |-> Ask("READ_RUN_TIME_PARAM"),
   run_time_param_write |->
     Command("RUN_TIME_PARAM", "RunTimeParam", Own({"sniff_duty_cycle"}), {}),
   peripheral_config_read |-> Ask("READ_PERIPHERAL_CONFIG"),
   peripheral_config_write |->
     Command("PERIPHERAL_CONFIG", "PeripheralConfig",
       Own({"uart", "iic", "uwb", "ble", "four_g", "priority", "motor", "bee",
            "key", "motion", "battery", "battery_chargeable", "baro", "imu",
            "gnss"}), {}),
   hardware_peripheral_config_read |-> Ask("READ_HARDWARE_PERIPHERAL_CONFIG"),
   final_peripheral_config_read |-> Ask("READ_FINAL_PERIPHERAL_CONFIG"),
   uart_interface_param_read |-> Ask("READ_UART_INTERFACE_PARAM"),
   iic_interface_param_read |-> Ask("READ_IIC_INTERFACE_PARAM"),
   uwb_interface_param_read |-> Ask("READ_UWB_INTERFACE_PARAM"),
   twr_param_read |-> Ask("READ_TWR_PARAM")]

Commands == CommandTopics @@ ParamTopics
==============================================================================
