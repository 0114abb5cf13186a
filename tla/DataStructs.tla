---------------------------- MODULE DataStructs ----------------------------
(***************************************************************************)
(* The structs an application sees, UBData* of                             *)
(* include/ubeacon_driver_data.h: for each member how many values it       *)
(* holds, 1 unless it is an array; for a struct with "datas" or "payload"  *)
(* how many elements that has and the members of one.  Counts of elements  *)
(* are not listed: an element is there or it is not.                       *)
(***************************************************************************)
EXTENDS Naturals, TLC

Single(names) == [m \in names |-> 1]
Array(m, n)   == m :> n

Members(head) == [head |-> head, max |-> 0, item |-> Single({})]

ParamData ==
  [Restart |-> Members(Single({"delay", "only_restart_when_need"})),
   Find |-> Members(Single({"duration"})),
   EncryptParamWrite |-> Members(Array("new_key", 16)),
   EncryptParam |->
     Members(Single({"success", "too_frequent"}) @@ Array("key", 16)),
   Param |->
     Members(Single({"expect_z", "z_noise", "smooth_window", "output_tag_pos",
                     "output_anchor_packet", "output_anchor_pos",
                     "output_anchor_link_data", "output_anchor_signal",
                     "output_anchor_ddoa", "output_tag_pos_even_error",
                     "output_anchor_link_status", "output_imu",
                     "output_attitude", "output_dis", "output_pdoa",
                     "sniff_duty_cycle", "update_interval_max",
                     "reset_interval", "min_sync_anchor_count",
                     "min_sniff_duty_cycle", "static_map_id"})
             @@ Array("max_acceleration", 3)),
   RunTimeParam |-> Members(Single({"sniff_duty_cycle"})),
   LocationResult |->
     Members(Single({"local_time_us", "map_id", "error_code", "area_id"})
             @@ Array("pos", 3) @@ Array("vel", 3)
             @@ Array("pos_noise", 3) @@ Array("vel_noise", 3))]

DeviceData ==
  [PeripheralConfig |->
     Members(Single({"uart", "iic", "uwb", "ble", "four_g", "priority", "motor",
                     "bee", "key", "motion", "battery", "battery_chargeable",
                     "baro", "imu", "gnss"})),
   UartInterfaceParam |-> Members(Single({"baudrate"})),
   IicInterfaceParam |-> Members(Single({"addr"})),
   UwbInterfaceParam |->
     Members(Single({"random_window_ms", "max_rx_interval_ms",
                     "min_tx_interval_ms"})),
   TwrParam |->
     Members(Single({"dis_frequency", "dis_slot_count_max",
                     "dis_remain_slot_count"})),
   TwrResult |-> Members(Single({"peer", "dis", "clock_offset_ppm"})),
   Heartbeat |->
     Members(Single({"battery_percent", "battery_charging", "need_restart",
                     "reset_info_dirty", "assert_info_dirty", "restart_cnt",
                     "user_request_sleep", "hardware_enabled_motion",
                     "hardware_enabled_uart", "hardware_enabled_iic",
                     "hardware_enabled_uwb", "hardware_enabled_ble",
                     "hardware_enabled_four_g", "hardware_enabled_baro",
                     "hardware_enabled_imu", "hardware_enabled_gnss",
                     "firmware_series", "battery_voltage",
                     "recent_rx_sts_error_occurred",
                     "recent_rx_data_error_occurred",
                     "recent_global_time_error_occurred",
                     "recent_peer_global_time_error_occurred",
                     "recent_peer_local_time_error_occurred",
                     "rtos_warn", "mcu_warn", "uwb_warn"})
             @@ Array("firmware_version", 4) @@ Array("uid", 6)),
   UserData |->
     [head |-> Single({}), max |-> 64, item |-> Single({"payload"})]]

MeasurementData ==
  [Anchor2TagDdoa |->
     [head |-> Single({"begin_time_us", "group_count", "group_index"}),
      max |-> 10, item |-> Single({"a0", "a1", "ddoa"})],
   Anchor2TagSignal |->
     [head |-> Single({"begin_time_us", "location_mode"}), max |-> 9,
      item |-> Single({"addr", "rx_rssi", "fp_rssi", "uwb_clock_offset_ppm",
                       "mcu_clock_offset_ppm", "rx_rate"})],
   Tag2AnchorDis |->
     [head |-> Single({"begin_time_us"}), max |-> 9,
      item |-> Single({"addr", "dis"})],
   Tag2AnchorPdoa |->
     [head |-> Single({"begin_time_us"}), max |-> 9,
      item |-> Single({"addr", "antenna_type"}) @@ Array("pdoas", 4)],
   Imu |->
     Members(Single({"local_time_us"}) @@ Array("gyro", 3) @@ Array("acc", 3)),
   Attitude |->
     Members(Single({"local_time_us"}) @@ Array("q", 4) @@ Array("noise", 3)),
   ZMeasurement |-> Members(Single({"z", "z_std", "timeout"})),
   StateControl |-> Members(Single({"sleep"})),
   MapMeasurement |-> Members(Single({"map_id", "timeout"})),
   GlobalTimeStatus |->
     Members(Single({"run", "timeout", "ttl", "time_us", "src"})),
   AnchorPos |->
     Members(Single({"local_time_us", "src", "is_local_pos", "map_id",
                     "relative_map_z"})
             @@ Array("pos", 3))]

UBData == ParamData @@ DeviceData @@ MeasurementData
==============================================================================
