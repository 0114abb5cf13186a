---------------------------- MODULE WireStructs ----------------------------
(***************************************************************************)
(* The structs of the wire (UBRawData* of ubeacon_driver_data_raw.h): the  *)
(* fields of a head, in the order of their bits, and for those of variable *)
(* length the fields of one element, repeated up to max times.  An element *)
(* counts as present below the head's count field; tag2anchor_pdoa has a   *)
(* second count, of the pdoas within an element.                           *)
(***************************************************************************)
EXTENDS WireFields, FiniteSets

Time == Plain("local_time_us", 64)
Begin == Plain("begin_time_us", 64)
Addr == Plain("addr", 16)
Floats(n, name) == Times(n, Plain(name, 32))

\* start[i]: the bit at which field i begins; start[Len + 1]: the bits of all.
Starts(fields) ==
  LET start[i \in 1 .. Len(fields) + 1] ==
        IF i = 1 THEN 0 ELSE start[i - 1] + fields[i - 1].bits
  IN  start

Struct(head, max, item) ==
  [head |-> head, max |-> max, item |-> item,
   headAt |-> Starts(head), itemAt |-> Starts(item)]

Fixed(head) == Struct(head, 0, <<>>)

HeadBits(s) == s.headAt[Len(s.head) + 1]
ItemBits(s) == s.itemAt[Len(s.item) + 1]

\* sizeof, or the offsetof the elements.
HeadBytes(s) == (HeadBits(s) + 7) \div 8
ItemBytes(s) == ItemBits(s) \div 8

Restart == Fixed(<<Plain("delay", 8), Flag("only_restart_when_need")>>)

Find == Fixed(<<Plain("duration", 8)>>)

EncryptParamWrite ==
  Fixed(Times(16, Pad(8)) \o Times(16, Plain("new_key", 8)))

EncryptParam ==
  Fixed(Flags(<<"success", "too_frequent">>) \o <<Pad(6)>>
        \o Times(16, Plain("key", 8)))

\* Hidden fields go out as the firmware's defaults: 0 stands for most of them,
\* 1.0f (here 1) and 1 are given for the two the firmware has no rule for.
Param == Fixed(
  <<Hidden("expect_location_frequency", 32, 1), Plain("expect_z", 32),
    Scaled("z_noise", 8), Masked("smooth_window", 4), Pad(4)>>
  \o Times(3, Scaled("max_acceleration", 8))
  \o Flags(<<"output_tag_pos", "output_anchor_packet", "output_anchor_pos",
             "output_anchor_link_data", "output_anchor_signal",
             "output_anchor_ddoa", "output_tag_pos_even_error",
             "output_anchor_link_status">>)
  \o <<Plain("sniff_duty_cycle", 8), Plain("update_interval_max", 8),
       Plain("reset_interval", 16), Plain("min_sync_anchor_count", 8),
       Plain("min_sniff_duty_cycle", 8)>>
  \o Times(5, Hidden("arg0..map_switch_window", 8, 0))
  \o <<Hidden("locate_with_all_maps", 1, 1), Hidden("deprecated", 1, 0),
       Pad(6), Plain("static_map_id", 8), Hidden("output_delay_ms", 8, 0)>>
  \o Flags(<<"output_imu", "output_attitude", "output_dis", "output_pdoa">>))

RunTimeParam == Fixed(<<Plain("sniff_duty_cycle", 8)>>)

LocationResult == Fixed(
  <<Time>> \o Floats(3, "pos") \o Times(3, Signed("vel", 16))
  \o Times(3, Scaled("pos_noise", 8)) \o Times(3, Scaled("vel_noise", 8))
  \o <<Plain("map_id", 8), Masked("error_code", 4), Masked("area_id", 4)>>)

PeripheralConfig == Fixed(
  Flags(<<"uart", "iic", "uwb", "ble", "four_g", "motor", "bee", "priority",
          "key", "motion", "battery", "battery_chargeable">>)
  \o <<Pad(1)>> \o Flags(<<"baro", "imu", "gnss">>))

UartInterfaceParam == Fixed(<<Plain("baudrate", 32)>>)

IicInterfaceParam == Fixed(<<Masked("addr", 7)>>)

UwbInterfaceParam == Fixed(
  <<Pad(16), Ratio("max_rx_interval_ms", 8, 50),
    Plain("min_tx_interval_ms", 16), Pad(16), Plain("random_window_ms", 16)>>)

TwrParam == Fixed(
  <<Plain("dis_frequency", 32), Plain("dis_slot_count_max", 8),
    Plain("dis_remain_slot_count", 8)>>)

TwrResult == Fixed(
  <<Plain("peer", 16), Signed("dis", 16), Signed("clock_offset_ppm", 16)>>)

Heartbeat == Fixed(
  <<Masked("battery_percent", 7)>>
  \o Flags(<<"battery_charging", "need_restart", "reset_info_dirty",
             "assert_info_dirty">>)
  \o <<Masked("restart_cnt", 3)>>
  \o Flags(<<"user_request_sleep", "hardware_enabled_motion",
             "hardware_enabled_uart", "hardware_enabled_iic",
             "hardware_enabled_uwb", "hardware_enabled_ble",
             "hardware_enabled_four_g", "hardware_enabled_baro",
             "hardware_enabled_imu", "hardware_enabled_gnss">>)
  \o <<Plain("firmware_series", 8)>> \o Times(4, Plain("firmware_version", 8))
  \o Times(6, Plain("uid", 8)) \o <<Scaled("battery_voltage", 8)>>
  \o Flags(<<"recent_rx_sts_error_occurred", "recent_rx_data_error_occurred",
             "recent_global_time_error_occurred",
             "recent_peer_global_time_error_occurred",
             "recent_peer_local_time_error_occurred", "rtos_warn", "mcu_warn",
             "uwb_warn">>))

UserData ==
  Struct(<<Pad(8), Count("payload_size", 8, 64)>>, 64, <<Plain("payload", 8)>>)

Anchor2TagDdoa == Struct(
  <<Begin, Masked("group_count", 4), Masked("group_index", 4),
    Count("count", 8, 10)>>,
  10, <<Plain("a0", 16), Plain("a1", 16), Signed("ddoa", 16)>>)

Anchor2TagSignal == Struct(
  <<Begin, Pad(8), Count("count", 4, 9), Masked("location_mode", 4)>>,
  9, <<Addr, Scaled("rx_rssi", 8), Scaled("fp_rssi", 8),
       Ppm("uwb_clock_offset_ppm"), Ppm("mcu_clock_offset_ppm"),
       Scaled("rx_rate", 8)>>)

Tag2AnchorDis == Struct(
  <<Begin, Pad(8), Count("count", 4, 9), Pad(4)>>,
  9, <<Addr, Signed("dis", 16)>>)

Tag2AnchorPdoa == Struct(
  <<Begin, Pad(8), Count("count", 4, 9), Pad(4)>>,
  9, <<Addr, Masked("antenna_type", 4), Count("pdoa_count", 4, 4)>>
     \o Times(4, Signed("pdoas", 16)))

Imu == Fixed(<<Time>> \o Floats(3, "gyro") \o Floats(3, "acc"))

Attitude == Fixed(<<Time>> \o Floats(4, "q") \o Floats(3, "noise"))

ZMeasurement ==
  Fixed(<<Signed("z", 32), Scaled("z_std", 8), Plain("timeout", 8)>>)

StateControl == Fixed(<<Flag("sleep")>>)

MapMeasurement == Fixed(<<Plain("map_id", 8), Plain("timeout", 8)>>)

GlobalTimeStatus == Fixed(
  <<Flag("run"), Masked("timeout", 7), Masked("ttl", 6), Pad(2),
    Masked("time_us", 56), Plain("src", 16)>>)

AnchorPos == Fixed(
  <<Time, Plain("src", 16)>> \o Times(3, Signed("pos", 32))
  \o <<Flag("is_local_pos"), Pad(7), Plain("map_id", 8),
       Signed("relative_map_z", 16)>>)

\* A message without payload.
Empty == Fixed(<<>>)
-----------------------------------------------------------------------------
\* The value of the count field of a head or of an element, or all of them.
CountOf(fields, values, all) ==
  IF \E i \in DOMAIN fields : fields[i].kind = "count"
  THEN values[CHOOSE i \in DOMAIN fields : fields[i].kind = "count"]
  ELSE all

CountIndex(fields) == {i \in DOMAIN fields : fields[i].kind = "count"}

\* pdoas[j] of an element whose pdoa_count is at most j is neither sent nor read.
Live(fields, values, i) ==
  \A c \in CountIndex(fields) :
    i > c => i - c <= ub_min_int(values[c], fields[c].arg)
==============================================================================
