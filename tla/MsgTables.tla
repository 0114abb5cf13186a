---------------------------- MODULE MsgTables ----------------------------
(***************************************************************************)
(* Which struct a message id stands for: four independent switches of      *)
(* src/src/ubeacon_driver.c, encode and decode for each direction, written *)
(* out case by case.  Ids carry the names of ubeacon_driver_data.h; where  *)
(* a WRITE_X and its answer X are one id (or ENCRYPT_PARAM_WRITE and       *)
(* ENCRYPT_PARAM) it is called X.                                          *)
(***************************************************************************)

\* The cases of ub_encode_dev_to_user.
EncodeDevToUser ==
  [RESET_PARAM |-> "Empty", RESTART |-> "Restart", FIND |-> "Find",
   ENCRYPT_PARAM |-> "EncryptParam", ANCHOR_POS |-> "AnchorPos",
   GLOBAL_TIME_STATUS |-> "GlobalTimeStatus", PARAM |-> "Param",
   PERIPHERAL_CONFIG |-> "PeripheralConfig",
   HARDWARE_PERIPHERAL_CONFIG |-> "PeripheralConfig",
   FINAL_PERIPHERAL_CONFIG |-> "PeripheralConfig",
   UART_INTERFACE_PARAM |-> "UartInterfaceParam",
   IIC_INTERFACE_PARAM |-> "IicInterfaceParam",
   LOCATION_RESULT |-> "LocationResult", TWR_PARAM |-> "TwrParam",
   TWR_RESULT |-> "TwrResult", HEARTBEAT |-> "Heartbeat",
   UWB_INTERFACE_PARAM |-> "UwbInterfaceParam", USER_DATA |-> "UserData",
   ANCHOR2TAG_SIGNAL |-> "Anchor2TagSignal",
   TAG2ANCHOR_DIS |-> "Tag2AnchorDis", TAG2ANCHOR_PDOA |-> "Tag2AnchorPdoa",
   IMU |-> "Imu", ATTITUDE |-> "Attitude", RUN_TIME_PARAM |-> "RunTimeParam",
   ANCHOR2TAG_DDOA |-> "Anchor2TagDdoa", Z_MEASUREMENT |-> "ZMeasurement",
   STATE_CONTROL |-> "StateControl", MAP_MEASUREMENT |-> "MapMeasurement"]

\* The cases of ub_encode_user_to_dev.
EncodeUserToDev ==
  [READ_PARAM |-> "Empty", READ_PERIPHERAL_CONFIG |-> "Empty",
   READ_HARDWARE_PERIPHERAL_CONFIG |-> "Empty",
   READ_FINAL_PERIPHERAL_CONFIG |-> "Empty",
   READ_UART_INTERFACE_PARAM |-> "Empty",
   READ_IIC_INTERFACE_PARAM |-> "Empty",
   READ_UWB_INTERFACE_PARAM |-> "Empty", READ_TWR_PARAM |-> "Empty",
   READ_RUN_TIME_PARAM |-> "Empty", RESET_PARAM |-> "Empty",
   RESTART |-> "Restart", FIND |-> "Find",
   ENCRYPT_PARAM |-> "EncryptParamWrite", PARAM |-> "Param",
   PERIPHERAL_CONFIG |-> "PeripheralConfig",
   UART_INTERFACE_PARAM |-> "UartInterfaceParam",
   IIC_INTERFACE_PARAM |-> "IicInterfaceParam",
   UWB_INTERFACE_PARAM |-> "UwbInterfaceParam", TWR_PARAM |-> "TwrParam",
   USER_DATA |-> "UserData", RUN_TIME_PARAM |-> "RunTimeParam",
   Z_MEASUREMENT |-> "ZMeasurement", STATE_CONTROL |-> "StateControl",
   MAP_MEASUREMENT |-> "MapMeasurement"]

\* The cases of ub_decode_dev_to_user.
DecodeDevToUser ==
  [RESET_PARAM |-> "Empty", RESTART |-> "Restart", FIND |-> "Find",
   ENCRYPT_PARAM |-> "EncryptParam", ANCHOR_POS |-> "AnchorPos",
   GLOBAL_TIME_STATUS |-> "GlobalTimeStatus", PARAM |-> "Param",
   PERIPHERAL_CONFIG |-> "PeripheralConfig",
   HARDWARE_PERIPHERAL_CONFIG |-> "PeripheralConfig",
   FINAL_PERIPHERAL_CONFIG |-> "PeripheralConfig",
   UART_INTERFACE_PARAM |-> "UartInterfaceParam",
   IIC_INTERFACE_PARAM |-> "IicInterfaceParam",
   LOCATION_RESULT |-> "LocationResult", TWR_PARAM |-> "TwrParam",
   TWR_RESULT |-> "TwrResult", HEARTBEAT |-> "Heartbeat",
   UWB_INTERFACE_PARAM |-> "UwbInterfaceParam", USER_DATA |-> "UserData",
   ANCHOR2TAG_SIGNAL |-> "Anchor2TagSignal",
   TAG2ANCHOR_DIS |-> "Tag2AnchorDis", TAG2ANCHOR_PDOA |-> "Tag2AnchorPdoa",
   IMU |-> "Imu", ATTITUDE |-> "Attitude", RUN_TIME_PARAM |-> "RunTimeParam",
   ANCHOR2TAG_DDOA |-> "Anchor2TagDdoa", Z_MEASUREMENT |-> "ZMeasurement",
   STATE_CONTROL |-> "StateControl", MAP_MEASUREMENT |-> "MapMeasurement"]

\* Mutant: the device decodes with the host's table.
DecodeUserToDevLikeHost == DecodeDevToUser

\* The cases of ub_decode_user_to_dev.
DecodeUserToDev ==
  [READ_PARAM |-> "Empty", READ_PERIPHERAL_CONFIG |-> "Empty",
   READ_HARDWARE_PERIPHERAL_CONFIG |-> "Empty",
   READ_FINAL_PERIPHERAL_CONFIG |-> "Empty",
   READ_UART_INTERFACE_PARAM |-> "Empty",
   READ_IIC_INTERFACE_PARAM |-> "Empty",
   READ_UWB_INTERFACE_PARAM |-> "Empty", READ_TWR_PARAM |-> "Empty",
   READ_RUN_TIME_PARAM |-> "Empty", RESET_PARAM |-> "Empty",
   RESTART |-> "Restart", FIND |-> "Find",
   ENCRYPT_PARAM |-> "EncryptParamWrite", PARAM |-> "Param",
   PERIPHERAL_CONFIG |-> "PeripheralConfig",
   UART_INTERFACE_PARAM |-> "UartInterfaceParam",
   IIC_INTERFACE_PARAM |-> "IicInterfaceParam",
   UWB_INTERFACE_PARAM |-> "UwbInterfaceParam", TWR_PARAM |-> "TwrParam",
   USER_DATA |-> "UserData", RUN_TIME_PARAM |-> "RunTimeParam",
   Z_MEASUREMENT |-> "ZMeasurement", STATE_CONTROL |-> "StateControl",
   MAP_MEASUREMENT |-> "MapMeasurement"]
==============================================================================
