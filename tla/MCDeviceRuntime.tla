-------------------------- MODULE MCDeviceRuntime --------------------------
(* TLC instance of DeviceRuntime; the cfg files give the constants.        *)
EXTENDS DeviceRuntimeInv
==============================================================================
