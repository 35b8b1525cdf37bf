----------------------------- MODULE MCDevices -----------------------------
(* Device occupancy on small instances.                                    *)
EXTENDS DeviceOccupancy
=============================================================================
