---------------------------- MODULE MCDeviceGrant ----------------------------
(* Instances of DeviceGrant for TLC. *)
EXTENDS DeviceGrant, TLC

Symmetry == Permutations(Device) \cup Permutations(Client) \cup Permutations(User)
                \cup Permutations(Decider)
==============================================================================
