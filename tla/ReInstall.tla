------------------------------ MODULE ReInstall ------------------------------
(***************************************************************************)
(* MetalClient.ReInstallDevice: pkg/equinix.  Instance takes it for one    *)
(* step; here it is the sequence of API calls it is made of.  The device   *)
(* is read once, its ports are converted and given their VLANs one call    *)
(* at a time, then it gets the script and the cloud-init that install      *)
(* Harvester, and is reinstalled.  Whatever fails ends the pass, and the   *)
(* retry goes through everything again, on ports that are half converted   *)
(* and with a new reading of them.                                         *)
(*                                                                         *)
(* The loops run over Go maps and over slices; either way a round takes    *)
(* its ports in any order here.                                            *)
(***************************************************************************)
EXTENDS Naturals, Sequences, FiniteSets

CONSTANTS
  Eths, Bonds,   \* the device's physical ports and its bond ports
  Bond0,         \* bondPorts["bond0"]
  Odd,           \* those of eth1, eth3, eth5, eth7, eth9 that it has
  Configs,       \* what may be given: an Instance's spec and a way of Equinix's
  MaxFaults      \* how many calls may fail otherwise

Ports == Eths \cup Bonds
Calls == {"bond", "disbond", "disbondAll", "layer2", "layer3", "assign"}

ASSUME ConstantsAssumption ==
  /\ Eths \cap Bonds = {} /\ IsFiniteSet(Ports)
  /\ Bond0 \in Bonds /\ Odd \subseteq Eths
  /\ \A c \in Configs : c.refuses \subseteq Calls
  /\ MaxFaults \in Nat

VARIABLES
  config,      \* the Instance's spec: type, vlans, management, userData; and
               \* refuses: what Equinix refuses if there is nothing to change
  bonded,      \* the physical ports that are in a bond
  layer2,      \* the bond ports that are converted to layer 2
  assigned,    \* the VLANs of each port, as pairs <<port, vlan>>
  boot,        \* the device's iPXE script, the ports its cloud-init names, and
               \* (for the properties) what the pass that wrote them had seen
  pass,        \* the worker's pass through ReInstallDevice, or Idle
  reported,    \* status "reinstalling" is stored: nobody comes back
  faults       \* number of calls that have failed

equinix == <<bonded, layer2, assigned, boot>>
vars == <<config, equinix, pass, reported, faults>>

(* at: where the pass is; round: how many loops of ConvertDevice are over; *)
(* left: what the current loop has still to do; seen: the ports for which  *)
(* the device that was read says DisbondOperationSupported.                *)
Stages == {"idle", "convert", "vlans", "update", "reinstall", "report"}
Idle == [at |-> "idle", round |-> 0, left |-> {}, seen |-> {}]

(* A new device is in layer 3, all its ports bonded, and boots a shell.    *)
Init ==
  /\ config \in Configs
  /\ bonded = Eths /\ layer2 = {} /\ assigned = {}
  /\ boot = [script |-> "shell", interfaces |-> {}, seen |-> {}]
  /\ pass = Idle /\ reported = FALSE /\ faults = 0

At(stage) == pass.at = stage

(***************************************************************************)
(* The calls of the ports service, as Equinix carries them out.  What      *)
(* bonding a bond port does to its ports, and which ports a bulk disbond   *)
(* takes along, is left open.                                              *)
(***************************************************************************)
Bond(p) ==
  /\ \E s \in IF p \in Eths THEN {{p}} ELSE SUBSET Eths : bonded' = bonded \cup s
  /\ UNCHANGED layer2

Disbond(p, bulk) ==
  /\ \E s \in IF bulk THEN SUBSET Eths ELSE {{}} : bonded' = bonded \ ({p} \cup s)
  /\ UNCHANGED layer2

ConvertToLayerTwo(p) == layer2' = layer2 \cup {p} /\ UNCHANGED bonded
ConvertToLayerThree(p) == layer2' = layer2 \ {p} /\ UNCHANGED bonded

AlwaysInBulk(call, p) ==
  \/ call = "bond" /\ Bond(p)
  \/ call \in {"disbond", "disbondAll"} /\ Disbond(p, TRUE)
  \/ call = "layer2" /\ ConvertToLayerTwo(p)
  \/ call = "layer3" /\ ConvertToLayerThree(p)

PortCall(call, p) ==
  \/ call = "bond" /\ Bond(p)
  \/ call = "disbond" /\ Disbond(p, FALSE)
  \/ call = "disbondAll" /\ Disbond(p, TRUE)
  \/ call = "layer2" /\ ConvertToLayerTwo(p)
  \/ call = "layer3" /\ ConvertToLayerThree(p)

(* What the call is made for.                                              *)
Reached(call, p) ==
  CASE call = "bond" -> p \in Eths => p \in bonded
    [] call \in {"disbond", "disbondAll"} -> p \notin bonded
    [] call = "layer2" -> p \in layer2
    [] call = "layer3" -> p \notin layer2

(***************************************************************************)
(* ConvertDevice: the loops of each network type.                          *)
(***************************************************************************)
ValidTypes ==
  {"layer2-bonded", "layer2-individual", "layer3", "hybrid", "hybrid-bonded"}

Loop(call, ports) == [call |-> call, ports |-> ports]

LoopsOfEthsOnly(type) ==
  IF type = "layer2-individual"
  THEN <<Loop("layer2", Eths), Loop("disbondAll", Eths)>> ELSE <<>>

Loops(type) ==
  CASE type = "layer3" ->
         <<Loop("bond", Bonds), Loop("layer3", {Bond0}), Loop("bond", Eths)>>
    [] type = "hybrid" -> <<Loop("disbond", Odd)>>
    [] type = "layer2-individual" ->
         <<Loop("layer2", {Bond0}), Loop("disbondAll", Eths)>>
    [] type = "layer2-bonded" -> <<Loop("layer2", Bonds), Loop("bond", Eths)>>
    [] OTHER -> <<>>

(* No call is made for a port that is not seen to support disbonding.      *)
NeverSkipped(call, p) == FALSE

Skipped(call, p) == call \in {"disbond", "disbondAll"} /\ p \notin pass.seen

-----------------------------------------------------------------------------
Return == pass' = Idle /\ UNCHANGED <<config, equinix, reported, faults>>

(* Devices.Get; without a type UpdateNetworkConfig returns at once, and    *)
(* with an unknown one ConvertDevice returns an error.  For which ports    *)
(* Equinix reports DisbondOperationSupported is its own affair: it may     *)
(* miss bonded ones, name others, and change from one reading to the next. *)
Get ==
  /\ At("idle") /\ ~reported
  /\ \E supported \in SUBSET Eths :
       pass' = [Idle EXCEPT !.at = IF config.type = "" THEN "update" ELSE "convert",
                            !.seen = supported]
  /\ UNCHANGED <<config, equinix, reported, faults>>

RejectType ==
  At("convert") /\ config.type \notin ValidTypes /\ Return

(* The loop is over.                                                       *)
NextLoop ==
  /\ At("convert") /\ config.type \in ValidTypes /\ pass.left = {}
  /\ LET next == pass.round + 1
         over == next > Len(Loops(config.type))
     IN pass' = [pass EXCEPT
          !.round = IF over THEN 0 ELSE next,
          !.at    = IF over THEN "vlans" ELSE "convert",
          !.left  = IF over THEN config.vlans ELSE Loops(config.type)[next].ports]
  /\ UNCHANGED <<config, equinix, reported, faults>>

Call == Loops(config.type)[pass.round].call

Looping == At("convert") /\ config.type \in ValidTypes /\ pass.left # {}

Skip ==
  /\ Looping
  /\ \E p \in pass.left :
       Skipped(Call, p) /\ pass' = [pass EXCEPT !.left = @ \ {p}]
  /\ UNCHANGED <<config, equinix, reported, faults>>

Refused(call, p) ==
  /\ call \in config.refuses
  /\ IF call = "assign" THEN p \in assigned ELSE Reached(call, p)

Convert ==
  /\ Looping
  /\ \E p \in pass.left :
       /\ ~Skipped(Call, p)
       /\ \/ Refused(Call, p) /\ Return
          \/ /\ ~Refused(Call, p) /\ PortCall(Call, p)
             /\ pass' = [pass EXCEPT !.left = @ \ {p}]
             /\ UNCHANGED <<config, assigned, boot, reported, faults>>

(* UpdateNetworkConfig's VLANs; a port the device does not have is an      *)
(* error.                                                                  *)
IgnoreUnknownPort ==
  /\ At("vlans")
  /\ \E v \in pass.left :
       /\ assigned' = IF v[1] \in Ports THEN assigned \cup {v} ELSE assigned
       /\ pass' = [pass EXCEPT !.left = @ \ {v}]
       /\ UNCHANGED <<config, bonded, layer2, boot, reported, faults>>

Assign ==
  /\ At("vlans")
  /\ \E v \in pass.left :
       \/ (v[1] \notin Ports \/ Refused("assign", v)) /\ Return
       \/ /\ v[1] \in Ports /\ ~Refused("assign", v)
          /\ assigned' = assigned \cup {v}
          /\ pass' = [pass EXCEPT !.left = @ \ {v}]
          /\ UNCHANGED <<config, bonded, layer2, boot, reported, faults>>

AllAssigned ==
  /\ At("vlans") /\ pass.left = {}
  /\ pass' = [pass EXCEPT !.at = "update"]
  /\ UNCHANGED <<config, equinix, reported, faults>>

(* The MAC addresses of the management interfaces go into the cloud-init,  *)
(* always made from the spec's own userData; then Devices.Update.          *)
Knowable == config.management \subseteq Ports /\ config.userData = "yaml"

UpdateDevice ==
  /\ boot' = [script |-> "install", interfaces |-> config.management,
              seen |-> pass.seen]
  /\ UNCHANGED <<bonded, layer2, assigned>>

Update ==
  /\ At("update")
  /\ \/ ~Knowable /\ Return
     \/ /\ Knowable /\ UpdateDevice
        /\ pass' = [pass EXCEPT !.at = "reinstall"]
        /\ UNCHANGED <<config, reported, faults>>

(* Devices.Reinstall, and the UpdateStatus of the caller: a device that    *)
(* was reinstalled without anybody noting it is reinstalled once more.     *)
Reinstall ==
  /\ At("reinstall")
  /\ pass' = [pass EXCEPT !.at = "report"]
  /\ UNCHANGED <<config, equinix, reported, faults>>

Report ==
  /\ At("report")
  /\ pass' = Idle /\ reported' = TRUE
  /\ UNCHANGED <<config, equinix, faults>>

(* A call fails, or the process ends at it, before or after it took effect.*)
Fault ==
  /\ ~At("idle") /\ faults < MaxFaults
  /\ pass' = Idle /\ faults' = faults + 1
  /\ \/ UNCHANGED equinix
     \/ /\ Looping
        /\ \E p \in pass.left : ~Skipped(Call, p) /\ PortCall(Call, p)
        /\ UNCHANGED <<assigned, boot>>
     \/ /\ At("vlans")
        /\ \E v \in pass.left : v[1] \in Ports /\ assigned' = assigned \cup {v}
        /\ UNCHANGED <<bonded, layer2, boot>>
     \/ At("update") /\ Knowable /\ UpdateDevice
  /\ UNCHANGED <<config, reported>>

Proceed ==
  \/ Get \/ RejectType \/ NextLoop \/ Skip \/ Convert \/ Assign \/ AllAssigned
  \/ Update \/ Reinstall \/ Report

Next == Proceed \/ Fault

(* The queue brings the key back after an error, and a worker runs on.     *)
Spec == Init /\ [][Next]_vars /\ WF_vars(Proceed)
=============================================================================
