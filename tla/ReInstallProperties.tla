------------------------- MODULE ReInstallProperties -------------------------
(* What ReInstallDevice is held to.                                        *)
EXTENDS ReInstall

(* The variables keep their types, and a loop is only over ports it is for.*)
TypeOK ==
  /\ config \in Configs
  /\ bonded \subseteq Eths /\ layer2 \subseteq Bonds
  /\ assigned \subseteq config.vlans
  /\ boot \in [script: {"shell", "install"}, interfaces: {{}, config.management},
               seen: SUBSET Eths]
  /\ pass \in [at: Stages, round: 0..3, left: (SUBSET Ports) \cup SUBSET config.vlans,
               seen: SUBSET Eths]
  /\ pass.left \subseteq
       CASE pass.at = "convert" -> Ports [] pass.at = "vlans" -> config.vlans
         [] OTHER -> {}
  /\ reported \in BOOLEAN /\ faults \in 0..MaxFaults

(* The call has had its effect, or is one the code leaves out for a port   *)
(* that is not among those seen to support it.                             *)
Done(call, p, seen) ==
  \/ Reached(call, p)
  \/ call \in {"disbond", "disbondAll"} /\ p \notin seen

(* Every loop of the network type has had its effect, on every port.       *)
Converted(seen) ==
  \A k \in DOMAIN Loops(config.type) :
    \A p \in Loops(config.type)[k].ports : Done(Loops(config.type)[k].call, p, seen)

(* From the moment the device would boot the installation, whoever reboots *)
(* it and whatever pass is under way, its ports are what the network type  *)
(* asks for, the VLANs are assigned, and the cloud-init names all the      *)
(* management interfaces.  The one exception are bonded ports for which    *)
(* the pass that wrote the script was not told DisbondOperationSupported.  *)
(* So no failure leads past a step, no retry takes apart what an earlier   *)
(* pass had built, and none rests on what another pass was told.           *)
InstallsAsConfigured ==
  boot.script = "install" =>
    /\ config.type \in ValidTypes \cup {""} /\ Converted(boot.seen)
    /\ config.type # "" => assigned = config.vlans
    /\ boot.interfaces = config.management

(* The same without the exception, as the README's network types have it   *)
(* ("all odd numbered physical ports are unbonded from bond0").  It does   *)
(* not hold: ConvertDevice passes over the ports of the exception without  *)
(* an error, and the installation goes on.                                 *)
InstallsAsDocumented == boot.script = "install" => Converted(Eths)

(* The types that keep bond0 in layer 3 keep it in layer 3 all the time,   *)
(* and in the bond every port the type does not unbond: the node never     *)
(* loses the network it is managed through, not even between two calls.    *)
ManagementKept ==
  config.type \in {"", "layer3", "hybrid", "hybrid-bonded"} =>
    /\ Bond0 \notin layer2
    /\ (IF config.type = "hybrid" THEN Eths \ Odd ELSE Eths) \subseteq bonded

(* What the spec names can be found on the device and be read.             *)
Feasible ==
  /\ config.type \in ValidTypes \cup {""} /\ Knowable
  /\ config.type # "" => \A v \in config.vlans : v[1] \in Ports

(* The device that was read shows DisbondOperationSupported for no port    *)
(* that has been taken out of its bond.                                    *)
Refreshed == At("convert") /\ pass.round = 0 => pass.seen \subseteq bonded

(* A device whose spec is feasible gets reinstalled, however often calls   *)
(* fail half-way and whatever is reported of its ports, if Equinix does    *)
(* again what it has done.  If it refuses to disbond a port that is not    *)
(* bonded, the code depends on DisbondOperationSupported: then it is so    *)
(* provided that the flag is, in the end, off for such a port when it is   *)
(* read, even if a bulk disbond takes out further ports after that.        *)
Completes == <>[](config.refuses = {} \/ Refreshed) => (Feasible ~> reported)
=============================================================================
