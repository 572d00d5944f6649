----------------------------- MODULE MCReInstall -----------------------------
(* A device with four ports in two bonds, and the specs of the README's    *)
(* examples, next to some that can never be carried out; Equinix refuses   *)
(* to disbond a port a second time, or does not mind.                      *)
EXTENDS ReInstallProperties

MCEths  == {"eth0", "eth1", "eth2", "eth3"}
MCBonds == {"bond0", "bond1"}
MCOdd   == {"eth1", "eth3"}

Spc(type, vlans, management) ==
  [type |-> type, vlans |-> vlans, management |-> management, userData |-> "yaml",
   refuses |-> {}]

Specs ==
  { Spc("", {<<"eth1", 1000>>}, {"eth0"}),
    Spc("layer3", {}, {"eth0"}),
    Spc("hybrid", {<<"eth1", 1000>>, <<"eth1", 1001>>}, {"eth0"}),
    Spc("hybrid-bonded", {<<"bond0", 1000>>, <<"bond0", 1001>>}, {"eth0", "eth2"}),
    Spc("layer2-bonded", {<<"bond0", 1000>>, <<"bond0", 1001>>}, {"eth0"}),
    Spc("layer2-individual", {<<"eth0", 1000>>, <<"eth1", 1000>>, <<"eth1", 1001>>},
        {"bond0"}),
    Spc("hybrid", {<<"eth1", 1000>>, <<"eth7", 1001>>}, {"eth0"}),
    Spc("hybrid", {<<"eth1", 1000>>}, {"eth5"}),
    Spc("layer4", {}, {"eth0"}),
    [Spc("layer3", {<<"bond0", 1000>>}, {"eth0"}) EXCEPT !.userData = "tabs"] }

MCConfigs ==
  { [spec EXCEPT !.refuses = r] : spec \in Specs, r \in {{}, {"disbond", "disbondAll"}} }
=============================================================================
