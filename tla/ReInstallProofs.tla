--------------------------- MODULE ReInstallProofs ---------------------------
(***************************************************************************)
(* Proofs about ReInstallDevice, for every device, spec, set of refused    *)
(* calls and number of failures.  The invariant says what the pass has     *)
(* already brought about: all earlier loops, and of the current one all    *)
(* that is not left, but for the ports the pass was not told it could take *)
(* out of the bond.  It survives the pass's own later calls because the    *)
(* loops of one network type never work against each other, and a new pass *)
(* because every call only adds to what it is made for.                    *)
(***************************************************************************)
EXTENDS ReInstallProperties, TLAPS

USE ConstantsAssumption DEF Ports

(* What a loop is made of: which calls, on which ports.                    *)
LoopOK(type, call, ports) ==
  /\ call \in {"bond", "disbond", "disbondAll", "layer2", "layer3"}
  /\ ports \subseteq Ports
  /\ call \in {"layer2", "layer3"} => ports \subseteq Bonds
  /\ call \in {"disbond", "disbondAll"} => ports \subseteq Eths
  /\ call = "bond" => type \in {"layer3", "layer2-bonded"}
  /\ call = "disbond" => type = "hybrid" /\ ports \subseteq Odd
  /\ call = "disbondAll" => type = "layer2-individual"
  /\ call = "layer2" => type \in {"layer2-individual", "layer2-bonded"}
  /\ call = "layer3" => type = "layer3"

LEMMA LoopFacts ==
  ASSUME NEW type
  PROVE  /\ Len(Loops(type)) \in 0..3
         /\ DOMAIN Loops(type) = 1..Len(Loops(type))
         /\ type = "" => DOMAIN Loops(type) = {}
         /\ \A k \in 1..Len(Loops(type)) :
              LoopOK(type, Loops(type)[k].call, Loops(type)[k].ports)
<1>1. CASE type = "layer3"
  BY <1>1 DEF Loops, Loop, LoopOK
<1>2. CASE type = "hybrid"
  BY <1>2 DEF Loops, Loop, LoopOK
<1>3. CASE type = "layer2-individual"
  BY <1>3 DEF Loops, Loop, LoopOK
<1>4. CASE type = "layer2-bonded"
  BY <1>4 DEF Loops, Loop, LoopOK
<1>5. CASE type \notin {"layer3", "hybrid", "layer2-individual", "layer2-bonded"}
  <2>1. Loops(type) = <<>>
    BY <1>5 DEF Loops
  <2> QED
    BY <2>1
<1> QED
  BY <1>1, <1>2, <1>3, <1>4, <1>5

(* A call of one loop takes nothing away from another loop of the type.    *)
LEMMA CallsAgree ==
  ASSUME NEW type, NEW c, NEW P, LoopOK(type, c, P), NEW d, NEW Q, LoopOK(type, d, Q),
         NEW p \in P, PortCall(c, p), NEW q \in Q, Reached(d, q)
  PROVE  Reached(d, q)'
BY DEF LoopOK, PortCall, Reached, Bond, Disbond, ConvertToLayerTwo, ConvertToLayerThree

(* And does what it is made for, within the types.                         *)
LEMMA CallReaches ==
  ASSUME NEW type, NEW c, NEW P, LoopOK(type, c, P), NEW p \in P, PortCall(c, p)
  PROVE  Reached(c, p)'
BY DEF LoopOK, PortCall, Reached, Bond, Disbond, ConvertToLayerTwo, ConvertToLayerThree

LEMMA CallKeepsTypes ==
  ASSUME NEW type, NEW c, NEW P, LoopOK(type, c, P), NEW p \in P, PortCall(c, p),
         bonded \subseteq Eths, layer2 \subseteq Bonds
  PROVE  /\ bonded' \subseteq Eths /\ layer2' \subseteq Bonds
BY DEF LoopOK, PortCall, Bond, Disbond, ConvertToLayerTwo, ConvertToLayerThree

LEMMA CallKeepsManagement ==
  ASSUME NEW type, NEW c, NEW P, LoopOK(type, c, P), NEW p \in P, PortCall(c, p),
         type \in {"layer3", "hybrid"}, Bond0 \notin layer2,
         NEW S \in SUBSET Eths, S \subseteq bonded,
         type = "hybrid" => S \cap Odd = {}
  PROVE  Bond0 \notin layer2' /\ S \subseteq bonded'
BY DEF LoopOK, PortCall, Bond, Disbond, ConvertToLayerTwo, ConvertToLayerThree

-----------------------------------------------------------------------------
(* How far the pass has come.                                              *)
TypeKnown == config.type \in ValidTypes \cup {""}

InLoop ==
  LET loops == Loops(config.type)
  IN /\ pass.round \in 0..Len(loops)
     /\ pass.round = 0 => pass.left = {}
     /\ pass.round # 0 => pass.left \subseteq loops[pass.round].ports
     /\ \A k \in 1..pass.round : \A p \in loops[k].ports :
          (k = pass.round /\ p \in pass.left) \/ Done(loops[k].call, p, pass.seen)

Ready ==
  /\ TypeKnown /\ Converted(pass.seen)
  /\ config.type # "" => assigned = config.vlans

Progress ==
  /\ At("convert") => InLoop
  /\ At("vlans") =>
       /\ config.type \in ValidTypes /\ Converted(pass.seen)
       /\ config.vlans \ pass.left \subseteq assigned
  /\ pass.at \in {"update", "reinstall", "report"} => Ready

Inv == TypeOK /\ Progress /\ InstallsAsConfigured

LEMMA Initially == Init => Inv
<1> SUFFICES ASSUME Init PROVE Inv
  OBVIOUS
<1>1. pass \in [at: Stages, round: 0..3, left: (SUBSET Ports) \cup SUBSET config.vlans,
               seen: SUBSET Eths]
  BY DEF Init, Idle, Stages
<1>2. pass.at = "idle" /\ pass.left = {} /\ boot.script = "shell"
  BY DEF Init, Idle
<1>3. boot \in [script: {"shell", "install"}, interfaces: {{}, config.management},
               seen: SUBSET Eths]
  BY DEF Init
<1>4. reported \in BOOLEAN /\ faults \in 0..MaxFaults
  <2>1. reported \in BOOLEAN
    BY Zenon DEF Init
  <2>2. faults \in 0..MaxFaults
    BY DEF Init
  <2> QED
    BY <2>1, <2>2
<1>5. TypeOK
  BY <1>1, <1>2, <1>3, <1>4, Zenon DEF Init, TypeOK
<1> QED
  BY <1>2, <1>5 DEF Inv, Progress, InstallsAsConfigured, At

(* One call on the ports: the types, what was reached before, and the      *)
(* management network are kept.                                            *)
LEMMA ConvertKeeps ==
  ASSUME Inv, Looping, NEW p \in pass.left, NEW c, c = Call, PortCall(c, p),
         UNCHANGED <<config, assigned, boot>>
  PROVE  /\ bonded' \subseteq Eths /\ layer2' \subseteq Bonds
         /\ \A k \in 1..Len(Loops(config.type)) :
              \A q \in Loops(config.type)[k].ports :
                Reached(Loops(config.type)[k].call, q) =>
                  Reached(Loops(config.type)[k].call, q)'
         /\ Reached(c, p)'
         /\ \A s : Converted(s) => Converted(s)'
         /\ InstallsAsConfigured'
<1> DEFINE type == config.type
           loops == Loops(type)
           P == loops[pass.round].ports
<1>1. /\ Len(loops) \in 0..3 /\ DOMAIN loops = 1..Len(loops)
      /\ \A k \in 1..Len(loops) : LoopOK(type, loops[k].call, loops[k].ports)
  BY LoopFacts
<1>2. pass.round \in 1..Len(loops) /\ p \in P
  BY <1>1 DEF Inv, Progress, InLoop, Looping, At
<1>3. LoopOK(type, c, P)
  BY <1>1, <1>2 DEF Call
<1>4. bonded' \subseteq Eths /\ layer2' \subseteq Bonds
  BY <1>2, <1>3, CallKeepsTypes DEF Inv, TypeOK
<1>5. ASSUME NEW k \in 1..Len(loops), NEW q \in loops[k].ports,
             Reached(loops[k].call, q)
      PROVE  Reached(loops[k].call, q)'
  <2>1. LoopOK(type, loops[k].call, loops[k].ports)
    BY <1>1
  <2> HIDE DEF type, loops, P
  <2> DEFINE d == loops[k].call
  <2>2. config' = config
    OBVIOUS
  <2> QED
    BY <1>2, <1>3, <1>5, <2>1, <2>2, CallsAgree DEF loops, type
<1>6. Reached(c, p)'
  BY <1>2, <1>3, CallReaches
<1>7. ASSUME NEW s, Converted(s) PROVE Converted(s)'
  BY <1>1, <1>5, <1>7 DEF Converted, Done
<1>8. InstallsAsConfigured'
  BY <1>7 DEF Inv, InstallsAsConfigured
<1> QED
  BY <1>4, <1>5, <1>6, <1>7, <1>8

LEMMA InvNext == Inv /\ [Next]_vars => Inv'
<1> SUFFICES ASSUME Inv, [Next]_vars PROVE Inv'
  OBVIOUS
<1> USE DEF Inv
<1> DEFINE type == config.type
           loops == Loops(type)
<1>l. /\ Len(loops) \in 0..3 /\ DOMAIN loops = 1..Len(loops)
      /\ \A k \in 1..Len(loops) : LoopOK(type, loops[k].call, loops[k].ports)
  BY LoopFacts
<1>idle. Idle \in [at: Stages, round: 0..3,
                   left: (SUBSET Ports) \cup SUBSET config.vlans, seen: SUBSET Eths]
         /\ Idle.at = "idle" /\ Idle.left = {}
  BY DEF Idle, Stages
<1>r. ASSUME Return PROVE Inv'
  <2>1. TypeOK'
    BY <1>r, <1>idle DEF Return, equinix, TypeOK
  <2> QED
    BY <1>r, <2>1, <1>idle
    DEF Return, equinix, Progress, InstallsAsConfigured, Converted, Done, Reached, At
<1>1. CASE Get
  <2>1. /\ UNCHANGED <<config, bonded, layer2, assigned, boot, reported, faults>>
        /\ pass'.at \in {"update", "convert"} /\ pass'.left = {} /\ pass'.round = 0
        /\ pass'.seen \subseteq Eths
        /\ pass'.at = "update" <=> config.type = ""
    BY <1>1 DEF Get, equinix, Idle
  <2>2. TypeOK'
    BY <1>1, <2>1, <1>idle DEF Get, equinix, TypeOK, Idle, Stages
  <2>3. config.type = "" => TypeKnown /\ \A s : Converted(s)
    <3>1. config.type = "" => DOMAIN loops = {}
      BY LoopFacts
    <3> QED
      BY <3>1 DEF TypeKnown, Converted
  <2>4. InLoop'
    <3> DEFINE r == pass'.round
    <3>1. r = 0
      BY <2>1
    <3> HIDE DEF r
    <3>2. r \in 0..Len(loops) /\ \A k \in 1..r : FALSE
      BY <1>l, <3>1
    <3> QED
      BY <2>1, <3>1, <3>2 DEF InLoop, r
  <2>5. config.type = "" => Ready'
    BY <2>1, <2>3 DEF Ready, TypeKnown, Converted, Done, Reached
  <2>6. Progress'
    BY <2>1, <2>4, <2>5 DEF Progress, At
  <2> QED
    BY <2>1, <2>2, <2>6 DEF InstallsAsConfigured, Converted, Done, Reached
<1>2. CASE RejectType
  BY <1>2, <1>r DEF RejectType
<1>3. CASE NextLoop
  <2>1. /\ UNCHANGED <<config, bonded, layer2, assigned, boot, reported, faults>>
        /\ pass'.seen = pass.seen /\ config.type \in ValidTypes
        /\ At("convert") /\ pass.left = {} /\ InLoop
    BY <1>3 DEF NextLoop, equinix, TypeOK, Progress
  <2>2. \A k \in 1..pass.round : \A p \in loops[k].ports :
          Done(loops[k].call, p, pass.seen)
    BY <2>1 DEF InLoop
  <2>3. CASE pass.round + 1 > Len(loops)
    <3>1. pass'.at = "vlans" /\ pass'.left = config.vlans
          /\ pass' = [pass EXCEPT !.round = 0, !.at = "vlans", !.left = config.vlans]
      BY <1>3, <2>3 DEF NextLoop, TypeOK
    <3>2. pass.round = Len(loops)
      BY <1>l, <2>1, <2>3 DEF InLoop
    <3>3. Converted(pass.seen)
      BY <1>l, <2>2, <3>2 DEF Converted
    <3>4. TypeOK'
      <4>1. pass' \in [at: Stages, round: 0..3,
                       left: (SUBSET Ports) \cup SUBSET config.vlans, seen: SUBSET Eths]
        <5>1. "vlans" \in Stages /\ 0 \in 0..3
              /\ config.vlans \in (SUBSET Ports) \cup SUBSET config.vlans
          BY DEF Stages
        <5> QED
          BY <3>1, <5>1 DEF TypeOK
      <4> QED
        BY <2>1, <3>1, <4>1 DEF TypeOK
    <3>5. Progress'
      BY <2>1, <3>1, <3>3 DEF Progress, At, Converted, Done, Reached
    <3> QED
      BY <2>1, <3>4, <3>5 DEF InstallsAsConfigured, Converted, Done, Reached
  <2>4. CASE ~(pass.round + 1 > Len(loops))
    <3> DEFINE next == pass.round + 1
    <3>1. pass' = [pass EXCEPT !.round = next, !.at = "convert",
                               !.left = loops[next].ports]
      BY <1>3, <2>4 DEF NextLoop
    <3>2. next \in 1..Len(loops) /\ next \in 0..3 /\ loops[next].ports \subseteq Ports
      <4>1. pass.round \in 0..Len(loops)
        BY <2>1 DEF InLoop
      <4>2. next \in 1..Len(loops) /\ next \in 0..3
        BY <1>l, <2>4, <4>1
      <4> QED
        BY <1>l, <4>2 DEF LoopOK
    <3>3. /\ pass'.round = next /\ pass'.at = "convert"
          /\ pass'.left = loops[next].ports
      BY <3>1 DEF TypeOK
    <3>4. TypeOK'
      BY <2>1, <3>1, <3>2, <3>3 DEF TypeOK, Stages
    <3>5. InLoop'
      <4>1. ASSUME NEW k \in 1..next, NEW p \in loops[k].ports
            PROVE  \/ k = next /\ p \in loops[next].ports
                   \/ Done(loops[k].call, p, pass.seen)
        <5>1. CASE k = next
          BY <5>1
        <5>2. CASE k # next
          <6>1. k \in 1..pass.round
            BY <1>l, <2>1, <3>2, <5>2 DEF InLoop
          <6> QED
            BY <2>2, <6>1
        <5> QED
          BY <5>1, <5>2
      <4>2. /\ config' = config
            /\ \A c, p : Done(c, p, pass.seen)' <=> Done(c, p, pass.seen)
        BY <2>1 DEF Done, Reached
      <4> HIDE DEF loops
      <4>3. loops' = loops
        BY <2>1 DEF loops
      <4> QED
        BY <2>1, <3>2, <3>3, <4>1, <4>2, <4>3 DEF InLoop, loops
    <3>6. Progress'
      BY <2>1, <3>3, <3>5 DEF Progress, At
    <3> QED
      BY <2>1, <3>4, <3>6 DEF InstallsAsConfigured, Converted, Done, Reached
  <2> QED
    BY <2>3, <2>4
<1>4. CASE Skip
  <2>1. PICK p \in pass.left :
          Skipped(Call, p) /\ pass' = [pass EXCEPT !.left = @ \ {p}]
    BY <1>4 DEF Skip
  <2>2. /\ UNCHANGED <<config, bonded, layer2, assigned, boot, reported, faults>>
        /\ At("convert") /\ config.type \in ValidTypes /\ InLoop
    BY <1>4 DEF Skip, Looping, equinix, Progress
  <2>3. /\ pass'.at = "convert" /\ pass'.seen = pass.seen /\ pass'.round = pass.round
        /\ pass'.left = pass.left \ {p}
    BY <2>1, <2>2 DEF TypeOK, At
  <2>4. TypeOK'
    BY <2>1, <2>2, <2>3 DEF TypeOK, At
  <2>5. pass.round \in 1..Len(loops)
    BY <1>l, <2>1, <2>2 DEF InLoop
  <2>6. Done(Call, p, pass.seen)
    BY <2>1 DEF Skipped, Done
  <2>7. InLoop'
    BY <2>2, <2>3, <2>5, <2>6 DEF InLoop, Call, Done, Reached
  <2>8. Progress'
    BY <2>2, <2>3, <2>7 DEF Progress, At
  <2> QED
    BY <2>2, <2>4, <2>8 DEF InstallsAsConfigured, Converted, Done, Reached
<1>5. CASE Convert
  <2>1. PICK p \in pass.left :
          \/ Return
          \/ /\ PortCall(Call, p) /\ pass' = [pass EXCEPT !.left = @ \ {p}]
             /\ UNCHANGED <<config, assigned, boot, reported, faults>>
    BY <1>5 DEF Convert
  <2>2. CASE Return
    BY <1>r, <2>2
  <2>3. CASE /\ PortCall(Call, p) /\ pass' = [pass EXCEPT !.left = @ \ {p}]
             /\ UNCHANGED <<config, assigned, boot, reported, faults>>
    <3>c. PICK c : c = Call
      OBVIOUS
    <3>1. /\ At("convert") /\ config.type \in ValidTypes /\ InLoop /\ Looping
      BY <1>5 DEF Convert, Looping, Progress
    <3>2. /\ bonded' \subseteq Eths /\ layer2' \subseteq Bonds
          /\ \A k \in 1..Len(loops) : \A q \in loops[k].ports :
               Reached(loops[k].call, q) => Reached(loops[k].call, q)'
          /\ Reached(c, p)'
          /\ InstallsAsConfigured'
      <4>1. PortCall(c, p)
        BY <2>3, <3>c
      <4> QED
        BY <2>3, <3>1, <3>c, <4>1, ConvertKeeps
    <3>3. /\ pass'.at = "convert" /\ pass'.seen = pass.seen
          /\ pass'.round = pass.round /\ pass'.left = pass.left \ {p}
      BY <2>3, <3>1 DEF TypeOK, At
    <3>4. TypeOK'
      BY <2>3, <3>1, <3>2, <3>3 DEF TypeOK, At
    <3>5. pass.round \in 1..Len(loops)
      BY <1>l, <3>1 DEF InLoop
    <3>6. InLoop'
      <4>1. ASSUME NEW k \in 1..pass.round, NEW q \in loops[k].ports
            PROVE  \/ k = pass.round /\ q \in pass.left \ {p}
                   \/ Done(loops[k].call, q, pass.seen)'
        <5>1. CASE k = pass.round /\ q = p
          <6>1. c = loops[k].call
            BY <3>c, <5>1 DEF Call
          <6>2. Reached(c, q)'
            BY <3>2, <5>1
          <6>3. config' = config
            BY <2>3
          <6> QED
            BY <6>1, <6>2, <6>3 DEF Done, Reached
        <5>2. CASE ~(k = pass.round /\ q = p)
          <6>1. \/ k = pass.round /\ q \in pass.left \ {p}
                \/ Done(loops[k].call, q, pass.seen)
            BY <3>1, <5>2 DEF InLoop
          <6>2. Reached(loops[k].call, q) => Reached(loops[k].call, q)'
            BY <1>l, <3>2, <3>5
          <6>3. config' = config
            BY <2>3
          <6> HIDE DEF loops
          <6>4. loops' = loops
            BY <6>3 DEF loops
          <6> QED
            BY <3>3, <6>1, <6>2, <6>4 DEF Done
        <5> QED
          BY <5>1, <5>2
      <4> QED
        BY <2>3, <3>1, <3>3, <3>5, <4>1 DEF InLoop
    <3>7. Progress'
      BY <2>3, <3>1, <3>2, <3>3, <3>6 DEF Progress, At
    <3> QED
      BY <3>2, <3>4, <3>7
  <2> QED
    BY <2>1, <2>2, <2>3
<1>6. CASE Assign
  <2>1. PICK v \in pass.left :
          \/ Return
          \/ /\ assigned' = assigned \cup {v} /\ pass' = [pass EXCEPT !.left = @ \ {v}]
             /\ UNCHANGED <<config, bonded, layer2, boot, reported, faults>>
    BY <1>6 DEF Assign
  <2>2. CASE Return
    BY <1>r, <2>2
  <2>3. CASE /\ assigned' = assigned \cup {v} /\ pass' = [pass EXCEPT !.left = @ \ {v}]
             /\ UNCHANGED <<config, bonded, layer2, boot, reported, faults>>
    <3>1. pass.at = "vlans" /\ pass.left \subseteq config.vlans
      BY <1>6 DEF Assign, At, TypeOK
    <3>2. pass'.at = "vlans" /\ pass'.seen = pass.seen /\ pass'.left = pass.left \ {v}
      BY <2>3, <3>1 DEF TypeOK
    <3>3. TypeOK'
      BY <2>3, <3>1, <3>2 DEF TypeOK
    <3>4. Progress'
      BY <2>3, <3>1, <3>2 DEF Progress, At, Converted, Done, Reached
    <3> QED
      BY <2>3, <3>1, <3>3, <3>4 DEF InstallsAsConfigured, TypeOK, Converted, Done, Reached
  <2> QED
    BY <2>1, <2>2, <2>3
<1>7. CASE AllAssigned
  <2>1. /\ UNCHANGED <<config, bonded, layer2, assigned, boot, reported, faults>>
        /\ pass.at = "vlans" /\ pass.left = {}
        /\ pass' = [pass EXCEPT !.at = "update"]
    BY <1>7 DEF AllAssigned, equinix, At
  <2>2. pass'.at = "update" /\ pass'.left = {} /\ pass'.seen = pass.seen
    BY <2>1 DEF TypeOK
  <2>3. TypeOK'
    BY <2>1, <2>2 DEF TypeOK, Stages
  <2>4. Ready
    BY <2>1 DEF Progress, At, Ready, TypeKnown, TypeOK
  <2>5. Progress'
    BY <2>1, <2>2, <2>4 DEF Progress, At, Ready, TypeKnown, Converted, Done, Reached
  <2> QED
    BY <2>1, <2>3, <2>5 DEF InstallsAsConfigured, Converted, Done, Reached
<1>8. CASE Update
  <2>1. CASE Return
    BY <1>r, <2>1
  <2>2. CASE ~Return
    <3>1. /\ UpdateDevice /\ pass' = [pass EXCEPT !.at = "reinstall"]
          /\ UNCHANGED <<config, bonded, layer2, assigned, reported, faults>>
          /\ pass.at = "update" /\ pass.left = {}
      BY <1>8, <2>2 DEF Update, UpdateDevice, At, TypeOK
    <3>2. pass'.at = "reinstall" /\ pass'.left = {} /\ pass'.seen = pass.seen
      BY <3>1 DEF TypeOK
    <3>3. TypeOK'
      BY <3>1, <3>2 DEF TypeOK, Stages, UpdateDevice
    <3>4. Ready /\ Ready'
      <4>1. Ready
        BY <3>1 DEF Progress
      <4>2. Converted(pass.seen)'
        BY <3>1, <3>2, <4>1 DEF Ready, Converted, Done, Reached
      <4> QED
        BY <3>1, <4>1, <4>2 DEF Ready, TypeKnown
    <3>5. Progress'
      BY <3>1, <3>2, <3>4 DEF Progress, At
    <3> QED
      <4>1. boot'.seen = pass'.seen /\ boot'.interfaces = config'.management
        BY <3>1, <3>2 DEF UpdateDevice
      <4> QED
        BY <3>3, <3>4, <3>5, <4>1 DEF InstallsAsConfigured, Ready, TypeKnown, Converted
  <2> QED
    BY <2>1, <2>2
<1>9. CASE Reinstall
  <2>1. /\ UNCHANGED <<config, bonded, layer2, assigned, boot, reported, faults>>
        /\ pass.at = "reinstall" /\ pass.left = {}
        /\ pass' = [pass EXCEPT !.at = "report"]
    BY <1>9 DEF Reinstall, equinix, At, TypeOK
  <2>2. pass'.at = "report" /\ pass'.left = {} /\ pass'.seen = pass.seen
    BY <2>1 DEF TypeOK
  <2>3. TypeOK'
    BY <2>1, <2>2 DEF TypeOK, Stages
  <2>4. Progress'
    BY <2>1, <2>2 DEF Progress, At, Ready, TypeKnown, Converted, Done, Reached
  <2> QED
    BY <2>1, <2>3, <2>4 DEF InstallsAsConfigured, Converted, Done, Reached
<1>10. CASE Report
  <2>1. /\ UNCHANGED <<config, bonded, layer2, assigned, boot, faults>>
        /\ pass' = Idle /\ reported' = TRUE
    BY <1>10 DEF Report, equinix
  <2>2. TypeOK'
    BY <2>1, <1>idle DEF TypeOK
  <2> QED
    BY <2>1, <2>2, <1>idle DEF Progress, InstallsAsConfigured, Converted, Done, Reached, At
<1>11. CASE Fault
  <2>1. /\ pass' = Idle /\ UNCHANGED <<config, reported>>
        /\ faults' \in 0..MaxFaults
    BY <1>11 DEF Fault, TypeOK
  <2>2. SUFFICES /\ bonded' \subseteq Eths /\ layer2' \subseteq Bonds
                 /\ assigned' \subseteq config.vlans
                 /\ boot' \in [script: {"shell", "install"},
                               interfaces: {{}, config.management}, seen: SUBSET Eths]
                 /\ InstallsAsConfigured'
    <3>1. ASSUME /\ bonded' \subseteq Eths /\ layer2' \subseteq Bonds
                 /\ assigned' \subseteq config.vlans
                 /\ boot' \in [script: {"shell", "install"},
                               interfaces: {{}, config.management}, seen: SUBSET Eths]
          PROVE  TypeOK'
      BY <2>1, <3>1, <1>idle DEF TypeOK
    <3> QED
      BY <2>1, <3>1, <1>idle DEF Progress, At
  <2>3. CASE UNCHANGED equinix
    BY <2>1, <2>3 DEF equinix, TypeOK, InstallsAsConfigured, Converted, Done, Reached
  <2>4. ASSUME Looping, NEW p \in pass.left, PortCall(Call, p), UNCHANGED <<assigned, boot>>
        PROVE  /\ bonded' \subseteq Eths /\ layer2' \subseteq Bonds
               /\ InstallsAsConfigured'
    <3>1. PICK c : c = Call /\ PortCall(c, p)
      BY <2>4
    <3> QED
      BY <2>1, <2>4, <3>1, ConvertKeeps
  <2>5. CASE \E v \in pass.left : /\ At("vlans") /\ assigned' = assigned \cup {v}
                                  /\ UNCHANGED <<bonded, layer2, boot>>
    <3>1. PICK v \in pass.left : /\ At("vlans") /\ assigned' = assigned \cup {v}
                                 /\ UNCHANGED <<bonded, layer2, boot>>
      BY <2>5
    <3>2. pass.left \subseteq config.vlans
      BY <3>1 DEF TypeOK, At
    <3> QED
      BY <2>1, <3>1, <3>2 DEF TypeOK, InstallsAsConfigured, Converted, Done, Reached, At
  <2>6. CASE /\ At("update") /\ UpdateDevice
    BY <2>1, <2>6
    DEF UpdateDevice, TypeOK, InstallsAsConfigured, Converted, Done, Reached, At, Progress,
        Ready, TypeKnown
  <2> QED
    BY <1>11, <2>3, <2>4, <2>5, <2>6 DEF Fault, TypeOK
<1>12. CASE UNCHANGED vars
  BY <1>12
  DEF vars, equinix, TypeOK, Progress, InLoop, Ready, TypeKnown, InstallsAsConfigured,
      Converted, Done, Reached, At
<1> QED
  BY <1>1, <1>2, <1>3, <1>4, <1>5, <1>6, <1>7, <1>8, <1>9, <1>10, <1>11, <1>12
  DEF Next, Proceed

-----------------------------------------------------------------------------
LEMMA InvAlways == Spec => []Inv
BY Initially, InvNext, PTL DEF Spec

(* The type invariant, and with it that every call is made on a port of    *)
(* the kind it is for.                                                     *)
THEOREM Typed == Spec => []TypeOK
<1>1. Inv => TypeOK
  BY DEF Inv
<1> QED
  BY <1>1, InvAlways, PTL

(* A device that would boot the installation is configured as its spec     *)
(* asks, as far as the pass that wrote the script was told it could be,    *)
(* whatever failed before, is being retried, or was reported of the ports. *)
THEOREM Configured == Spec => []InstallsAsConfigured
<1>1. Inv => InstallsAsConfigured
  BY DEF Inv
<1> QED
  BY <1>1, InvAlways, PTL

(* The types that keep the layer-3 bond never take it away, not even for a *)
(* moment.                                                                 *)
THEOREM Connected == Spec => []ManagementKept
<1>1. Init => ManagementKept
  BY DEF Init, ManagementKept
<1>2. Inv /\ ManagementKept /\ [Next]_vars => ManagementKept'
  <2> SUFFICES ASSUME Inv, ManagementKept, [Next]_vars PROVE ManagementKept'
    OBVIOUS
  <2> DEFINE P == Loops(config.type)[pass.round].ports
             S == IF config.type = "hybrid" THEN Eths \ Odd ELSE Eths
  <2>1. ASSUME config' = config, bonded' = bonded, layer2' = layer2
        PROVE  ManagementKept'
    BY <2>1 DEF ManagementKept
  <2>2. ASSUME Looping, NEW p \in pass.left, PortCall(Call, p), config' = config
        PROVE  ManagementKept'
    <3>1. config.type \in ValidTypes /\ pass.left # {} /\ InLoop
      BY <2>2 DEF Looping, Inv, Progress
    <3>2. pass.round \in 1..Len(Loops(config.type)) /\ p \in P
      <4>1. pass.round \in 0..Len(Loops(config.type)) /\ pass.round # 0
        BY <3>1 DEF InLoop
      <4>2. Len(Loops(config.type)) \in 0..3
        BY LoopFacts
      <4> QED
        BY <2>2, <3>1, <4>1, <4>2 DEF InLoop
    <3>3. LoopOK(config.type, Call, P)
      BY <3>2, LoopFacts DEF Call
    <3>4. CASE config.type \in {"layer3", "hybrid"}
      <4>1. Bond0 \notin layer2 /\ S \subseteq bonded /\ S \subseteq Eths
        BY <3>4 DEF ManagementKept
      <4>2. config.type = "hybrid" => S \cap Odd = {}
        OBVIOUS
      <4> HIDE DEF S, P
      <4>3. Bond0 \notin layer2' /\ S \subseteq bonded'
        BY <2>2, <3>2, <3>3, <3>4, <4>1, <4>2, CallKeepsManagement
      <4> QED
        BY <2>2, <4>3 DEF ManagementKept, S
    <3>5. CASE config.type \in {"", "hybrid-bonded"}
      BY <3>3, <3>5 DEF LoopOK
    <3>6. CASE config.type \notin {"", "layer3", "hybrid", "hybrid-bonded"}
      BY <2>2, <3>6 DEF ManagementKept
    <3> QED
      BY <3>4, <3>5, <3>6
  <2>3. CASE Next
    <3>1. CASE Convert
      BY <2>1, <2>2, <3>1 DEF Convert, Return, equinix
    <3>2. CASE Fault
      BY <2>1, <2>2, <3>2 DEF Fault, equinix, UpdateDevice
    <3>3. CASE Proceed /\ ~Convert
      BY <2>1, <3>3
      DEF Proceed, Get, RejectType, NextLoop, Skip, Assign, AllAssigned, Update,
          Reinstall, Report, Return, UpdateDevice, equinix
    <3> QED
      BY <2>3, <3>1, <3>2, <3>3 DEF Next
  <2>4. CASE UNCHANGED vars
    BY <2>1, <2>4 DEF vars, equinix
  <2> QED
    BY <2>3, <2>4
<1> QED
  BY <1>1, <1>2, InvAlways, PTL DEF Spec
=============================================================================
