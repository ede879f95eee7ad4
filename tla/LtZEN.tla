------------------------------- MODULE LtZEN -------------------------------
(***************************************************************************)
(* The share token of src/stlighter/LtZEN.sol on its two chains: the hub,  *)
(* where the minter mints and burns, and the spoke, where tokens arrive    *)
(* only through the bridge.  The bridge is LayerZero's OFT, which LtZEN    *)
(* inherits: a transfer burns on the source chain and mints on the other   *)
(* one when its packet is delivered, once, in any order, at any later time.*)
(***************************************************************************)
EXTENDS Integers

CONSTANTS
  Holders,      \* accounts that may hold shares, on both chains
  MaxPackets    \* bound: cross-chain transfers ever sent

ASSUME LtZENAssumption == MaxPackets \in Nat

Chains == {"hub", "spoke"}

VARIABLES
  hub, spoke,   \* balances on the two chains
  packets,      \* transfers sent and not yet delivered
  packetsSent   \* transfers ever sent

tokenVars  == <<hub, spoke, packets, packetsSent>>
bridgeVars == <<spoke, packets, packetsSent>>

Packet == [nonce : 0..(MaxPackets - 1), to : Holders, amount : Nat, destination : Chains]

Mint(to, amount) == hub' = [hub EXCEPT ![to] = @ + amount] /\ UNCHANGED bridgeVars

\* Mutant: the balance is looked at but not reduced.
BurnOnPaper(from, amount) ==
  /\ hub[from] >= amount
  /\ UNCHANGED <<hub, bridgeVars>>

Burn(from, amount) ==
  /\ hub[from] >= amount
  /\ hub' = [hub EXCEPT ![from] = @ - amount]
  /\ UNCHANGED bridgeVars

Transfer(from, to, amount) ==
  /\ hub[from] >= amount
  /\ hub' = [[hub EXCEPT ![from] = @ - amount] EXCEPT ![to] = @ + amount]
  /\ UNCHANGED bridgeVars

Dispatch(to, amount, destination) ==
  /\ packetsSent < MaxPackets
  /\ packets' = packets \cup
       {[nonce |-> packetsSent, to |-> to, amount |-> amount, destination |-> destination]}
  /\ packetsSent' = packetsSent + 1

SendToSpoke(from, to, amount) ==
  /\ hub[from] >= amount
  /\ hub' = [hub EXCEPT ![from] = @ - amount]
  /\ Dispatch(to, amount, "spoke")
  /\ UNCHANGED spoke

SendToHub(from, to, amount) ==
  /\ spoke[from] >= amount
  /\ spoke' = [spoke EXCEPT ![from] = @ - amount]
  /\ Dispatch(to, amount, "hub")
  /\ UNCHANGED hub

DeliverPacket(packet) ==
  /\ packets' = packets \ {packet}
  /\ IF packet.destination = "hub"
       THEN hub' = [hub EXCEPT ![packet.to] = @ + packet.amount] /\ UNCHANGED spoke
       ELSE spoke' = [spoke EXCEPT ![packet.to] = @ + packet.amount] /\ UNCHANGED hub
  /\ UNCHANGED packetsSent

TokenInit ==
  /\ hub = [h \in Holders |-> 0] /\ spoke = [h \in Holders |-> 0]
  /\ packets = {} /\ packetsSent = 0

\* What holders and the bridge do without the minter.
HolderStep(h) ==
  \/ \E to \in Holders : hub[h] > 0 /\ Transfer(h, to, hub[h])
  \/ \E amount \in 1..hub[h] : SendToSpoke(h, h, amount)
  \/ \E amount \in 1..spoke[h] : SendToHub(h, h, amount)

TokenStep ==
  \/ \E h \in Holders : HolderStep(h)
  \/ \E packet \in packets : DeliverPacket(packet)

\* Balances and packets have their types; no balance is negative.
TokenTypeOK ==
  /\ hub \in [Holders -> Nat] /\ spoke \in [Holders -> Nat]
  /\ packets \in SUBSET Packet
  /\ packetsSent \in Nat
=============================================================================
