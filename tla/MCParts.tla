------------------------------- MODULE MCParts -------------------------------
(***************************************************************************)
(* Components that share no state, explored side by side in one run: the   *)
(* initial state chooses a part, and only that part takes steps.  The side *)
(* of the atomic swap is fixed where it is not looked at.                  *)
(***************************************************************************)
EXTENDS SwapContract, Rewards, ChannelCreation, AtomicSwap, ZmqClient

CONSTANTS p1, p2, h1, h2

MCMaker == [h \in Hashes |-> IF h = h1 THEN p1 ELSE p2]

VARIABLE part

Parts == {"contract", "rewards", "channel", "atomic", "chain"}

PartsInit ==
  /\ part \in Parts
  /\ ContractInit /\ RewardsInit /\ ChannelInit /\ AtomicInit /\ ZmqInit
  /\ part # "atomic" => side = "stx"

PartsNext ==
  /\ UNCHANGED part
  /\ \/ part = "contract" /\ ContractNext
        /\ UNCHANGED <<rewardsVars, channelVars, atomicVars, zmqVars>>
     \/ part = "rewards" /\ RewardsNext
        /\ UNCHANGED <<contractVars, channelVars, atomicVars, zmqVars>>
     \/ part = "channel" /\ ChannelNext
        /\ UNCHANGED <<contractVars, rewardsVars, atomicVars, zmqVars>>
     \/ part = "atomic" /\ AtomicNext
        /\ UNCHANGED <<contractVars, rewardsVars, channelVars, zmqVars>>
     \/ part = "chain" /\ ZmqNext
        /\ UNCHANGED <<contractVars, rewardsVars, channelVars, atomicVars>>

partsVars == <<part, contractVars, rewardsVars, channelVars, atomicVars, zmqVars>>
PartsSpec == PartsInit /\ [][PartsNext]_partsVars

(* Every part keeps its variables in their types.                          *)
PartsTypeOK ==
  /\ part \in Parts
  /\ ContractTypeOK /\ RewardsTypeOK /\ ChannelTypeOK /\ AtomicTypeOK /\ ZmqTypeOK
=============================================================================
