------------------------------- MODULE MCBridges -------------------------------
(* pcm-bridge and level-bridge are processes that share nothing: either is *)
(* run with the other at its start.                                        *)
EXTENDS PcmBridge, LevelTracker

VARIABLE process
allVars == <<bridgeVars, trackerVars, process>>

MCInit == BridgeInit /\ TrackerInit /\ process \in {"pcm-bridge", "level-bridge"}

MCNext ==
  \/ process = "pcm-bridge" /\ BridgeNext /\ UNCHANGED <<trackerVars, process>>
  \/ process = "level-bridge" /\ TrackerNext /\ UNCHANGED <<bridgeVars, process>>

MCSpec ==
  /\ MCInit /\ [][MCNext]_allVars
  /\ process = "pcm-bridge" => BridgeFairness
================================================================================
