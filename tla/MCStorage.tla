----------------------------- MODULE MCStorage ------------------------------
(* What is kept on the card, for TLC: the map of the image, the stream     *)
(* that reads by such a map, and the battery file.  A behaviour is about   *)
(* one of them.                                                            *)
EXTENDS MCRomStream, MCFileMap, MCBatteryFile

VARIABLE part

StorageInit ==
  /\ Init /\ MapInit /\ BatteryInit
  /\ part \in {"stream", "map", "battery"}
  /\ part # "stream" => cachedIn = [s \in Sector |-> None]
  /\ part # "map" => size = 1 /\ chain = <<2>>
  /\ part # "battery" => setup = CHOOSE s \in MCFitting : TRUE
StorageNext ==
  /\ \/ part = "stream" /\ Next /\ UNCHANGED <<mapVars, batteryVars>>
     \/ part = "map" /\ MapNext /\ UNCHANGED <<vars, batteryVars>>
     \/ part = "battery" /\ BatteryNext /\ UNCHANGED <<vars, mapVars>>
  /\ UNCHANGED part
StorageSpec ==
  StorageInit /\ [][StorageNext]_<<part, vars, mapVars, batteryVars>> /\ Fairness
=============================================================================
