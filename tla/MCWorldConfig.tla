--------------------------- MODULE MCWorldConfig ---------------------------
EXTENDS WorldConfig

CONSTANT NoEntryValue

(* Each entry missing, in range, or out of range on either side (negative *)
(* values fall back to the default before the clamp).                      *)
MCRaw ==
    [k \in Keys |->
        CASE k = "CharactersPerRealm"   -> {NoEntryValue, 12}
          [] k = "CharactersPerAccount" -> {NoEntryValue, 5}
          [] k = "MaxPlayerLevel"       -> {NoEntryValue, 40}
          [] k = "StartPlayerLevel"     -> {NoEntryValue, 55}
          [] k = "MaxHonorPoints"       -> {NoEntryValue, -5, 100}
          [] k = "StartHonorPoints"     -> {NoEntryValue, 200}
          [] k = "MaintenanceDay"       -> {NoEntryValue, 9}
          [] k = "GMStartLevel"         -> {NoEntryValue}
          [] k = "CharDeleteMinLevel"   -> {NoEntryValue, 59}
          [] k = "MaxOverspeedPings"    -> {NoEntryValue, 1}]

(* Every uint32 entry missing: the file varies only in the float entries.  *)
MCRawDefaults == [k \in Keys |-> {NoEntryValue}]

MCRateKeys == {"RateCreatureAggro", "RateHealth", "RateRageIncome"}

MCPosRateKeys == {"RateCreatureAggro", "RateHealth"}

(* A setConfigPos rate missing or negative; the other entries missing.    *)
MCRawFloat ==
    [k \in FloatKeys |->
        IF k = "RateHealth" THEN {NoEntryValue, -2}
        ELSE {NoEntryValue}]

(* The aggro rate at its default or raised, grey distances within and      *)
(* beyond their range, and map distances below the aggro radius, in range  *)
(* and past the maximum.                                                    *)
MCRawFloatVisibility ==
    [k \in FloatKeys |->
        CASE k = "RateCreatureAggro" -> {NoEntryValue, 8}
          [] k = "GreyUnit"          -> {NoEntryValue, 300}
          [] k = "Continents"        -> {NoEntryValue, 20, 330}
          [] OTHER                   -> {NoEntryValue}]

MCRawGrids == {{}, {1}}
=============================================================================
