---------------------------- MODULE WorldConfig ----------------------------
(***************************************************************************)
(* The part of World::LoadConfigSettings whose values depend on each other *)
(* and the setConfig helpers that read and clamp them.  A uint32 entry is  *)
(* read with GetIntDefault (an int), stored as uint32, and replaced by its *)
(* default when it reads back negative as int32; setConfigMin and          *)
(* setConfigMinMax then clamp it.  Several bounds are other entries read   *)
(* just before (the start level is bounded by the max level, characters   *)
(* per account by characters per realm, ...), and MaxPlayerLevel is read   *)
(* only at start-up (configNoReload).  A reload re-reads the file, or      *)
(* returns at once when the file cannot be read.                          *)
(***************************************************************************)
EXTENDS Integers, FiniteSets

CONSTANTS
    Raw,            \* Raw[k]: values entry k may have in mangosd.conf
    NoEntry,        \* the entry is missing: GetIntDefault gives the default
    DefaultMaxLevel,\* DEFAULT_MAX_LEVEL
    MaxLevel,       \* MAX_LEVEL
    RateKeys,       \* the Rate.* float entries of the model
    PosRateKeys,    \* those read with setConfigPos (the others: setConfig)
    RawFloat,       \* RawFloat[k]: values float entry k may have
    RawGrids,       \* LoadAllGridsOnMaps values, as the sets of map ids
    MaxVisibility,  \* MAX_VISIBILITY_DISTANCE
    DefaultVisibility, DefaultVisibilityInstance, DefaultVisibilityBG,
    Null            \* m_configForceLoadMapIds = NULL

Keys == {"CharactersPerRealm", "CharactersPerAccount", "MaxPlayerLevel",
         "StartPlayerLevel", "MaxHonorPoints", "StartHonorPoints",
         "MaintenanceDay", "GMStartLevel", "CharDeleteMinLevel",
         "MaxOverspeedPings"}

(* Float entries of the visibility block; distances are whole yards and   *)
(* rates whole numbers in the model.                                       *)
VisKeys == {"GreyUnit", "GreyObject", "Continents", "Instances", "BG",
            "InFlight"}

FloatKeys == RateKeys \cup VisKeys

ASSUME /\ DOMAIN Raw = Keys
       /\ "RateCreatureAggro" \in PosRateKeys /\ PosRateKeys \subseteq RateKeys
       /\ DOMAIN RawFloat = FloatKeys
       /\ \A k \in FloatKeys : RawFloat[k] \subseteq Int \cup {NoEntry}
       /\ \A g \in RawGrids : g # {}  => g \subseteq Nat
       /\ \A k \in Keys : Raw[k] \subseteq Int \cup {NoEntry}
       /\ 1 <= DefaultMaxLevel /\ DefaultMaxLevel <= MaxLevel

VARIABLES
    config,         \* World::m_configUint32Values for Keys
    rates,          \* World::m_configFloatValues for RateKeys
    visibility,     \* the static m_MaxVisibleDistance* / m_Visible*Grey*
    forceLoadMapIds,\* World::m_configForceLoadMapIds: Null or a map id set
    gridsEntry      \* history: the LoadAllGridsOnMaps entry last read

vars == <<config, rates, visibility, forceLoadMapIds, gridsEntry>>

(* The assignments of a file to the entries k of R, each within R[k].      *)
Choices(R) ==
    {g \in [DOMAIN R -> UNION {R[k] : k \in DOMAIN R}] :
        \A k \in DOMAIN R : g[k] \in R[k]}

FloatFiles == Choices(RawFloat)

(* The files mangosd.conf may be: each entry one of its Raw values.        *)
Files ==
    [CharactersPerRealm : Raw["CharactersPerRealm"],
     CharactersPerAccount : Raw["CharactersPerAccount"],
     MaxPlayerLevel : Raw["MaxPlayerLevel"],
     StartPlayerLevel : Raw["StartPlayerLevel"],
     MaxHonorPoints : Raw["MaxHonorPoints"],
     StartHonorPoints : Raw["StartHonorPoints"],
     MaintenanceDay : Raw["MaintenanceDay"], GMStartLevel : Raw["GMStartLevel"],
     CharDeleteMinLevel : Raw["CharDeleteMinLevel"],
     MaxOverspeedPings : Raw["MaxOverspeedPings"]]

(* sConfig.GetIntDefault as setConfig calls it: the entry, or the default  *)
(* when the file does not have it.                                         *)
GetIntDefault(f, k, def) == IF f[k] = NoEntry THEN def ELSE f[k]

(* Fault variant: the negative test is dropped; the value keeps the        *)
(* negative int32 reading the int had.                                     *)
SetConfigU32NoCheck(f, k, def) == GetIntDefault(f, k, def)

(* World::setConfig(eConfigUInt32Values, fieldname, defvalue).  The int    *)
(* read is stored as uint32 and tested as int32 again; for any int the     *)
(* round trip gives the value read, so an entry stays when it is not       *)
(* negative and falls back to the default otherwise.                       *)
SetConfigU32(f, k, def) ==
    LET v == GetIntDefault(f, k, def)
    IN  IF v < 0 THEN def ELSE v

(* World::setConfigMin (uint32).                                            *)
SetConfigMin(f, k, def, min) ==
    LET u == SetConfigU32(f, k, def) IN IF u < min THEN min ELSE u

(* Fault variant: the upper bound is not applied.                          *)
SetConfigMinMaxNoMax(f, k, def, min, max) ==
    LET u == SetConfigU32(f, k, def) IN IF u < min THEN min ELSE u

(* World::setConfigMinMax (uint32): below min gives min, else above max     *)
(* gives max.                                                              *)
SetConfigMinMax(f, k, def, min, max) ==
    LET u == SetConfigU32(f, k, def)
    IN  IF u < min THEN min ELSE IF u > max THEN max ELSE u

(* CharDelete.MinLevel: clamped to 0..getConfig(MAX_PLAYER_LEVEL), the     *)
(* value stored for this load (the start-up one on a reload).              *)
LoadCharDelete(f, maxLevel) ==
    SetConfigMinMax(f, "CharDeleteMinLevel", 0, 0, maxLevel)

(* MaxOverspeedPings: 0 disables the check, 1 is raised to 2.              *)
LoadOverspeedPings(f) ==
    LET p == SetConfigU32(f, "MaxOverspeedPings", 2)
    IN  IF p # 0 /\ p < 2 THEN 2 ELSE p

(* World::configNoReload: TRUE (read the entry) only at start-up; on a     *)
(* reload the current value is kept (a changed file only gets a log line). *)
ConfigNoReload(reload) == ~reload

(* The entries of LoadConfigSettings(reload) from file f over the current  *)
(* values c, in the code's order: each bound is the value just stored.     *)
LoadSettings(f, c, reload) ==
    LET perRealm   == SetConfigMinMax(f, "CharactersPerRealm", 10, 1, 10)
        perAccount == SetConfigMin(f, "CharactersPerAccount", 50, perRealm)
        maxLevel   == IF ConfigNoReload(reload)
                      THEN SetConfigMinMax(f, "MaxPlayerLevel", DefaultMaxLevel,
                                           1, DefaultMaxLevel)
                      ELSE c["MaxPlayerLevel"]
        startLevel == SetConfigMinMax(f, "StartPlayerLevel", 1, 1, maxLevel)
        maxHonor   == SetConfigU32(f, "MaxHonorPoints", 75000)
        startHonor == SetConfigMinMax(f, "StartHonorPoints", 0, 0, maxHonor)
        maintDay   == SetConfigMinMax(f, "MaintenanceDay", 4, 0, 6)
        gmLevel    == SetConfigMinMax(f, "GMStartLevel", 1, startLevel, MaxLevel)
    IN  [CharactersPerRealm |-> perRealm, CharactersPerAccount |-> perAccount,
         MaxPlayerLevel |-> maxLevel, StartPlayerLevel |-> startLevel,
         MaxHonorPoints |-> maxHonor, StartHonorPoints |-> startHonor,
         MaintenanceDay |-> maintDay, GMStartLevel |-> gmLevel,
         CharDeleteMinLevel |-> LoadCharDelete(f, maxLevel),
         MaxOverspeedPings |-> LoadOverspeedPings(f)]

(* sConfig.GetFloatDefault as the float setConfig calls it.               *)
GetFloatDefault(f, k, def) == IF f[k] = NoEntry THEN def ELSE f[k]

(* World::setConfigPos: a negative rate falls back to the default.         *)
SetConfigPos(f, k, def) ==
    LET v == GetFloatDefault(f, k, def) IN IF v < 0 THEN def ELSE v

(* "Read all rates from the config file": every Rate.* entry with its      *)
(* default 1.0, through setConfigPos or the unchecked float setConfig.     *)
LoadRates(f) ==
    [k \in RateKeys |-> IF k \in PosRateKeys THEN SetConfigPos(f, k, 1)
                                            ELSE GetFloatDefault(f, k, 1)]

(* A grey distance is capped at MAX_VISIBILITY_DISTANCE; nothing bounds it *)
(* from below.                                                             *)
GreyDistance(f, k, def) ==
    LET d == GetFloatDefault(f, k, def)
    IN  IF d > MaxVisibility THEN MaxVisibility ELSE d

(* A map visibility distance: raised to the max aggro radius, or else      *)
(* lowered so that it plus the grey unit distance fits the maximum.        *)
MapDistance(f, k, def, grey, aggroRadius) ==
    LET d == GetFloatDefault(f, k, def)
    IN  IF d < aggroRadius THEN aggroRadius
        ELSE IF d + grey > MaxVisibility THEN MaxVisibility - grey ELSE d

(* The visibility block of LoadConfigSettings, after Rate.Creature.Aggro.  *)
LoadVisibility(f, aggro) ==
    LET greyUnit   == GreyDistance(f, "GreyUnit", 1)
        greyObject == GreyDistance(f, "GreyObject", 10)
        radius     == 45 * aggro
        inFlight   == GetFloatDefault(f, "InFlight", DefaultVisibility)
    IN  [GreyUnit |-> greyUnit, GreyObject |-> greyObject,
         Continents |-> MapDistance(f, "Continents", DefaultVisibility,
                                    greyUnit, radius),
         Instances |-> MapDistance(f, "Instances", DefaultVisibilityInstance,
                                   greyUnit, radius),
         BG |-> MapDistance(f, "BG", DefaultVisibilityBG, greyUnit, radius),
         InFlight |-> IF inFlight + greyObject > MaxVisibility
                      THEN MaxVisibility - greyObject ELSE inFlight]

(* LoadAllGridsOnMaps: a non-empty entry allocates a new set of its map    *)
(* ids (the old one is neither freed nor cleared); an empty entry leaves   *)
(* m_configForceLoadMapIds as it was.                                      *)
LoadForceLoadMapIds(ids, current) == IF ids # {} THEN ids ELSE current

(* One whole LoadConfigSettings(reload) from the uint32 entries fu, the    *)
(* float entries ff and the map list g.                                    *)
Load(fu, ff, g, reload) ==
    LET r == LoadRates(ff)
    IN  /\ rates' = r
        /\ forceLoadMapIds' = LoadForceLoadMapIds(g, forceLoadMapIds)
        /\ config' = LoadSettings(fu, config, reload)
        /\ visibility' = LoadVisibility(ff, r["RateCreatureAggro"])
        /\ gridsEntry' = g

(* Start-up: LoadConfigSettings(false) on the file as it is, over the     *)
(* values the World constructor zeroed.                                    *)
Init ==
    \E fu \in Files, ff \in FloatFiles, g \in RawGrids :
        LET r == LoadRates(ff)
        IN  /\ rates = r
            /\ forceLoadMapIds = LoadForceLoadMapIds(g, Null)
            /\ config = LoadSettings(fu, [k \in Keys |-> 0], FALSE)
            /\ visibility = LoadVisibility(ff, r["RateCreatureAggro"])
            /\ gridsEntry = g

(* LoadConfigSettings(true) after the file was edited: when sConfig.Reload *)
(* fails nothing changes, otherwise every entry is read again.             *)
ReloadFailed == UNCHANGED vars

Reload ==
    \E fu \in Files, ff \in FloatFiles, g \in RawGrids : Load(fu, ff, g, TRUE)

Next == ReloadFailed \/ Reload

Spec == Init /\ [][Next]_vars

-----------------------------------------------------------------------------
(* Entries are held by their int32 reading, which is never negative, and   *)
(* rates read through setConfigPos are never negative either.              *)
TypeOK ==
    /\ config \in [Keys -> Nat]
    /\ rates \in [RateKeys -> Int]
    /\ \A k \in PosRateKeys : rates[k] >= 0
    /\ visibility \in [VisKeys -> Int]
    /\ forceLoadMapIds = Null \/ forceLoadMapIds \in SUBSET Nat

(* After any sequence of reloads, the entries still respect the bounds the *)
(* code derives from each other: the start level within 1..max level, the  *)
(* GM start level between the start level and MAX_LEVEL, at least as many  *)
(* characters per account as per realm, the start honor within the max,    *)
(* a maintenance weekday, an overspeed ping limit of 0 or at least 2, and  *)
(* a CharDelete level no player level exceeds.                             *)
ConfigConsistent ==
    /\ 1 <= config["StartPlayerLevel"]
    /\ config["StartPlayerLevel"] <= config["MaxPlayerLevel"]
    /\ config["MaxPlayerLevel"] <= DefaultMaxLevel
    /\ config["StartPlayerLevel"] <= config["GMStartLevel"]
    /\ config["GMStartLevel"] <= MaxLevel
    /\ config["CharactersPerAccount"] >= config["CharactersPerRealm"]
    /\ config["StartHonorPoints"] <= config["MaxHonorPoints"]
    /\ config["MaintenanceDay"] \in 0..6
    /\ config["MaxOverspeedPings"] # 1
    /\ config["CharDeleteMinLevel"] <= config["MaxPlayerLevel"]

(* The log lines of the visibility block say a map distance "can't be less *)
(* max aggro radius" and "can't be greater" than MAX_VISIBILITY_DISTANCE   *)
(* minus the grey distance: every distance loaded satisfies both.          *)
VisibilityWithinMax ==
    /\ \A k \in {"Continents", "Instances", "BG"} :
          /\ visibility[k] >= 45 * rates["RateCreatureAggro"]
          /\ visibility[k] + visibility["GreyUnit"] <= MaxVisibility
    /\ visibility["InFlight"] + visibility["GreyObject"] <= MaxVisibility

(* A reload takes the force-loaded maps from the file: when the edited      *)
(* LoadAllGridsOnMaps lists no map, no map is still force-loaded.          *)
ForceLoadFollowsFile ==
    forceLoadMapIds = IF gridsEntry = {} THEN Null ELSE gridsEntry

=============================================================================
