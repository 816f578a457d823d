------------------------- MODULE ServerConfigProofs -------------------------
(***************************************************************************)
(* Theorems about ServerConfig, for every set of names, every way to trim, *)
(* order and match them, and everything the YAML file and the launch file  *)
(* may set.                                                                *)
(*                                                                         *)
(* The argument: each step of load() leaves what it decides in config, and *)
(* no later step decides it again.  The invariant says of every step what  *)
(* the configuration owes to those before it.                              *)
(***************************************************************************)
EXTENDS ServerConfig, FiniteSetTheorems, WellFoundedInduction, TLAPS

-----------------------------------------------------------------------------
(* The last of some keys.                                                  *)

\* A finite set of keys that is not empty has a last one, in the order of a std::map.
LEMMA LastOfIsOne ==
    ASSUME NEW K \in SUBSET Strings, IsFiniteSet(K), K # {}
    PROVE  LastOf(K) \in K
<1>. DEFINE IsLast(k, X) == k \in X /\ \A j \in X : KeyOrder[j] <= KeyOrder[k]
            Bad == {X \in FiniteSubsetsOf(Strings) : X # {} /\ ~\E k \in X : IsLast(k, X)}
<1>1. Bad = {}
  <2>. SUFFICES ASSUME Bad # {}
                PROVE  FALSE
    OBVIOUS
  <2>1. Bad \subseteq FiniteSubsetsOf(Strings)
    OBVIOUS
  <2>2. PICK X \in Bad : \A Y \in Bad : ~(<<Y, X>> \in StrictSubsetOrdering(Strings))
    <3>. HIDE DEF Bad
    <3>. QED  BY <2>1, FS_StrictSubsetOrderingWellFounded, WFMin
  <2>3. /\ X \subseteq Strings /\ IsFiniteSet(X) /\ X # {} /\ ~\E k \in X : IsLast(k, X)
    BY DEF FiniteSubsetsOf
  <2>4. PICK x \in X : TRUE
    BY <2>3
  <2>. DEFINE Y == X \ {x}
  <2>5. Y \in FiniteSubsetsOf(Strings) /\ <<Y, X>> \in StrictSubsetOrdering(Strings)
    BY <2>3, <2>4, FS_RemoveElement DEF FiniteSubsetsOf, StrictSubsetOrdering
  <2>6. Y = {} \/ \E y \in Y : IsLast(y, Y)
    BY <2>2, <2>5
  <2>7. \A j \in X : KeyOrder[j] \in Int
    BY <2>3, StringsAssumption
  <2>8. CASE Y = {}
    <3>1. IsLast(x, X)
      BY <2>4, <2>7, <2>8
    <3>. QED  BY <2>3, <2>4, <3>1
  <2>9. ASSUME NEW y \in Y, IsLast(y, Y)
        PROVE  FALSE
    <3>1. y \in X /\ KeyOrder[x] \in Int /\ KeyOrder[y] \in Int
      BY <2>4, <2>7
    <3>2. IsLast(x, X) \/ IsLast(y, X)
      BY <2>4, <2>7, <2>9, <3>1
    <3>. QED  BY <2>3, <2>4, <3>1, <3>2
  <2>. QED  BY <2>6, <2>8, <2>9
<1>2. K \in FiniteSubsetsOf(Strings)
  BY DEF FiniteSubsetsOf
<1>3. \E k \in K : \A j \in K : KeyOrder[j] <= KeyOrder[k]
  BY <1>1, <1>2
<1>. QED  BY <1>3 DEF LastOf
-----------------------------------------------------------------------------
(* The mappings of a configuration.                                        *)

\* Of the entries whose keys trim to one name, one is taken, and none for the
\* empty name.
LEMMA TrimmedEntries ==
    ASSUME NEW block, DOMAIN block \subseteq Strings, IsFiniteSet(DOMAIN block)
    PROVE  LET named == ByTrimmedKey(block)
           IN /\ DOMAIN named = {Trim[k] : k \in DOMAIN block} \ {Empty}
              /\ \A n \in DOMAIN named :
                     \E k \in DOMAIN block : Trim[k] = n /\ named[n] = block[k]
<1>. DEFINE named == ByTrimmedKey(block)
            keys(n) == {k \in DOMAIN block : Trim[k] = n}
<1>1. /\ DOMAIN named = {Trim[k] : k \in DOMAIN block} \ {Empty}
      /\ \A n \in DOMAIN named : named[n] = block[LastOf(keys(n))]
  BY DEF ByTrimmedKey
<1>2. ASSUME NEW n \in DOMAIN named
      PROVE  LastOf(keys(n)) \in keys(n)
  <2>1. keys(n) # {} /\ keys(n) \subseteq DOMAIN block /\ keys(n) \in SUBSET Strings
    BY <1>1
  <2>2. IsFiniteSet(keys(n))
    BY <2>1, FS_Subset
  <2>. QED  BY <2>1, <2>2, LastOfIsOne
<1>. QED  BY <1>1, <1>2

\* parseRobots() maps a model to one of the enabled robots that name it.
LEMMA MappedRobots ==
    ASSUME NEW block, DOMAIN block \subseteq Strings, IsFiniteSet(DOMAIN block)
    PROVE  LET naming(n) == {r \in DOMAIN block : /\ RobotIsEnabled(block[r])
                                                 /\ NamesModel(block[r])
                                                 /\ ModelOf(block[r]) = n}
           IN \A n : /\ n \in DOMAIN RobotMappings(block) <=> naming(n) # {}
                     /\ naming(n) # {} => RobotMappings(block)[n] \in naming(n)
<1>. DEFINE naming(n) == {r \in DOMAIN block : /\ RobotIsEnabled(block[r])
                                              /\ NamesModel(block[r])
                                              /\ ModelOf(block[r]) = n}
            all == {r \in DOMAIN block : RobotIsEnabled(block[r]) /\ NamesModel(block[r])}
<1>1. /\ DOMAIN RobotMappings(block) = {ModelOf(block[r]) : r \in all}
      /\ \A n \in DOMAIN RobotMappings(block) :
             RobotMappings(block)[n] = LastOf({r \in all : ModelOf(block[r]) = n})
  BY DEF RobotMappings
<1>2. \A n : {r \in all : ModelOf(block[r]) = n} = naming(n)
  OBVIOUS
<1>3. ASSUME NEW n, naming(n) # {}
      PROVE  LastOf(naming(n)) \in naming(n)
  <2>1. naming(n) \subseteq DOMAIN block /\ naming(n) \in SUBSET Strings
    OBVIOUS
  <2>2. IsFiniteSet(naming(n))
    BY <2>1, FS_Subset
  <2>. HIDE DEF naming
  <2>. QED  BY <1>3, <2>1, <2>2, LastOfIsOne
<1>4. \A n : n \in DOMAIN RobotMappings(block) <=> naming(n) # {}
  BY <1>1
<1>5. ASSUME NEW n, naming(n) # {}
      PROVE  RobotMappings(block)[n] \in naming(n)
  <2>1. RobotMappings(block)[n] = LastOf(naming(n))
    BY <1>1, <1>2, <1>4, <1>5
  <2>. HIDE DEF naming
  <2>. QED  BY <1>3, <1>5, <2>1
<1>. QED  BY <1>4, <1>5

\* parseManualMapping() maps a model by one of its entries that has a tracker.
LEMMA MappedManually ==
    ASSUME NEW block, DOMAIN block \subseteq Strings, IsFiniteSet(DOMAIN block)
    PROVE  LET entries(n) == {k \in DOMAIN block : Trim[k] = n /\ Trim[block[k]] # Empty}
           IN \A n : /\ n \in DOMAIN ManualMappings(block) <=> n # Empty /\ entries(n) # {}
                     /\ n \in DOMAIN ManualMappings(block) =>
                            ManualMappings(block)[n] \in {Trim[block[k]] : k \in entries(n)}
<1>. DEFINE entries(n) == {k \in DOMAIN block : Trim[k] = n /\ Trim[block[k]] # Empty}
            keys == {j \in DOMAIN block : Trim[block[j]] # Empty}
            used == [k \in keys |-> block[k]]
            named == ByTrimmedKey(used)
<1>1. keys \subseteq Strings /\ IsFiniteSet(keys) /\ DOMAIN used = keys
      /\ \A k \in keys : used[k] = block[k]
  BY FS_Subset
<1>2. ManualMappings(block) = [n \in DOMAIN named |-> Trim[named[n]]]
  BY DEF ManualMappings
<1>. HIDE DEF used
<1>3. /\ DOMAIN named = {Trim[k] : k \in keys} \ {Empty}
      /\ \A n \in DOMAIN named : \E k \in keys : Trim[k] = n /\ named[n] = block[k]
  <2>1. /\ DOMAIN named = {Trim[k] : k \in DOMAIN used} \ {Empty}
        /\ \A n \in DOMAIN named : \E k \in DOMAIN used : Trim[k] = n /\ named[n] = used[k]
    <3>1. DOMAIN used \subseteq Strings /\ IsFiniteSet(DOMAIN used)
      BY <1>1
    <3>. QED  BY <3>1, TrimmedEntries
  <2>. HIDE DEF keys, named
  <2>. QED  BY <1>1, <2>1
<1>. HIDE DEF named
<1>4. \A n : n \in DOMAIN ManualMappings(block) <=> n # Empty /\ entries(n) # {}
  BY <1>2, <1>3
<1>5. ASSUME NEW n \in DOMAIN ManualMappings(block)
      PROVE  ManualMappings(block)[n] \in {Trim[block[k]] : k \in entries(n)}
  <2>1. PICK k \in keys : Trim[k] = n /\ named[n] = block[k]
    BY <1>2, <1>3
  <2>. QED  BY <1>2, <2>1
<1>. QED  BY <1>4, <1>5

\* A mapping that the loader does not reject is one that a YAML file can have.
LEMMA BlocksAreMaps ==
    ASSUME setup \in Setups, NEW key \in {"robots", "manual_mapping", "extrinsics"},
           ~IsMalformed(key)
    PROVE  LET block == Param(key, EmptyFunction)
           IN DOMAIN block \subseteq Strings /\ IsFiniteSet(DOMAIN block)
<1>. DEFINE block == Param(key, EmptyFunction)
<1>1. block # Malformed
  BY DEF IsMalformed
<1>2. CASE key \notin DOMAIN Params
  <2>1. DOMAIN block = {}
    BY <1>2 DEF Param, Given, EmptyFunction
  <2>. QED  BY <2>1, FS_EmptySet
<1>3. CASE key \in DOMAIN Params
  <2>1. PICK params \in {setup.yaml, setup.launch} : key \in DOMAIN params /\ block = params[key]
    BY <1>3 DEF Param, Given, Params, Merge
  <2>. QED  BY <1>1, <2>1, SetupsAssumption
<1>. QED  BY <1>2, <1>3
-----------------------------------------------------------------------------
(* The inductive invariant: what each step of load() finds decided.        *)

FromValidate == {"validate", "loaded"}
FromDelayOverrides == {"delay_overrides"} \cup FromValidate
FromAutoOverrides == {"auto_mapping_overrides"} \cup FromDelayOverrides
FromExtrinsics == {"extrinsics"} \cup FromAutoOverrides
FromManualMapping == {"manual_mapping"} \cup FromExtrinsics
ToRobots == {"mocap_noise", "delay", "auto_mapping", "robots"}
FromMocapNoise == ToRobots \cup FromManualMapping
FromTrackers == {"trackers", "default_body_to_tracker"} \cup FromMocapNoise

ExtrinsicsGiven == Param("extrinsics", EmptyFunction)
DefaultTransform == TransformIn(Param("default_body_to_tracker", EmptyFunction))

RobotTransform(block, default) ==
    IF RobotIsEnabled(block) /\ "body_to_tracker" \in DOMAIN block
    THEN TransformIn(block.body_to_tracker) ELSE default

\* The patterns if the launch file gives a list of trackers.
ListedPatterns ==
    IF StringList(setup.launch.trackers) # <<>> THEN StringList(setup.launch.trackers)
    ELSE StringList(Param("enabled_trackers", <<>>))

Argument(key, value) == key \in DOMAIN setup.launch => value = setup.launch[key]

ConfigGood ==
    /\ setup \in Setups
    /\ DOMAIN config = DOMAIN DefaultConfig
    /\ {"enabled", "timestamp_policy", "seed"} \subseteq DOMAIN config.delay

\* configured_model_to_tracker, by robots and then by manual_mapping.
MappingGood ==
    /\ step \in {"parameters", "trackers", "default_body_to_tracker"} \cup ToRobots =>
           config.configured_model_to_tracker = EmptyFunction
    /\ step = "manual_mapping" =>
           config.configured_model_to_tracker = Merge(EmptyFunction, RobotMappings(Robots))
    /\ step \in FromManualMapping => ~IsMalformed("robots")
    /\ step \in FromExtrinsics =>
           /\ ~IsMalformed("manual_mapping")
           /\ config.configured_model_to_tracker =
                  Merge(Merge(EmptyFunction, RobotMappings(Robots)), ManualMappings(ManualMapping))

\* The transforms, by default_body_to_tracker, robots and then extrinsics.
TransformsGood ==
    /\ step \in {"parameters", "trackers", "default_body_to_tracker"} =>
           config.default_body_to_tracker = TransformIn(EmptyFunction)
    /\ step \in FromMocapNoise => config.default_body_to_tracker = DefaultTransform
    /\ step \in {"parameters", "trackers", "default_body_to_tracker"} \cup ToRobots =>
           config.robot_configs = EmptyFunction
    /\ step \in {"manual_mapping", "extrinsics"} =>
           /\ DOMAIN config.robot_configs = DOMAIN Robots
           /\ \A r \in DOMAIN Robots : config.robot_configs[r].body_to_tracker
                                           = RobotTransform(Robots[r], DefaultTransform)
    /\ step \in FromAutoOverrides =>
           LET named == ByTrimmedKey(ExtrinsicsGiven)
           IN /\ ~IsMalformed("extrinsics")
              /\ DOMAIN config.robot_configs = DOMAIN Robots \cup DOMAIN named
              /\ \A t \in DOMAIN config.robot_configs :
                     config.robot_configs[t].body_to_tracker =
                         IF t \in DOMAIN named THEN TransformIn(named[t])
                         ELSE RobotTransform(Robots[t], DefaultTransform)

\* What the launch file has set and has been read.
ArgumentsGood ==
    /\ step \in FromTrackers => /\ Argument("port", config.port)
                                /\ Argument("scan_interval", config.scan_interval)
                                /\ Argument("match_mode", config.match_mode)
    /\ step \in {"default_body_to_tracker"} \cup FromMocapNoise =>
           ("trackers" \in DOMAIN setup.launch => config.tracker_patterns = ListedPatterns)
    /\ step \in FromDelayOverrides =>
           Argument("auto_track_known_models", config.auto_track_known_models)
    /\ step \in FromValidate =>
           /\ Argument("delay_enabled", config.delay.enabled)
           /\ Argument("delay_timestamp_policy", config.delay.timestamp_policy)
           /\ "delay_seed" \in DOMAIN setup.launch =>
                  config.delay.seed = NonNegative(setup.launch.delay_seed)

LoadInv == ConfigGood /\ MappingGood /\ TransformsGood /\ ArgumentsGood
-----------------------------------------------------------------------------
(* The steps of load().                                                    *)

USE DEF FromValidate, FromDelayOverrides, FromAutoOverrides, FromExtrinsics, FromManualMapping,
        ToRobots, FromMocapNoise, FromTrackers

LEMMA FieldsOfConfig ==
    DOMAIN DefaultConfig =
        {"port", "scan_interval", "match_mode", "auto_track_known_models",
         "auto_include_patterns", "tracker_patterns", "robot_configs",
         "configured_model_to_tracker", "default_body_to_tracker", "mocap_noise", "delay"}
BY DEF DefaultConfig

\* An argument of the launch file is the value of its parameter.
LEMMA ArgumentIsParam ==
    ASSUME NEW key \in DOMAIN setup.launch
    PROVE  /\ key \in DOMAIN Params /\ Params[key] = setup.launch[key]
           /\ \A default : Param(key, default) = setup.launch[key]
BY DEF Params, Merge, Param, Given

\* The parameters stay.
LEMMA ParamsStay ==
    ASSUME UNCHANGED setup
    PROVE  /\ Params' = Params /\ Robots' = Robots /\ ManualMapping' = ManualMapping
           /\ ExtrinsicsGiven' = ExtrinsicsGiven /\ DefaultTransform' = DefaultTransform
           /\ ListedPatterns' = ListedPatterns
           /\ \A key : IsMalformed(key)' <=> IsMalformed(key)
           /\ \A key, value : Argument(key, value)' <=> Argument(key, value)
BY DEF Params, Robots, ManualMapping, ExtrinsicsGiven, DefaultTransform, IsMalformed, Param,
       ListedPatterns, Argument

\* A step that throws leaves nothing to be said.
LEMMA ThrowKeepsInv ==
    ASSUME LoadInv, Throw
    PROVE  LoadInv'
<1>1. step' = "rejected" /\ setup' = setup /\ config' = DefaultConfig
  BY DEF Throw
<1>2. ConfigGood'
  BY <1>1 DEF LoadInv, ConfigGood, DefaultConfig
<1>3. MappingGood' /\ TransformsGood' /\ ArgumentsGood'
  BY <1>1 DEF MappingGood, TransformsGood, ArgumentsGood
<1>. QED  BY <1>2, <1>3 DEF LoadInv

\* A step that goes on and changes some fields of the configuration.
Moves(here, next, changed) ==
    /\ step = here /\ step' = next /\ setup' = setup
    /\ DOMAIN config' = DOMAIN config
    /\ \A f \in DOMAIN config \ changed : config'[f] = config[f]

\* The fields that the invariant speaks of and such a step leaves alone.
LEMMA MovesKeep ==
    ASSUME ConfigGood, NEW here, NEW next, NEW changed, Moves(here, next, changed)
    PROVE  /\ "port" \notin changed => config'.port = config.port
           /\ "match_mode" \notin changed => config'.match_mode = config.match_mode
           /\ "scan_interval" \notin changed => config'.scan_interval = config.scan_interval
           /\ "tracker_patterns" \notin changed =>
                  config'.tracker_patterns = config.tracker_patterns
           /\ "auto_track_known_models" \notin changed =>
                  config'.auto_track_known_models = config.auto_track_known_models
           /\ "configured_model_to_tracker" \notin changed =>
                  config'.configured_model_to_tracker = config.configured_model_to_tracker
           /\ "robot_configs" \notin changed => config'.robot_configs = config.robot_configs
           /\ "default_body_to_tracker" \notin changed =>
                  config'.default_body_to_tracker = config.default_body_to_tracker
           /\ "delay" \notin changed => config'.delay = config.delay
           /\ ConfigGood' \/ "delay" \in changed
BY FieldsOfConfig DEF Moves, ConfigGood

LEMMA ParametersKeepInv ==
    ASSUME LoadInv, LoadParameters
    PROVE  LoadInv'
<1>. DEFINE changed == {"port", "scan_interval", "match_mode", "mocap_noise"}
<1>1. ConfigGood
  BY DEF LoadInv
<1>2. /\ Moves("parameters", "trackers", changed)
      /\ config'.port = Param("port", config.port)
      /\ config'.match_mode = Param("match_mode", config.match_mode)
      /\ config'.scan_interval = Param("scan_interval", config.scan_interval)
  BY <1>1, FieldsOfConfig DEF LoadParameters, Moves, Override, Given, ConfigGood
<1>3. step = "parameters" /\ step' = "trackers" /\ setup' = setup
  BY <1>2 DEF Moves
<1>4. /\ ConfigGood'
      /\ config'.configured_model_to_tracker = config.configured_model_to_tracker
      /\ config'.robot_configs = config.robot_configs
      /\ config'.default_body_to_tracker = config.default_body_to_tracker
  BY <1>1, <1>2, MovesKeep
<1>5. /\ Argument("port", config.port)' /\ Argument("match_mode", config.match_mode)'
      /\ Argument("scan_interval", config.scan_interval)'
  BY <1>2, <1>3, ArgumentIsParam DEF Argument
<1>. QED  BY <1>3, <1>4, <1>5 DEF LoadInv, MappingGood, TransformsGood, ArgumentsGood

LEMMA TrackersKeepInv ==
    ASSUME LoadInv, LoadTrackers
    PROVE  LoadInv'
<1>. DEFINE listed == IF IsMalformed("trackers") THEN <<>> ELSE StringList(Param("trackers", <<>>))
            patterns == IF listed # <<>> THEN listed
                        ELSE StringList(Param("enabled_trackers", <<>>))
<1>1. ConfigGood
  BY DEF LoadInv
<1>2. CASE Throw
  BY <1>2, ThrowKeepsInv
<1>3. CASE ~Throw
  <2>1. /\ step = "trackers" /\ step' = "default_body_to_tracker" /\ setup' = setup
        /\ ~IsMalformed("trackers")
        /\ config' = [config EXCEPT !.tracker_patterns = patterns]
    BY <1>3 DEF LoadTrackers, Step
  <2>2. /\ Moves("trackers", "default_body_to_tracker", {"tracker_patterns"})
        /\ config'.tracker_patterns = patterns
    BY <1>1, <2>1, FieldsOfConfig DEF Moves, ConfigGood
  <2>3. /\ ConfigGood'
        /\ config'.port = config.port /\ config'.match_mode = config.match_mode
        /\ config'.scan_interval = config.scan_interval
        /\ config'.configured_model_to_tracker = config.configured_model_to_tracker
        /\ config'.robot_configs = config.robot_configs
        /\ config'.default_body_to_tracker = config.default_body_to_tracker
    BY <1>1, <2>2, MovesKeep
  <2>4. "trackers" \in DOMAIN setup'.launch => config'.tracker_patterns = ListedPatterns'
    <3>. SUFFICES ASSUME "trackers" \in DOMAIN setup.launch
                  PROVE  patterns = ListedPatterns
      BY <2>1, <2>2, ParamsStay
    <3>. QED  BY <2>1, ArgumentIsParam DEF ListedPatterns
  <2>. QED  BY <2>1, <2>3, <2>4, ParamsStay
            DEF LoadInv, MappingGood, TransformsGood, ArgumentsGood, Argument
<1>. QED  BY <1>2, <1>3

LEMMA DefaultTransformKeepsInv ==
    ASSUME LoadInv, LoadDefaultTransform
    PROVE  LoadInv'
<1>1. ConfigGood
  BY DEF LoadInv
<1>2. CASE Throw
  BY <1>2, ThrowKeepsInv
<1>3. CASE ~Throw
  <2>. DEFINE transform == IF "default_body_to_tracker" \in DOMAIN Params
                           THEN TransformIn(Params.default_body_to_tracker)
                           ELSE config.default_body_to_tracker
  <2>1. /\ step = "default_body_to_tracker" /\ step' = "mocap_noise" /\ setup' = setup
        /\ config' = [config EXCEPT !.default_body_to_tracker = transform]
    BY <1>3 DEF LoadDefaultTransform, Step
  <2>2. /\ Moves("default_body_to_tracker", "mocap_noise", {"default_body_to_tracker"})
        /\ config'.default_body_to_tracker = transform
    BY <1>1, <2>1, FieldsOfConfig DEF Moves, ConfigGood
  <2>3. /\ ConfigGood'
        /\ config'.port = config.port /\ config'.match_mode = config.match_mode
        /\ config'.scan_interval = config.scan_interval
        /\ config'.tracker_patterns = config.tracker_patterns
        /\ config'.configured_model_to_tracker = config.configured_model_to_tracker
        /\ config'.robot_configs = config.robot_configs
    BY <1>1, <2>2, MovesKeep
  <2>4. transform = DefaultTransform
    BY <2>1 DEF LoadInv, TransformsGood, DefaultTransform, Param, Given
  <2>5. config'.default_body_to_tracker = DefaultTransform'
    BY <2>1, <2>2, <2>4, ParamsStay
  <2>. QED  BY <2>1, <2>3, <2>5, ParamsStay
            DEF LoadInv, MappingGood, TransformsGood, ArgumentsGood, Argument
<1>. QED  BY <1>2, <1>3

\* What the invariant needs of a step between default_body_to_tracker and robots
\* that leaves the fields alone that are already decided.
LEMMA EarlyStepKeepsInv ==
    ASSUME LoadInv, NEW here \in {"mocap_noise", "delay", "auto_mapping"},
           NEW next \in {"delay", "auto_mapping", "robots"}, NEW changed,
           Moves(here, next, changed), ConfigGood',
           changed \subseteq {"mocap_noise", "delay", "auto_track_known_models",
                              "auto_include_patterns"}
    PROVE  LoadInv'
<1>1. ConfigGood
  BY DEF LoadInv
<1>2. step = here /\ step' = next /\ setup' = setup
  BY DEF Moves
<1>3. /\ config'.port = config.port /\ config'.match_mode = config.match_mode
      /\ config'.scan_interval = config.scan_interval
      /\ config'.tracker_patterns = config.tracker_patterns
      /\ config'.configured_model_to_tracker = config.configured_model_to_tracker
      /\ config'.robot_configs = config.robot_configs
      /\ config'.default_body_to_tracker = config.default_body_to_tracker
  BY <1>1, MovesKeep
<1>4. DefaultTransform' = DefaultTransform
  BY <1>2, ParamsStay
<1>. QED  BY <1>2, <1>3, <1>4, ParamsStay
          DEF LoadInv, MappingGood, TransformsGood, ArgumentsGood, Argument

LEMMA MocapNoiseKeepsInv ==
    ASSUME LoadInv, ParseMocapNoise
    PROVE  LoadInv'
<1>1. ConfigGood
  BY DEF LoadInv
<1>2. CASE Throw
  BY <1>2, ThrowKeepsInv
<1>3. CASE ~Throw
  <2>1. Moves("mocap_noise", "delay", {"mocap_noise"})
    BY <1>1, <1>3, FieldsOfConfig DEF ParseMocapNoise, Moves, ConfigGood
  <2>2. ConfigGood'
    BY <1>1, <2>1, MovesKeep
  <2>. QED  BY <2>1, <2>2, EarlyStepKeepsInv
<1>. QED  BY <1>2, <1>3

LEMMA DelayKeepsInv ==
    ASSUME LoadInv, ParseDelay
    PROVE  LoadInv'
<1>1. ConfigGood
  BY DEF LoadInv
<1>2. CASE Throw
  BY <1>2, ThrowKeepsInv
<1>3. CASE ~Throw
  <2>. DEFINE delay == DelayIn(config.delay, Param("delay", EmptyFunction))
  <2>1. /\ step = "delay" /\ step' = "auto_mapping" /\ setup' = setup
        /\ config' = [config EXCEPT !.delay = delay]
    BY <1>3 DEF ParseDelay, Step
  <2>2. {"enabled", "timestamp_policy", "seed"} \subseteq DOMAIN delay
    BY DEF DelayIn
  <2>3. Moves("delay", "auto_mapping", {"delay"}) /\ ConfigGood'
    <3>. HIDE DEF delay
    <3>. QED  BY <1>1, <2>1, <2>2, FieldsOfConfig DEF Moves, ConfigGood
  <2>. QED  BY <2>3, EarlyStepKeepsInv
<1>. QED  BY <1>2, <1>3

LEMMA AutoMappingKeepsInv ==
    ASSUME LoadInv, ParseAutoMapping
    PROVE  LoadInv'
<1>1. ConfigGood
  BY DEF LoadInv
<1>2. CASE Throw
  BY <1>2, ThrowKeepsInv
<1>3. CASE ~Throw
  <2>. DEFINE changed == {"auto_track_known_models", "auto_include_patterns"}
  <2>1. Moves("auto_mapping", "robots", changed)
    BY <1>1, <1>3, FieldsOfConfig DEF ParseAutoMapping, Step, Moves, ConfigGood, Override, Given
  <2>2. ConfigGood'
    BY <1>1, <2>1, MovesKeep
  <2>. QED  BY <2>1, <2>2, EarlyStepKeepsInv
<1>. QED  BY <1>2, <1>3

LEMMA RobotsKeepInv ==
    ASSUME LoadInv, ParseRobots
    PROVE  LoadInv'
<1>1. ConfigGood
  BY DEF LoadInv
<1>2. CASE Throw
  BY <1>2, ThrowKeepsInv
<1>3. CASE ~Throw
  <2>. DEFINE changed == {"robot_configs", "configured_model_to_tracker"}
  <2>1. /\ step = "robots" /\ step' = "manual_mapping" /\ setup' = setup
        /\ ~IsMalformed("robots") /\ config' = WithRobots(config, Robots)
    BY <1>3 DEF ParseRobots, Step, Robots
  <2>2. /\ Moves("robots", "manual_mapping", changed)
        /\ config'.robot_configs = Merge(config.robot_configs,
                                         [r \in DOMAIN Robots |-> RobotIn(config, Robots[r])])
        /\ config'.configured_model_to_tracker = Merge(config.configured_model_to_tracker,
                                                       RobotMappings(Robots))
    BY <1>1, <2>1, FieldsOfConfig DEF Moves, ConfigGood, WithRobots, Override, Given
  <2>3. /\ ConfigGood'
        /\ config'.port = config.port /\ config'.match_mode = config.match_mode
        /\ config'.scan_interval = config.scan_interval
        /\ config'.tracker_patterns = config.tracker_patterns
        /\ config'.default_body_to_tracker = config.default_body_to_tracker
    BY <1>1, <2>2, MovesKeep
  <2>4. /\ config.robot_configs = EmptyFunction
        /\ config.configured_model_to_tracker = EmptyFunction
        /\ config.default_body_to_tracker = DefaultTransform
    BY <2>1 DEF LoadInv, MappingGood, TransformsGood
  <2>5. /\ DOMAIN config'.robot_configs = DOMAIN Robots
        /\ \A r \in DOMAIN Robots : config'.robot_configs[r] = RobotIn(config, Robots[r])
    BY <2>2, <2>4 DEF Merge, EmptyFunction
  <2>6. \A r \in DOMAIN Robots : config'.robot_configs[r].body_to_tracker
                                     = RobotTransform(Robots[r], DefaultTransform)
    <3>1. ASSUME NEW block
          PROVE  RobotIn(config, block).body_to_tracker
                     = RobotTransform(block, config.default_body_to_tracker)
      BY DEF RobotIn, RobotTransform
    <3>. QED  BY <2>4, <2>5, <3>1
  <2>7. /\ DefaultTransform' = DefaultTransform /\ Robots' = Robots
        /\ ~IsMalformed("robots")'
    BY <2>1, ParamsStay
  <2>8. MappingGood'
    BY <2>1, <2>2, <2>4, <2>7 DEF MappingGood
  <2>9. TransformsGood'
    BY <2>1, <2>3, <2>4, <2>5, <2>6, <2>7 DEF TransformsGood
  <2>10. ArgumentsGood'
    BY <2>1, <2>3, ParamsStay DEF LoadInv, ArgumentsGood, Argument
  <2>. QED  BY <2>3, <2>8, <2>9, <2>10 DEF LoadInv
<1>. QED  BY <1>2, <1>3

LEMMA ManualMappingKeepsInv ==
    ASSUME LoadInv, ParseManualMapping
    PROVE  LoadInv'
<1>1. ConfigGood
  BY DEF LoadInv
<1>2. CASE Throw
  BY <1>2, ThrowKeepsInv
<1>3. CASE ~Throw
  <2>1. /\ step = "manual_mapping" /\ step' = "extrinsics" /\ setup' = setup
        /\ ~IsMalformed("manual_mapping")
        /\ config' = WithManualMapping(config, ManualMapping)
    BY <1>3 DEF ParseManualMapping, Step, ManualMapping
  <2>2. /\ Moves("manual_mapping", "extrinsics", {"configured_model_to_tracker"})
        /\ config'.configured_model_to_tracker = Merge(config.configured_model_to_tracker,
                                                       ManualMappings(ManualMapping))
    BY <1>1, <2>1, FieldsOfConfig DEF Moves, ConfigGood, WithManualMapping
  <2>3. /\ ConfigGood'
        /\ config'.port = config.port /\ config'.match_mode = config.match_mode
        /\ config'.scan_interval = config.scan_interval
        /\ config'.tracker_patterns = config.tracker_patterns
        /\ config'.robot_configs = config.robot_configs
        /\ config'.default_body_to_tracker = config.default_body_to_tracker
    BY <1>1, <2>2, MovesKeep
  <2>4. /\ DefaultTransform' = DefaultTransform
        /\ Robots' = Robots /\ ManualMapping' = ManualMapping
        /\ IsMalformed("robots")' <=> IsMalformed("robots")
        /\ ~IsMalformed("manual_mapping")'
    BY <2>1, ParamsStay
  <2>5. MappingGood'
    BY <2>1, <2>2, <2>4 DEF LoadInv, MappingGood
  <2>6. TransformsGood'
    BY <2>1, <2>3, <2>4 DEF LoadInv, TransformsGood
  <2>7. ArgumentsGood'
    BY <2>1, <2>3, ParamsStay DEF LoadInv, ArgumentsGood, Argument
  <2>. QED  BY <2>3, <2>5, <2>6, <2>7 DEF LoadInv
<1>. QED  BY <1>2, <1>3

LEMMA ExtrinsicsKeepInv ==
    ASSUME LoadInv, ParseExtrinsics
    PROVE  LoadInv'
<1>1. ConfigGood
  BY DEF LoadInv
<1>2. CASE Throw
  BY <1>2, ThrowKeepsInv
<1>3. CASE ~Throw
  <2>. DEFINE named == ByTrimmedKey(ExtrinsicsGiven)
  <2>1. /\ step = "extrinsics" /\ step' = "auto_mapping_overrides" /\ setup' = setup
        /\ ~IsMalformed("extrinsics")
        /\ config' = WithExtrinsics(config, ExtrinsicsGiven)
    BY <1>3 DEF ParseExtrinsics, Step, ExtrinsicsGiven
  <2>2. PICK created : /\ DOMAIN created = DOMAIN named
                       /\ \A t \in DOMAIN named :
                              created[t].body_to_tracker = TransformIn(named[t])
                       /\ config' = [config EXCEPT !.robot_configs =
                                        Merge(config.robot_configs, created)]
    <3>. DEFINE created == [t \in DOMAIN named |->
                              [enabled |-> t \in DOMAIN config.robot_configs
                                              => config.robot_configs[t].enabled,
                               body_to_tracker |-> TransformIn(named[t])]]
    <3>1. config' = [config EXCEPT !.robot_configs = Merge(config.robot_configs, created)]
      BY <2>1 DEF WithExtrinsics
    <3>2. /\ DOMAIN created = DOMAIN named
          /\ \A t \in DOMAIN named : created[t].body_to_tracker = TransformIn(named[t])
      OBVIOUS
    <3>. HIDE DEF created
    <3>. QED  BY <3>1, <3>2
  <2>3. /\ Moves("extrinsics", "auto_mapping_overrides", {"robot_configs"})
        /\ config'.robot_configs = Merge(config.robot_configs, created)
    BY <1>1, <2>1, <2>2, FieldsOfConfig DEF Moves, ConfigGood
  <2>4. /\ ConfigGood'
        /\ config'.port = config.port /\ config'.match_mode = config.match_mode
        /\ config'.scan_interval = config.scan_interval
        /\ config'.tracker_patterns = config.tracker_patterns
        /\ config'.configured_model_to_tracker = config.configured_model_to_tracker
        /\ config'.default_body_to_tracker = config.default_body_to_tracker
    BY <1>1, <2>3, MovesKeep
  <2>5. /\ DefaultTransform' = DefaultTransform /\ ExtrinsicsGiven' = ExtrinsicsGiven
        /\ Robots' = Robots /\ ManualMapping' = ManualMapping
        /\ IsMalformed("robots")' <=> IsMalformed("robots")
        /\ IsMalformed("manual_mapping")' <=> IsMalformed("manual_mapping")
        /\ ~IsMalformed("extrinsics")'
    BY <2>1, ParamsStay
  <2>6. /\ DOMAIN config.robot_configs = DOMAIN Robots
        /\ \A r \in DOMAIN Robots : config.robot_configs[r].body_to_tracker
                                         = RobotTransform(Robots[r], DefaultTransform)
        /\ config.default_body_to_tracker = DefaultTransform
    BY <2>1 DEF LoadInv, TransformsGood
  <2>. HIDE DEF named
  <2>7. /\ DOMAIN config'.robot_configs = DOMAIN Robots \cup DOMAIN named
        /\ \A t \in DOMAIN config'.robot_configs :
               config'.robot_configs[t].body_to_tracker =
                   IF t \in DOMAIN named THEN TransformIn(named[t])
                   ELSE RobotTransform(Robots[t], DefaultTransform)
    BY <2>2, <2>3, <2>6 DEF Merge
  <2>8. named' = named
    BY <2>5 DEF named
  <2>9. MappingGood'
    BY <2>1, <2>4, <2>5 DEF LoadInv, MappingGood
  <2>10. TransformsGood'
    BY <2>1, <2>4, <2>5, <2>6, <2>7, <2>8 DEF TransformsGood, named
  <2>11. ArgumentsGood'
    BY <2>1, <2>4, ParamsStay DEF LoadInv, ArgumentsGood, Argument
  <2>. QED  BY <2>4, <2>9, <2>10, <2>11 DEF LoadInv
<1>. QED  BY <1>2, <1>3

\* After extrinsics nothing touches the mappings and the transforms.
LEMMA LateStepKeepsMaps ==
    ASSUME LoadInv, NEW here \in FromAutoOverrides, NEW next \in FromDelayOverrides, NEW changed,
           Moves(here, next, changed),
           changed \subseteq {"mocap_noise", "delay", "auto_track_known_models"}
    PROVE  MappingGood' /\ TransformsGood'
<1>1. ConfigGood
  BY DEF LoadInv
<1>2. step = here /\ step' = next /\ setup' = setup
  BY DEF Moves
<1>3. /\ config'.configured_model_to_tracker = config.configured_model_to_tracker
      /\ config'.robot_configs = config.robot_configs
      /\ config'.default_body_to_tracker = config.default_body_to_tracker
  BY <1>1, MovesKeep
<1>4. /\ DefaultTransform' = DefaultTransform /\ ExtrinsicsGiven' = ExtrinsicsGiven
      /\ Robots' = Robots /\ ManualMapping' = ManualMapping
      /\ IsMalformed("robots")' <=> IsMalformed("robots")
      /\ IsMalformed("manual_mapping")' <=> IsMalformed("manual_mapping")
      /\ IsMalformed("extrinsics")' <=> IsMalformed("extrinsics")
  BY <1>2, ParamsStay
<1>5. MappingGood'
  BY <1>2, <1>3, <1>4 DEF LoadInv, MappingGood
<1>6. TransformsGood'
  <2>. DEFINE named == ByTrimmedKey(ExtrinsicsGiven)
  <2>1. named' = named
    BY <1>4
  <2>. QED  BY <1>2, <1>3, <1>4, <2>1 DEF LoadInv, TransformsGood
<1>. QED  BY <1>5, <1>6

LEMMA AutoOverridesKeepInv ==
    ASSUME LoadInv, ApplyAutoMappingOverrides
    PROVE  LoadInv'
<1>1. ConfigGood
  BY DEF LoadInv
<1>2. /\ step = "auto_mapping_overrides" /\ step' = "delay_overrides" /\ setup' = setup
      /\ config' = AutoMappingOverridden(config)
  BY DEF ApplyAutoMappingOverrides, Step
<1>3. /\ Moves("auto_mapping_overrides", "delay_overrides", {"auto_track_known_models"})
      /\ config'.auto_track_known_models
             = Param("auto_track_known_models", config.auto_track_known_models)
  BY <1>1, <1>2, FieldsOfConfig DEF Moves, ConfigGood, AutoMappingOverridden
<1>4. /\ ConfigGood'
      /\ config'.port = config.port /\ config'.match_mode = config.match_mode
      /\ config'.scan_interval = config.scan_interval
      /\ config'.tracker_patterns = config.tracker_patterns
  BY <1>1, <1>3, MovesKeep
<1>5. MappingGood' /\ TransformsGood'
  BY <1>3, LateStepKeepsMaps
<1>6. Argument("auto_track_known_models", config.auto_track_known_models)'
  BY <1>2, <1>3, ArgumentIsParam DEF Argument
<1>7. ArgumentsGood'
  BY <1>2, <1>4, <1>6, ParamsStay DEF LoadInv, ArgumentsGood, Argument
<1>. QED  BY <1>4, <1>5, <1>7 DEF LoadInv

LEMMA DelayOverridesKeepInv ==
    ASSUME LoadInv, ApplyDelayOverrides
    PROVE  LoadInv'
<1>1. ConfigGood
  BY DEF LoadInv
<1>2. CASE Throw
  BY <1>2, ThrowKeepsInv
<1>3. CASE ~Throw
  <2>. DEFINE delay == DelayOverridden(config.delay)
  <2>1. /\ step = "delay_overrides" /\ step' = "validate" /\ setup' = setup
        /\ config' = [config EXCEPT !.delay = delay]
    BY <1>3 DEF ApplyDelayOverrides, Step
  <2>2. /\ {"enabled", "timestamp_policy", "seed"} \subseteq DOMAIN delay
        /\ delay.enabled = Param("delay_enabled", config.delay.enabled)
        /\ delay.timestamp_policy
               = Param("delay_timestamp_policy", config.delay.timestamp_policy)
        /\ delay.seed = IF "delay_seed" \in DOMAIN Params
                        THEN NonNegative(Params.delay_seed) ELSE config.delay.seed
    BY <1>1 DEF ConfigGood, DelayOverridden, Override, Given
  <2>. HIDE DEF delay
  <2>3. /\ Moves("delay_overrides", "validate", {"delay"})
        /\ config'.delay = delay /\ ConfigGood'
    BY <1>1, <2>1, <2>2, FieldsOfConfig DEF Moves, ConfigGood
  <2>4. /\ config'.port = config.port /\ config'.match_mode = config.match_mode
        /\ config'.scan_interval = config.scan_interval
        /\ config'.tracker_patterns = config.tracker_patterns
        /\ config'.auto_track_known_models = config.auto_track_known_models
    BY <1>1, <2>3, MovesKeep
  <2>5. MappingGood' /\ TransformsGood'
    BY <2>3, LateStepKeepsMaps
  <2>6. /\ Argument("delay_enabled", config.delay.enabled)'
        /\ Argument("delay_timestamp_policy", config.delay.timestamp_policy)'
        /\ "delay_seed" \in DOMAIN setup'.launch =>
               config'.delay.seed = NonNegative(setup'.launch.delay_seed)
    BY <2>1, <2>2, <2>3, ArgumentIsParam DEF Argument
  <2>7. ArgumentsGood'
    BY <2>1, <2>4, <2>6, ParamsStay DEF LoadInv, ArgumentsGood, Argument
  <2>. QED  BY <2>3, <2>5, <2>7 DEF LoadInv
<1>. QED  BY <1>2, <1>3

LEMMA ValidateKeepsInv ==
    ASSUME LoadInv, Validate
    PROVE  LoadInv'
<1>1. ConfigGood
  BY DEF LoadInv
<1>2. CASE Throw
  BY <1>2, ThrowKeepsInv
<1>3. CASE ~Throw
  <2>1. /\ step = "validate" /\ step' = "loaded" /\ setup' = setup
        /\ Moves("validate", "loaded", {"mocap_noise"})
    BY <1>1, <1>3, FieldsOfConfig DEF Validate, Step, Moves, ConfigGood
  <2>2. /\ ConfigGood'
        /\ config'.port = config.port /\ config'.match_mode = config.match_mode
        /\ config'.scan_interval = config.scan_interval
        /\ config'.tracker_patterns = config.tracker_patterns
        /\ config'.auto_track_known_models = config.auto_track_known_models
        /\ config'.delay = config.delay
    BY <1>1, <2>1, MovesKeep
  <2>3. MappingGood' /\ TransformsGood'
    BY <2>1, LateStepKeepsMaps
  <2>4. ArgumentsGood'
    BY <2>1, <2>2, ParamsStay DEF LoadInv, ArgumentsGood, Argument
  <2>. QED  BY <2>2, <2>3, <2>4 DEF LoadInv
<1>. QED  BY <1>2, <1>3

\* Before the first step nothing is configured.
LEMMA LoadStarts ==
    ASSUME Init
    PROVE  LoadInv
<1>1. ConfigGood
  BY DEF Init, ConfigGood, DefaultConfig
<1>2. MappingGood
  BY DEF Init, MappingGood, DefaultConfig
<1>3. TransformsGood
  BY DEF Init, TransformsGood, DefaultConfig
<1>4. ArgumentsGood
  BY DEF Init, ArgumentsGood
<1>. QED  BY <1>1, <1>2, <1>3, <1>4 DEF LoadInv

\* Whatever the parameters are, each step of load() finds the configuration as the
\* steps before it have left it: mappings, transforms and arguments that are
\* decided stay decided.
THEOREM LoadInvariant == Spec => []LoadInv
<1>1. Init => LoadInv
  BY LoadStarts
<1>2. LoadInv /\ [Next]_vars => LoadInv'
  <2>. SUFFICES ASSUME LoadInv, [Next]_vars
                PROVE  LoadInv'
    OBVIOUS
  <2>1. CASE LoadParameters
    BY <2>1, ParametersKeepInv
  <2>2. CASE LoadTrackers
    BY <2>2, TrackersKeepInv
  <2>3. CASE LoadDefaultTransform
    BY <2>3, DefaultTransformKeepsInv
  <2>4. CASE ParseMocapNoise
    BY <2>4, MocapNoiseKeepsInv
  <2>5. CASE ParseDelay
    BY <2>5, DelayKeepsInv
  <2>6. CASE ParseAutoMapping
    BY <2>6, AutoMappingKeepsInv
  <2>7. CASE ParseRobots
    BY <2>7, RobotsKeepInv
  <2>8. CASE ParseManualMapping
    BY <2>8, ManualMappingKeepsInv
  <2>9. CASE ParseExtrinsics
    BY <2>9, ExtrinsicsKeepInv
  <2>10. CASE ApplyAutoMappingOverrides
    BY <2>10, AutoOverridesKeepInv
  <2>11. CASE ApplyDelayOverrides
    BY <2>11, DelayOverridesKeepInv
  <2>12. CASE Validate
    BY <2>12, ValidateKeepsInv
  <2>13. CASE UNCHANGED vars
    <3>1. setup' = setup /\ step' = step /\ config' = config
      BY <2>13 DEF vars
    <3>2. /\ DefaultTransform' = DefaultTransform /\ ExtrinsicsGiven' = ExtrinsicsGiven
          /\ Robots' = Robots /\ ManualMapping' = ManualMapping
          /\ IsMalformed("robots")' <=> IsMalformed("robots")
          /\ IsMalformed("manual_mapping")' <=> IsMalformed("manual_mapping")
          /\ IsMalformed("extrinsics")' <=> IsMalformed("extrinsics")
      BY <3>1, ParamsStay
    <3>3. ConfigGood' /\ MappingGood'
      BY <3>1, <3>2 DEF LoadInv, ConfigGood, MappingGood
    <3>4. ByTrimmedKey(ExtrinsicsGiven)' = ByTrimmedKey(ExtrinsicsGiven)
      BY <3>2
    <3>5. TransformsGood'
      BY <3>1, <3>2, <3>4 DEF LoadInv, TransformsGood
    <3>6. ArgumentsGood'
      BY <3>1, ParamsStay DEF LoadInv, ArgumentsGood, Argument
    <3>. QED  BY <3>3, <3>5, <3>6 DEF LoadInv
  <2>. QED  BY <2>1, <2>2, <2>3, <2>4, <2>5, <2>6, <2>7, <2>8, <2>9, <2>10, <2>11, <2>12, <2>13
            DEF Next
<1>. QED  BY <1>1, <1>2, PTL DEF Spec
-----------------------------------------------------------------------------
(* The properties of a configuration that is loaded.                       *)

\* What a loaded configuration maps a name to, and which names it maps.
LEMMA LoadedMapping ==
    ASSUME LoadInv, Loaded, NEW model \in Strings, Trim[model] # Empty
    PROVE  LET map == config.configured_model_to_tracker
               name == Trim[model]
           IN /\ name \in DOMAIN map <=> ManualEntries(model) # {} \/ RobotsNaming(model) # {}
              /\ ManualEntries(model) # {} =>
                     map[name] \in {Trim[ManualMapping[k]] : k \in ManualEntries(model)}
              /\ ManualEntries(model) = {} /\ RobotsNaming(model) # {} =>
                     map[name] \in RobotsNaming(model)
<1>. DEFINE map == config.configured_model_to_tracker
            name == Trim[model]
            robots == RobotMappings(Robots)
            manual == ManualMappings(ManualMapping)
<1>1. /\ setup \in Setups /\ ~IsMalformed("robots") /\ ~IsMalformed("manual_mapping")
      /\ map = Merge(Merge(EmptyFunction, robots), manual)
  BY DEF LoadInv, ConfigGood, MappingGood, Loaded
<1>2. /\ DOMAIN Robots \subseteq Strings /\ IsFiniteSet(DOMAIN Robots)
      /\ DOMAIN ManualMapping \subseteq Strings /\ IsFiniteSet(DOMAIN ManualMapping)
  BY <1>1, BlocksAreMaps DEF Robots, ManualMapping
<1>3. /\ name \in DOMAIN robots <=> RobotsNaming(model) # {}
      /\ RobotsNaming(model) # {} => robots[name] \in RobotsNaming(model)
  BY <1>2, MappedRobots DEF RobotsNaming
<1>4. /\ name \in DOMAIN manual <=> ManualEntries(model) # {}
      /\ name \in DOMAIN manual =>
             manual[name] \in {Trim[ManualMapping[k]] : k \in ManualEntries(model)}
  BY <1>2, MappedManually DEF ManualEntries
<1>. HIDE DEF robots, manual
<1>5. /\ DOMAIN map = DOMAIN robots \cup DOMAIN manual
      /\ \A n \in DOMAIN map : map[n] = IF n \in DOMAIN manual THEN manual[n] ELSE robots[n]
  BY <1>1 DEF Merge, EmptyFunction
<1>. HIDE DEF map, name
<1>6. /\ name \in DOMAIN map <=> ManualEntries(model) # {} \/ RobotsNaming(model) # {}
      /\ ManualEntries(model) # {} => map[name] = manual[name]
      /\ ManualEntries(model) = {} /\ RobotsNaming(model) # {} => map[name] = robots[name]
  BY <1>3, <1>4, <1>5
<1>7. /\ ManualEntries(model) # {} =>
             map[name] \in {Trim[ManualMapping[k]] : k \in ManualEntries(model)}
      /\ ManualEntries(model) = {} /\ RobotsNaming(model) # {} =>
             map[name] \in RobotsNaming(model)
  BY <1>3, <1>4, <1>6
<1>. QED  BY <1>6, <1>7 DEF map, name

\* An explicit mapping wins over mode, patterns and expressions, and manual_mapping
\* over the robots, for every configuration that load() returns.
THEOREM ExplicitMappingHolds == Spec => []ExplicitMappingWins
<1>1. LoadInv => ExplicitMappingWins
  <2>. SUFFICES ASSUME LoadInv, Loaded, NEW model \in Strings, Trim[model] # Empty
                PROVE  LET name == TrackerNameForGazeboModel(config, model)
                       IN IF ManualEntries(model) # {}
                          THEN name \in {Trim[ManualMapping[k]] : k \in ManualEntries(model)}
                          ELSE RobotsNaming(model) # {} => name \in RobotsNaming(model)
    BY DEF ExplicitMappingWins
  <2>1. Trim[model] \in DOMAIN config.configured_model_to_tracker =>
            TrackerNameForGazeboModel(config, model)
                = config.configured_model_to_tracker[Trim[model]]
    BY DEF TrackerNameForGazeboModel
  <2>. QED  BY <2>1, LoadedMapping
<1>. QED  BY <1>1, LoadInvariant, PTL

\* The selection settings of the mode that is off influence no model, and automatic
\* discovery renames none, for every configuration that load() returns.
THEOREM ModesStayExclusive == Spec => []ModesAreExclusive
<1>1. LoadInv => ModesAreExclusive
  <2>. DEFINE OnlyAuto == [config EXCEPT !.tracker_patterns = <<>>]
              OnlyPatterns == [config EXCEPT !.auto_include_patterns = <<>>]
  <2>. SUFFICES ASSUME LoadInv, Loaded, NEW model \in Strings
                PROVE  LET name == TrackerNameForGazeboModel(config, model)
                       IN IF config.auto_track_known_models
                          THEN /\ name = TrackerNameForGazeboModel(OnlyAuto, model)
                               /\ ManualEntries(model) = {} /\ RobotsNaming(model) = {} =>
                                      name \in {Trim[model], Empty}
                          ELSE name = TrackerNameForGazeboModel(OnlyPatterns, model)
    BY DEF ModesAreExclusive
  <2>1. DOMAIN config = DOMAIN DefaultConfig
    BY DEF LoadInv, ConfigGood
  <2>2. CASE config.auto_track_known_models
    <3>1. /\ OnlyAuto.configured_model_to_tracker = config.configured_model_to_tracker
          /\ OnlyAuto.auto_track_known_models = config.auto_track_known_models
          /\ OnlyAuto.auto_include_patterns = config.auto_include_patterns
      BY <2>1, FieldsOfConfig
    <3>2. \A n : SelectedAutomatically(OnlyAuto, n) <=> SelectedAutomatically(config, n)
      BY <3>1 DEF SelectedAutomatically, MatchesAutoPattern
    <3>. HIDE DEF OnlyAuto
    <3>3. TrackerNameForGazeboModel(config, model) = TrackerNameForGazeboModel(OnlyAuto, model)
      BY <2>2, <3>1, <3>2 DEF TrackerNameForGazeboModel
    <3>4. ManualEntries(model) = {} /\ RobotsNaming(model) = {} =>
              TrackerNameForGazeboModel(config, model) \in {Trim[model], Empty}
      BY <2>2, LoadedMapping DEF TrackerNameForGazeboModel
    <3>. QED  BY <2>2, <3>3, <3>4
  <2>3. CASE ~config.auto_track_known_models
    <3>1. /\ OnlyPatterns.configured_model_to_tracker = config.configured_model_to_tracker
          /\ OnlyPatterns.auto_track_known_models = config.auto_track_known_models
          /\ OnlyPatterns.tracker_patterns = config.tracker_patterns
          /\ OnlyPatterns.match_mode = config.match_mode
      BY <2>1, FieldsOfConfig
    <3>2. \A n : FirstMatch(OnlyPatterns, n) = FirstMatch(config, n)
      <4>. HIDE DEF OnlyPatterns
      <4>1. \A n, p : MatchesPattern(OnlyPatterns, n, p) <=> MatchesPattern(config, n, p)
        BY <3>1 DEF MatchesPattern
      <4>. TAKE n
      <4>. DEFINE matching(c) == {i \in DOMAIN c.tracker_patterns :
                                     MatchesPattern(c, n, c.tracker_patterns[i])}
                  First(matches, patterns) ==
                      IF matches = {} THEN Empty
                      ELSE patterns[CHOOSE i \in matches : \A j \in matches : i <= j]
      <4>2. matching(OnlyPatterns) = matching(config)
        BY <3>1, <4>1
      <4>3. /\ FirstMatch(OnlyPatterns, n)
                   = First(matching(OnlyPatterns), OnlyPatterns.tracker_patterns)
            /\ FirstMatch(config, n) = First(matching(config), config.tracker_patterns)
        BY DEF FirstMatch
      <4>. HIDE DEF matching, First
      <4>. QED  BY <3>1, <4>2, <4>3
    <3>. HIDE DEF OnlyPatterns
    <3>3. TrackerNameForGazeboModel(config, model)
              = TrackerNameForGazeboModel(OnlyPatterns, model)
      BY <2>3, <3>1, <3>2 DEF TrackerNameForGazeboModel
    <3>. QED  BY <2>3, <3>3
  <2>. QED  BY <2>2, <2>3
<1>. QED  BY <1>1, LoadInvariant, PTL

\* A tracker's transform comes from extrinsics, else from its enabled robot, else
\* from the default, for every configuration that load() returns.
THEOREM TransformsFollowPrecedence == Spec => []TransformPrecedence
<1>1. LoadInv => TransformPrecedence
  <2>. DEFINE given(t) == {k \in DOMAIN ExtrinsicsGiven : Trim[k] = t}
              named == ByTrimmedKey(ExtrinsicsGiven)
  <2>. SUFFICES ASSUME LoadInv, Loaded, NEW tracker \in Strings,
                       Trim[tracker] = tracker, tracker # Empty
                PROVE  LET transform == BodyToTrackerFor(config, tracker)
                       IN IF given(tracker) # {}
                          THEN transform \in {TransformIn(ExtrinsicsGiven[k]) : k \in given(tracker)}
                          ELSE IF /\ tracker \in DOMAIN Robots
                                  /\ RobotIsEnabled(Robots[tracker])
                                  /\ "body_to_tracker" \in DOMAIN Robots[tracker]
                          THEN transform = TransformIn(Robots[tracker].body_to_tracker)
                          ELSE transform = DefaultTransform
    BY DEF TransformPrecedence, ExtrinsicsGiven, DefaultTransform
  <2>1. /\ setup \in Setups /\ ~IsMalformed("extrinsics")
        /\ config.default_body_to_tracker = DefaultTransform
        /\ DOMAIN config.robot_configs = DOMAIN Robots \cup DOMAIN named
        /\ \A t \in DOMAIN config.robot_configs :
               config.robot_configs[t].body_to_tracker =
                   IF t \in DOMAIN named THEN TransformIn(named[t])
                   ELSE RobotTransform(Robots[t], DefaultTransform)
    BY DEF LoadInv, ConfigGood, TransformsGood, Loaded
  <2>2. DOMAIN ExtrinsicsGiven \subseteq Strings /\ IsFiniteSet(DOMAIN ExtrinsicsGiven)
    BY <2>1, BlocksAreMaps DEF ExtrinsicsGiven
  <2>3. /\ DOMAIN named = {Trim[k] : k \in DOMAIN ExtrinsicsGiven} \ {Empty}
        /\ \A n \in DOMAIN named :
               \E k \in DOMAIN ExtrinsicsGiven : Trim[k] = n /\ named[n] = ExtrinsicsGiven[k]
    BY <2>2, TrimmedEntries
  <2>. HIDE DEF named
  <2>4. CASE given(tracker) # {}
    <3>1. tracker \in DOMAIN named
      BY <2>3, <2>4
    <3>2. PICK k \in given(tracker) : named[tracker] = ExtrinsicsGiven[k]
      BY <2>3, <3>1
    <3>3. BodyToTrackerFor(config, tracker) = TransformIn(ExtrinsicsGiven[k])
      BY <2>1, <3>1, <3>2 DEF BodyToTrackerFor
    <3>. QED  BY <2>4, <3>3
  <2>5. CASE given(tracker) = {}
    <3>1. tracker \notin DOMAIN named
      BY <2>3, <2>5
    <3>2. CASE tracker \in DOMAIN Robots
      <4>1. BodyToTrackerFor(config, tracker) = RobotTransform(Robots[tracker], DefaultTransform)
        BY <2>1, <3>1, <3>2 DEF BodyToTrackerFor
      <4>. QED  BY <2>5, <3>2, <4>1 DEF RobotTransform
    <3>3. CASE tracker \notin DOMAIN Robots
      <4>1. BodyToTrackerFor(config, tracker) = DefaultTransform
        BY <2>1, <3>1, <3>3 DEF BodyToTrackerFor
      <4>. QED  BY <2>5, <3>3, <4>1
    <3>. QED  BY <3>2, <3>3
  <2>. QED  BY <2>4, <2>5
<1>. QED  BY <1>1, LoadInvariant, PTL

NoiseBlock == Param("mocap_noise", EmptyFunction)

\* What the launch file has set for the noise, and the mocap_noise block has not.
NoiseInv ==
    /\ {"enabled", "seed"} \subseteq DOMAIN config.mocap_noise
    /\ step \in FromTrackers /\ "enabled" \notin DOMAIN NoiseBlock =>
           Argument("mocap_noise_enabled", config.mocap_noise.enabled)
    /\ step \in FromTrackers \ {"loaded"} /\ "seed" \notin DOMAIN NoiseBlock =>
           Argument("mocap_noise_seed", noiseSeed)
    /\ step = "loaded" /\ "seed" \notin DOMAIN NoiseBlock
           /\ "mocap_noise_seed" \in DOMAIN setup.launch =>
           config.mocap_noise.seed = IF setup.launch.mocap_noise_seed <= 0 THEN 1
                                     ELSE setup.launch.mocap_noise_seed

\* Of all steps only three touch the noise, if they do not throw.
LEMMA NoiseIsLeftAlone ==
    ASSUME LoadInv, Next, ~Throw, ~LoadParameters, ~ParseMocapNoise, ~Validate
    PROVE  /\ config'.mocap_noise = config.mocap_noise
           /\ noiseSeed' = noiseSeed /\ setup' = setup
           /\ step \in FromTrackers \ {"loaded"} /\ step' \in FromTrackers \ {"loaded"}
<1>1. DOMAIN config = DOMAIN DefaultConfig
  BY DEF LoadInv, ConfigGood
<1>2. CASE LoadTrackers
  BY <1>1, <1>2, FieldsOfConfig DEF LoadTrackers, Step
<1>3. CASE LoadDefaultTransform
  BY <1>1, <1>3, FieldsOfConfig DEF LoadDefaultTransform, Step
<1>4. CASE ParseDelay
  BY <1>1, <1>4, FieldsOfConfig DEF ParseDelay, Step
<1>5. CASE ParseAutoMapping
  BY <1>1, <1>5, FieldsOfConfig DEF ParseAutoMapping, Step, Override, Given
<1>6. CASE ParseRobots
  BY <1>1, <1>6, FieldsOfConfig DEF ParseRobots, Step, WithRobots, Override, Given
<1>7. CASE ParseManualMapping
  BY <1>1, <1>7, FieldsOfConfig DEF ParseManualMapping, Step, WithManualMapping
<1>8. CASE ParseExtrinsics
  BY <1>1, <1>8, FieldsOfConfig DEF ParseExtrinsics, Step, WithExtrinsics
<1>9. CASE ApplyAutoMappingOverrides
  BY <1>1, <1>9, FieldsOfConfig DEF ApplyAutoMappingOverrides, Step, AutoMappingOverridden
<1>10. CASE ApplyDelayOverrides
  BY <1>1, <1>10, FieldsOfConfig DEF ApplyDelayOverrides, Step
<1>. QED  BY <1>2, <1>3, <1>4, <1>5, <1>6, <1>7, <1>8, <1>9, <1>10 DEF Next

LEMMA NoiseStepsKeepInv ==
    ASSUME LoadInv, NoiseInv, Next
    PROVE  NoiseInv'
<1>. DEFINE noise == config.mocap_noise
<1>1. DOMAIN config = DOMAIN DefaultConfig /\ {"enabled", "seed"} \subseteq DOMAIN noise
  BY DEF LoadInv, ConfigGood, NoiseInv
<1>2. CASE Throw
  <2>1. step' = "rejected" /\ config' = DefaultConfig
    BY <1>2 DEF Throw
  <2>. QED  BY <2>1 DEF NoiseInv, DefaultConfig
<1>3. CASE ~Throw /\ ~LoadParameters /\ ~ParseMocapNoise /\ ~Validate
  <2>1. /\ noise' = noise /\ noiseSeed' = noiseSeed /\ setup' = setup
        /\ step \in FromTrackers \ {"loaded"} /\ step' \in FromTrackers \ {"loaded"}
    BY <1>3, NoiseIsLeftAlone
  <2>2. NoiseBlock' = NoiseBlock
    BY <2>1 DEF NoiseBlock, Param, Params
  <2>. QED  BY <2>1, <2>2 DEF NoiseInv, Argument
<1>4. CASE LoadParameters
  <2>1. /\ config'.mocap_noise = NoiseWith([enabled |-> Param("mocap_noise_enabled", noise.enabled)])
        /\ noiseSeed' = Param("mocap_noise_seed", noise.seed)
        /\ step' = "trackers" /\ setup' = setup
    BY <1>1, <1>4, FieldsOfConfig DEF LoadParameters, Override, Given
  <2>2. /\ {"enabled", "seed"} \subseteq DOMAIN config'.mocap_noise
        /\ config'.mocap_noise.enabled = Param("mocap_noise_enabled", noise.enabled)
    BY <1>1, <2>1 DEF NoiseWith, Override, Given
  <2>3. /\ Argument("mocap_noise_enabled", config.mocap_noise.enabled)'
        /\ Argument("mocap_noise_seed", noiseSeed)'
    BY <2>1, <2>2, ArgumentIsParam DEF Argument
  <2>. QED  BY <2>1, <2>2, <2>3 DEF NoiseInv
<1>5. CASE ParseMocapNoise /\ ~Throw
  <2>1. /\ config'.mocap_noise = NoiseWith([enabled |-> Given(NoiseBlock, "enabled", noise.enabled)])
        /\ noiseSeed' = Given(NoiseBlock, "seed", noiseSeed)
        /\ step = "mocap_noise" /\ step' = "delay" /\ setup' = setup
    BY <1>1, <1>5, FieldsOfConfig DEF ParseMocapNoise, NoiseBlock
  <2>2. NoiseBlock' = NoiseBlock
    BY <2>1 DEF NoiseBlock, Param, Params
  <2>3. /\ {"enabled", "seed"} \subseteq DOMAIN config'.mocap_noise
        /\ config'.mocap_noise.enabled = Given(NoiseBlock, "enabled", noise.enabled)
    BY <1>1, <2>1 DEF NoiseWith, Override, Given
  <2>. QED  BY <2>1, <2>2, <2>3 DEF NoiseInv, Argument, Given
<1>6. CASE Validate /\ ~Throw
  <2>1. /\ config'.mocap_noise = NoiseWith([seed |-> IF noiseSeed <= 0 THEN 1 ELSE noiseSeed])
        /\ step = "validate" /\ step' = "loaded" /\ setup' = setup
    BY <1>1, <1>6, FieldsOfConfig DEF Validate, Step
  <2>2. NoiseBlock' = NoiseBlock
    BY <2>1 DEF NoiseBlock, Param, Params
  <2>3. /\ {"enabled", "seed"} \subseteq DOMAIN config'.mocap_noise
        /\ config'.mocap_noise.enabled = noise.enabled
        /\ config'.mocap_noise.seed = IF noiseSeed <= 0 THEN 1 ELSE noiseSeed
    BY <1>1, <2>1 DEF NoiseWith, Override, Given
  <2>. QED  BY <2>1, <2>2, <2>3 DEF NoiseInv, Argument
<1>. QED  BY <1>2, <1>3, <1>4, <1>5, <1>6

\* What vrpn_server.launch sets of the port, the scan interval, the selection and
\* the delay is in every configuration that load() returns, whatever the YAML file
\* says on the subject; a list of trackers without a name is as good as none.  What
\* it sets of the noise is there if the mocap_noise block does not say the same.
THEOREM LaunchArgumentsHold == Spec => []LaunchArgumentsWin
<1>1. Init => NoiseInv
  BY DEF Init, NoiseInv, DefaultConfig
<1>2. LoadInv /\ NoiseInv /\ [Next]_vars => NoiseInv'
  <2>1. NoiseInv /\ UNCHANGED vars => NoiseInv'
    BY DEF vars, NoiseInv, NoiseBlock, Param, Params, Argument
  <2>. QED  BY <2>1, NoiseStepsKeepInv
<1>3. LoadInv /\ NoiseInv => LaunchArgumentsWin
  BY DEF LoadInv, NoiseInv, NoiseBlock, ArgumentsGood, ListedPatterns, Argument,
         LaunchArgumentsWin, Loaded
<1>. QED  BY <1>1, <1>2, <1>3, LoadInvariant, PTL DEF Spec
-----------------------------------------------------------------------------
(* What the rest of the program takes for granted of a configuration.      *)

PolicyKnown == config.delay.timestamp_policy \in Policies

AcceptedInv == PolicyKnown /\ (Loaded => ValidConfig(config))

LEMMA StepsKeepAccepted ==
    ASSUME LoadInv, AcceptedInv, Next
    PROVE  AcceptedInv'
<1>1. ConfigGood
  BY DEF LoadInv
<1>2. CASE Throw
  BY <1>2 DEF Throw, AcceptedInv, PolicyKnown, Loaded, DefaultConfig, Policies
<1>3. CASE LoadParameters \/ LoadTrackers \/ LoadDefaultTransform \/ ParseMocapNoise
           \/ ParseAutoMapping \/ ParseRobots \/ ParseManualMapping \/ ParseExtrinsics
           \/ ApplyAutoMappingOverrides
  <2>1. CASE ~Throw
    <3>1. step' # "loaded" /\ config'.delay = config.delay
      <4>1. CASE LoadParameters
        BY <1>1, <4>1, FieldsOfConfig DEF LoadParameters, ConfigGood, Override, Given
      <4>2. CASE LoadTrackers
        BY <1>1, <2>1, <4>2, FieldsOfConfig DEF LoadTrackers, Step, ConfigGood
      <4>3. CASE LoadDefaultTransform
        BY <1>1, <2>1, <4>3, FieldsOfConfig DEF LoadDefaultTransform, Step, ConfigGood
      <4>4. CASE ParseMocapNoise
        BY <1>1, <2>1, <4>4, FieldsOfConfig DEF ParseMocapNoise, ConfigGood
      <4>5. CASE ParseAutoMapping
        BY <1>1, <2>1, <4>5, FieldsOfConfig
        DEF ParseAutoMapping, Step, ConfigGood, Override, Given
      <4>6. CASE ParseRobots
        BY <1>1, <2>1, <4>6, FieldsOfConfig
        DEF ParseRobots, Step, WithRobots, ConfigGood, Override, Given
      <4>7. CASE ParseManualMapping
        BY <1>1, <2>1, <4>7, FieldsOfConfig
        DEF ParseManualMapping, Step, WithManualMapping, ConfigGood
      <4>8. CASE ParseExtrinsics
        BY <1>1, <2>1, <4>8, FieldsOfConfig DEF ParseExtrinsics, Step, WithExtrinsics, ConfigGood
      <4>9. CASE ApplyAutoMappingOverrides
        BY <1>1, <4>9, FieldsOfConfig
        DEF ApplyAutoMappingOverrides, Step, AutoMappingOverridden, ConfigGood
      <4>. QED  BY <1>3, <4>1, <4>2, <4>3, <4>4, <4>5, <4>6, <4>7, <4>8, <4>9
    <3>. QED  BY <3>1 DEF AcceptedInv, PolicyKnown, Loaded
  <2>. QED  BY <1>2, <2>1
<1>4. CASE ParseDelay
  <2>1. CASE ~Throw
    <3>. DEFINE block == Param("delay", EmptyFunction)
                delay == DelayIn(config.delay, block)
    <3>1. /\ step' = "auto_mapping" /\ config' = [config EXCEPT !.delay = delay]
          /\ Given(block, "timestamp_policy", "send_time") \in Policies
      BY <1>4, <2>1 DEF ParseDelay, Step
    <3>2. delay.timestamp_policy \in Policies
      BY <3>1 DEF DelayIn, Given, AcceptedInv, PolicyKnown
    <3>. HIDE DEF delay
    <3>3. config'.delay = delay
      BY <1>1, <3>1, FieldsOfConfig DEF ConfigGood
    <3>. QED  BY <3>1, <3>2, <3>3 DEF AcceptedInv, PolicyKnown, Loaded
  <2>. QED  BY <1>2, <2>1
<1>5. CASE ApplyDelayOverrides
  <2>1. CASE ~Throw
    <3>. DEFINE delay == DelayOverridden(config.delay)
    <3>1. /\ step' = "validate" /\ config' = [config EXCEPT !.delay = delay]
          /\ Param("delay_timestamp_policy", "send_time") \in Policies
      BY <1>5, <2>1 DEF ApplyDelayOverrides, Step
    <3>2. delay.timestamp_policy = Param("delay_timestamp_policy", config.delay.timestamp_policy)
      BY <1>1 DEF ConfigGood, DelayOverridden, Override, Given
    <3>3. delay.timestamp_policy \in Policies
      BY <3>1, <3>2 DEF Param, Given, AcceptedInv, PolicyKnown
    <3>. HIDE DEF delay
    <3>4. config'.delay = delay
      BY <1>1, <3>1, FieldsOfConfig DEF ConfigGood
    <3>. QED  BY <3>1, <3>3, <3>4 DEF AcceptedInv, PolicyKnown, Loaded
  <2>. QED  BY <1>2, <2>1
<1>6. CASE Validate
  <2>1. CASE ~Throw
    <3>1. /\ ValidConfig(config)
          /\ config'.match_mode = config.match_mode /\ config'.port = config.port
          /\ config'.scan_interval = config.scan_interval
          /\ config'.auto_include_patterns = config.auto_include_patterns
          /\ config'.delay = config.delay
      BY <1>1, <1>6, <2>1, FieldsOfConfig DEF Validate, Step, ConfigGood
    <3>2. ASSUME NEW c, NEW d, c.match_mode = d.match_mode, c.port = d.port,
                 c.scan_interval = d.scan_interval, c.delay = d.delay,
                 c.auto_include_patterns = d.auto_include_patterns, ValidConfig(c)
          PROVE  ValidConfig(d)
      BY <3>2 DEF ValidConfig
    <3>3. ValidConfig(config')
      BY <3>1, <3>2
    <3>. QED  BY <3>1, <3>3 DEF AcceptedInv, PolicyKnown
  <2>. QED  BY <1>2, <2>1
<1>. QED  BY <1>3, <1>4, <1>5, <1>6 DEF Next

\* load() returns only configurations that validate() accepts as they are returned,
\* with a policy that the server knows: what MeasurementDelay and TrackerServer
\* assume of their configuration.
THEOREM LoadedIsAccepted ==
    Spec => [](Loaded => ValidConfig(config) /\ config.delay.timestamp_policy \in Policies)
<1>1. Init => AcceptedInv
  BY DEF Init, AcceptedInv, PolicyKnown, Loaded, DefaultConfig, Policies
<1>2. LoadInv /\ AcceptedInv /\ [Next]_vars => AcceptedInv'
  <2>1. AcceptedInv /\ UNCHANGED vars => AcceptedInv'
    BY DEF vars, AcceptedInv, PolicyKnown, Loaded
  <2>. QED  BY <2>1, StepsKeepAccepted
<1>3. AcceptedInv => (Loaded => ValidConfig(config)
                                /\ config.delay.timestamp_policy \in Policies)
  BY DEF AcceptedInv, PolicyKnown
<1>. QED  BY <1>1, <1>2, <1>3, LoadInvariant, PTL DEF Spec
=============================================================================
