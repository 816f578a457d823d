---------------------------- MODULE ServerConfig ----------------------------
(***************************************************************************)
(* The configuration of both adapters (server_config.cpp): how             *)
(* loadServerConfig() builds it from the ROS parameters that the YAML file *)
(* and the launch file have set, and how it selects the models that are    *)
(* exported.                                                               *)
(*                                                                         *)
(* A parameter that is a mapping is a function on the members it has; a    *)
(* list is a sequence.  Strings are atoms: what removing slashes yields,   *)
(* which patterns match and in which order a map lists its keys are        *)
(* constants.  Parameters that the loader copies and nothing else depends  *)
(* on (topic, address, rate, cutoffs, timeouts) are left out.              *)
(***************************************************************************)
EXTENDS DelayConfig, Sequences, SequencesExt

CONSTANTS Strings, Empty,      \* names, patterns and regular expressions
          Trim,                \* trimSlashes()
          KeyOrder,            \* the position of a key in a std::map
          Containing, HasPrefix,\* pairs of a name and a pattern
          RegexMatches,        \* pairs of a name and a regular expression
          ValidRegexes,        \* those that std::regex accepts
          Canonical,           \* isCanonicalAutoTrackedModelName()
          Identity,            \* a zero translation or rotation
          Malformed,           \* a value of a wrong type, at any depth
          Setups               \* pairs of what the YAML file and the launch file set

ASSUME StringsAssumption ==
    /\ Empty \in Strings
    /\ Trim \in [Strings -> Strings]
    /\ \A s \in Strings : Trim[Trim[s]] = Trim[s]
    /\ Trim[Empty] = Empty
    /\ KeyOrder \in [Strings -> Int]
    /\ \A s, r \in Strings : KeyOrder[s] = KeyOrder[r] => s = r
    /\ Canonical \subseteq Strings \ {Empty}

\* A mapping from names is a std::map: finitely many keys, each of them a string.
ASSUME SetupsAssumption ==
    \A pair \in Setups : \A params \in {pair.yaml, pair.launch} :
        \A key \in {"robots", "manual_mapping", "extrinsics"} \cap DOMAIN params :
            params[key] # Malformed =>
                DOMAIN params[key] \subseteq Strings /\ IsFiniteSet(DOMAIN params[key])

VARIABLES
    setup,      \* the pair of Setups that is loaded
    step,       \* the step of load() that comes next, or its outcome
    config,     \* config_
    noiseSeed   \* mocap_noise_seed_param_

vars == <<setup, step, config, noiseSeed>>
-----------------------------------------------------------------------------
(* Reading parameters.                                                     *)

Given(block, key, default) == IF key \in DOMAIN block THEN block[key] ELSE default

\* The members of block replace those of the record.
Override(record, block) == [f \in DOMAIN record |-> Given(block, f, record[f])]

\* Entries of g replace those of f, as an assignment to a map does.
Merge(f, g) == [k \in DOMAIN f \cup DOMAIN g |-> IF k \in DOMAIN g THEN g[k] ELSE f[k]]

LastOf(keys) == CHOOSE k \in keys : \A j \in keys : KeyOrder[j] <= KeyOrder[k]

\* The entries by their trimmed names; of two with one name the later remains.
ByTrimmedKey(block) ==
    [n \in {Trim[k] : k \in DOMAIN block} \ {Empty} |->
        block[LastOf({k \in DOMAIN block : Trim[k] = n})]]

\* vrpn_server.launch: a private parameter replaces the one the file has.
Params == Merge(setup.yaml, setup.launch)

Param(key, default) == Given(Params, key, default)

IsMalformed(key) == Param(key, EmptyFunction) = Malformed

\* parseStringList(), splitTrackerString(): what has no name or was there before
\* is left out.
StringList(list) ==
    FoldLeft(LAMBDA names, item :
                 IF Trim[item] = Empty \/ Trim[item] \in ToSet(names) THEN names
                 ELSE Append(names, Trim[item]),
             <<>>, list)

\* parseTransform(): what is not given is zero, never inherited.
TransformIn(block) ==
    [xyz |-> Given(block, "xyz", Given(block, "translation", Identity)),
     rotation |-> Given(block, "quaternion",
                        Given(block, "rpy", Given(block, "rotation_rpy", Identity)))]
-----------------------------------------------------------------------------
(* The parts of the configuration.                                         *)

Policies == {"send_time", "sample_time"}

DefaultConfig ==
    [port |-> 3883, scan_interval |-> 2, match_mode |-> "contains",
     auto_track_known_models |-> FALSE,
     auto_include_patterns |-> <<>>, tracker_patterns |-> <<>>,
     robot_configs |-> EmptyFunction, configured_model_to_tracker |-> EmptyFunction,
     default_body_to_tracker |-> TransformIn(EmptyFunction),
     mocap_noise |-> [enabled |-> TRUE, seed |-> 1],
     delay |-> [enabled |-> FALSE, timestamp_policy |-> "send_time", seed |-> 1,
                maxDelay |-> 30, margin |-> 100, common |-> DefaultComponent,
                trackers |-> EmptyFunction]]

NonNegative(n) == IF n >= 0 THEN n ELSE 0

\* parseDelayTrackers(); each starts from the defaults, not from the common part.
DelayTrackersIn(block) ==
    LET named == ByTrimmedKey(block)
    IN [t \in DOMAIN named |->
           [component |-> Override(DefaultComponent, named[t]),
            maxDelay |-> Given(named[t], "maxDelay", -1)]]

\* parseDelay()
DelayIn(d, block) ==
    [enabled |-> Given(block, "enabled", d.enabled),
     timestamp_policy |-> Given(block, "timestamp_policy", d.timestamp_policy),
     seed |-> NonNegative(Given(block, "seed", d.seed)),
     maxDelay |-> Given(block, "maxDelay", d.maxDelay),
     margin |-> Given(block, "margin", d.margin),
     common |-> Override(d.common, Given(block, "common", EmptyFunction)),
     trackers |-> Merge(d.trackers, DelayTrackersIn(Given(block, "trackers", EmptyFunction)))]

RobotIsEnabled(block) == Given(block, "enabled", TRUE)

NamesModel(block) == "gazebo_model_name" \in DOMAIN block \/ "gazebo_model" \in DOMAIN block

ModelOf(block) == Trim[Given(block, "gazebo_model_name", Given(block, "gazebo_model", Empty))]

\* Mutant of RobotIn: without a transform of its own a robot has none.
RobotWithoutDefault(c, block) ==
    [enabled |-> RobotIsEnabled(block),
     body_to_tracker |-> TransformIn(IF RobotIsEnabled(block)
                                     THEN Given(block, "body_to_tracker", EmptyFunction)
                                     ELSE EmptyFunction)]

\* A robot that is not enabled keeps the default transform.
RobotIn(c, block) ==
    [enabled |-> RobotIsEnabled(block),
     body_to_tracker |-> IF RobotIsEnabled(block) /\ "body_to_tracker" \in DOMAIN block
                         THEN TransformIn(block.body_to_tracker)
                         ELSE c.default_body_to_tracker]

\* parseRobots(): if several name one model, the last remains.
RobotMappings(block) ==
    LET naming == {r \in DOMAIN block : RobotIsEnabled(block[r]) /\ NamesModel(block[r])}
    IN [n \in {ModelOf(block[r]) : r \in naming} |->
           LastOf({r \in naming : ModelOf(block[r]) = n})]

WithRobots(c, block) ==
    Override(c,
        [robot_configs |-> Merge(c.robot_configs,
                                 [r \in DOMAIN block |-> RobotIn(c, block[r])]),
         configured_model_to_tracker |-> Merge(c.configured_model_to_tracker,
                                               RobotMappings(block))])

\* parseManualMapping(): entries without a model or a tracker have no effect.
ManualMappings(block) ==
    LET named == ByTrimmedKey([k \in {j \in DOMAIN block : Trim[block[j]] # Empty} |-> block[k]])
    IN [n \in DOMAIN named |-> Trim[named[n]]]

\* Mutant of WithManualMapping: what the robots have mapped remains.
WithManualMappingLast(c, block) ==
    [c EXCEPT !.configured_model_to_tracker = Merge(ManualMappings(block), @)]

WithManualMapping(c, block) ==
    [c EXCEPT !.configured_model_to_tracker = Merge(@, ManualMappings(block))]

\* parseExtrinsics(); a robot that is not configured is created.
WithExtrinsics(c, block) ==
    LET named == ByTrimmedKey(block)
        configs == c.robot_configs
    IN [c EXCEPT !.robot_configs =
           Merge(configs, [t \in DOMAIN named |->
                              [enabled |-> t \in DOMAIN configs => configs[t].enabled,
                               body_to_tracker |-> TransformIn(named[t])]])]
-----------------------------------------------------------------------------
(* load().                                                                 *)

Init ==
    /\ setup \in Setups
    /\ step = "parameters"
    /\ config = DefaultConfig
    /\ noiseSeed = 1

\* The method throws, and nothing is left of the configuration.
Throw == step' = "rejected" /\ config' = DefaultConfig /\ noiseSeed' = 1 /\ UNCHANGED setup

\* The method of a step: it throws or goes on to the next with a configuration.
Step(here, next, throws, c) ==
    /\ step = here
    /\ IF throws THEN Throw
       ELSE step' = next /\ config' = c /\ UNCHANGED <<setup, noiseSeed>>

NoiseWith(block) == Override(config.mocap_noise, block)

LoadParameters ==
    /\ step = "parameters"
    /\ config' = Override(config,
           [port |-> Param("port", config.port),
            scan_interval |-> Param("scan_interval", config.scan_interval),
            match_mode |-> Param("match_mode", config.match_mode),
            mocap_noise |-> NoiseWith([enabled |-> Param("mocap_noise_enabled",
                                                         config.mocap_noise.enabled)])])
    /\ noiseSeed' = Param("mocap_noise_seed", config.mocap_noise.seed)
    /\ step' = "trackers"
    /\ UNCHANGED setup

LoadTrackers ==
    LET listed == IF IsMalformed("trackers") THEN <<>> ELSE StringList(Param("trackers", <<>>))
    IN Step("trackers", "default_body_to_tracker",
            IsMalformed("trackers") \/ (listed = <<>> /\ IsMalformed("enabled_trackers")),
            [config EXCEPT !.tracker_patterns =
                IF listed # <<>> THEN listed ELSE StringList(Param("enabled_trackers", <<>>))])

LoadDefaultTransform ==
    Step("default_body_to_tracker", "mocap_noise", IsMalformed("default_body_to_tracker"),
         [config EXCEPT !.default_body_to_tracker =
             IF "default_body_to_tracker" \in DOMAIN Params
             THEN TransformIn(Params.default_body_to_tracker) ELSE @])

ParseMocapNoise ==
    LET block == Param("mocap_noise", EmptyFunction)
    IN /\ step = "mocap_noise"
       /\ \/ block = Malformed /\ Throw
          \/ /\ block # Malformed
             /\ config' = [config EXCEPT !.mocap_noise =
                    NoiseWith([enabled |-> Given(block, "enabled", @.enabled)])]
             /\ noiseSeed' = Given(block, "seed", noiseSeed)
             /\ step' = "delay"
             /\ UNCHANGED setup

ParseDelay ==
    LET block == Param("delay", EmptyFunction)
    IN Step("delay", "auto_mapping",
            block = Malformed \/ Given(block, "timestamp_policy", "send_time") \notin Policies,
            [config EXCEPT !.delay = DelayIn(@, block)])

ParseAutoMapping ==
    LET block == Param("auto_mapping", EmptyFunction)
    IN Step("auto_mapping", "robots", block = Malformed,
            Override(config,
                [auto_track_known_models |->
                     Given(block, "enabled", config.auto_track_known_models),
                 auto_include_patterns |->
                     IF "include_patterns" \in DOMAIN block
                     THEN StringList(block.include_patterns) ELSE config.auto_include_patterns]))

ParseRobots ==
    Step("robots", "manual_mapping", IsMalformed("robots"),
         WithRobots(config, Param("robots", EmptyFunction)))

ParseManualMapping ==
    Step("manual_mapping", "extrinsics", IsMalformed("manual_mapping"),
         WithManualMapping(config, Param("manual_mapping", EmptyFunction)))

ParseExtrinsics ==
    Step("extrinsics", "auto_mapping_overrides", IsMalformed("extrinsics"),
         WithExtrinsics(config, Param("extrinsics", EmptyFunction)))

\* Mutant of AutoMappingOverridden: the parameter can only switch on.
AutoMappingSwitchedOn(c) ==
    [c EXCEPT !.auto_track_known_models = @ \/ Param("auto_track_known_models", FALSE)]

AutoMappingOverridden(c) ==
    [c EXCEPT !.auto_track_known_models = Param("auto_track_known_models", @)]

ApplyAutoMappingOverrides ==
    Step("auto_mapping_overrides", "delay_overrides", FALSE, AutoMappingOverridden(config))

DelayOverridden(d) ==
    Override(d, [enabled |-> Param("delay_enabled", d.enabled),
                 timestamp_policy |-> Param("delay_timestamp_policy", d.timestamp_policy),
                 seed |-> IF "delay_seed" \in DOMAIN Params
                          THEN NonNegative(Params.delay_seed) ELSE d.seed])

ApplyDelayOverrides ==
    Step("delay_overrides", "validate",
         Param("delay_timestamp_policy", "send_time") \notin Policies,
         [config EXCEPT !.delay = DelayOverridden(@)])

ValidConfig(c) ==
    /\ c.match_mode \in {"contains", "exact", "prefix"}
    /\ PublishRate > 0 /\ c.scan_interval > 0
    /\ c.port > 0 /\ c.port <= 65535
    /\ ToSet(c.auto_include_patterns) \subseteq ValidRegexes
    /\ Accepted(c.delay)

\* The end of load(): the seed, then validate().
Validate ==
    Step("validate", "loaded", ~ValidConfig(config),
         [config EXCEPT !.mocap_noise =
             NoiseWith([seed |-> IF noiseSeed <= 0 THEN 1 ELSE noiseSeed])])

Next ==
    \/ LoadParameters \/ LoadTrackers \/ LoadDefaultTransform \/ ParseMocapNoise
    \/ ParseDelay \/ ParseAutoMapping \/ ParseRobots \/ ParseManualMapping
    \/ ParseExtrinsics \/ ApplyAutoMappingOverrides \/ ApplyDelayOverrides \/ Validate

Spec == Init /\ [][Next]_vars
-----------------------------------------------------------------------------
(* The selection of models, once the configuration is loaded.              *)

MatchesPattern(c, name, pattern) ==
    CASE c.match_mode = "exact"  -> name = pattern
      [] c.match_mode = "prefix" -> <<name, pattern>> \in HasPrefix
      [] OTHER                   -> <<name, pattern>> \in Containing

MatchesAutoPattern(c, name) ==
    \E regex \in ToSet(c.auto_include_patterns) : <<name, regex>> \in RegexMatches

FirstMatch(c, name) ==
    LET patterns == c.tracker_patterns
        matching == {i \in DOMAIN patterns : MatchesPattern(c, name, patterns[i])}
    IN IF matching = {} THEN Empty
       ELSE patterns[CHOOSE i \in matching : \A j \in matching : i <= j]

SelectedAutomatically(c, name) ==
    \/ MatchesAutoPattern(c, name)
    \/ c.auto_include_patterns = <<>> /\ name \in Canonical

\* Mutant of TrackerNameForGazeboModel: what auto mode does not select is still
\* compared with the patterns.
TrackerNameFromEitherMode(c, model) ==
    LET name == Trim[model]
    IN CASE name = Empty -> Empty
         [] name \in DOMAIN c.configured_model_to_tracker -> c.configured_model_to_tracker[name]
         [] c.auto_track_known_models /\ SelectedAutomatically(c, name) -> name
         [] OTHER -> FirstMatch(c, name)

\* Empty for a model that is not exported.
TrackerNameForGazeboModel(c, model) ==
    LET name == Trim[model]
    IN IF name = Empty THEN Empty
       ELSE IF name \in DOMAIN c.configured_model_to_tracker
       THEN c.configured_model_to_tracker[name]
       ELSE IF c.auto_track_known_models
       THEN IF SelectedAutomatically(c, name) THEN name ELSE Empty
       ELSE FirstMatch(c, name)

BodyToTrackerFor(c, tracker) ==
    IF tracker \in DOMAIN c.robot_configs THEN c.robot_configs[tracker].body_to_tracker
    ELSE c.default_body_to_tracker
-----------------------------------------------------------------------------
(* Properties.                                                             *)

Loaded == step = "loaded"

ManualMapping == Param("manual_mapping", EmptyFunction)
Robots == Param("robots", EmptyFunction)

\* The entries of manual_mapping that have an effect, for a model.
ManualEntries(model) ==
    {k \in DOMAIN ManualMapping : Trim[k] = Trim[model] /\ Trim[ManualMapping[k]] # Empty}

\* The enabled robots that name a model.
RobotsNaming(model) ==
    {r \in DOMAIN Robots : RobotIsEnabled(Robots[r]) /\ NamesModel(Robots[r])
                            /\ ModelOf(Robots[r]) = Trim[model]}

\* What the operator has mapped explicitly is exported under that name, whatever
\* mode, patterns and expressions there are: by manual_mapping in the first
\* place ("This overrides auto_mapping"), else by a robot that is enabled and
\* names the model.
ExplicitMappingWins ==
    Loaded =>
        \A model \in {s \in Strings : Trim[s] # Empty} :
            LET name == TrackerNameForGazeboModel(config, model)
            IN IF ManualEntries(model) # {}
               THEN name \in {Trim[ManualMapping[k]] : k \in ManualEntries(model)}
               ELSE RobotsNaming(model) # {} => name \in RobotsNaming(model)

\* Automatic discovery and pattern matching are exclusive: the settings of the
\* mode that is off have no influence on any model.  In auto mode a model that is
\* not mapped explicitly has its own name or none.
ModesAreExclusive ==
    Loaded =>
        \A model \in Strings :
            LET name == TrackerNameForGazeboModel(config, model)
                OnlyAuto == [config EXCEPT !.tracker_patterns = <<>>]
                OnlyPatterns == [config EXCEPT !.auto_include_patterns = <<>>]
            IN IF config.auto_track_known_models
               THEN /\ name = TrackerNameForGazeboModel(OnlyAuto, model)
                    /\ ManualEntries(model) = {} /\ RobotsNaming(model) = {} =>
                           name \in {Trim[model], Empty}
               ELSE name = TrackerNameForGazeboModel(OnlyPatterns, model)

\* The transform of a tracker is the one extrinsics gives, else the one of the
\* enabled robot of that name, else the default, in whatever combination they are
\* given, also for a tracker that no robot is configured for.
TransformPrecedence ==
    Loaded =>
        \A tracker \in {s \in Strings : Trim[s] = s /\ s # Empty} :
            LET extrinsics == Param("extrinsics", EmptyFunction)
                given == {k \in DOMAIN extrinsics : Trim[k] = tracker}
                transform == BodyToTrackerFor(config, tracker)
            IN IF given # {} THEN transform \in {TransformIn(extrinsics[k]) : k \in given}
               ELSE IF /\ tracker \in DOMAIN Robots
                       /\ RobotIsEnabled(Robots[tracker])
                       /\ "body_to_tracker" \in DOMAIN Robots[tracker]
               THEN transform = TransformIn(Robots[tracker].body_to_tracker)
               ELSE transform = TransformIn(Param("default_body_to_tracker", EmptyFunction))

\* An argument of the launch file wins over what the YAML file says on the same
\* subject, in the block of the subject or at the top level: the port, the scan
\* interval, the selection mode, the patterns and how they match, and the delay.
\* A list of trackers without a name leaves the choice to enabled_trackers.  The
\* arguments for the noise hold only where the mocap_noise block does not say the
\* same.
LaunchArgumentsWin ==
    LET Argument(key, value) ==
            key \in DOMAIN setup.launch => value = setup.launch[key]
        noise == Param("mocap_noise", EmptyFunction)
    IN Loaded =>
        /\ Argument("port", config.port)
        /\ Argument("scan_interval", config.scan_interval)
        /\ Argument("match_mode", config.match_mode)
        /\ Argument("auto_track_known_models", config.auto_track_known_models)
        /\ Argument("delay_enabled", config.delay.enabled)
        /\ Argument("delay_timestamp_policy", config.delay.timestamp_policy)
        /\ "delay_seed" \in DOMAIN setup.launch =>
               config.delay.seed = NonNegative(setup.launch.delay_seed)
        /\ "trackers" \in DOMAIN setup.launch =>
               LET listed == StringList(setup.launch.trackers)
               IN config.tracker_patterns =
                      IF listed # <<>> THEN listed
                      ELSE StringList(Param("enabled_trackers", <<>>))
        /\ "enabled" \notin DOMAIN noise =>
               Argument("mocap_noise_enabled", config.mocap_noise.enabled)
        /\ "mocap_noise_seed" \in DOMAIN setup.launch /\ "seed" \notin DOMAIN noise =>
               config.mocap_noise.seed = IF setup.launch.mocap_noise_seed <= 0 THEN 1
                                         ELSE setup.launch.mocap_noise_seed

=============================================================================
