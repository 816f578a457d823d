--------------------------- MODULE MCServerConfig ---------------------------
(***************************************************************************)
(* Instances of ServerConfig for TLC: five families of setups, each the    *)
(* product of what interacts, and every block with a value of a wrong type. *)
(***************************************************************************)
EXTENDS ServerConfig, TLC

MCStrings == {"", "/", "iris", "/iris", "uav1", "/uav1", "ugv1", "ugv_alpha", "ugv", "^u.*", "("}

\* Slashes around a name are not part of it.
MCTrim == [s \in MCStrings |->
              CASE s = "/" -> "" [] s = "/iris" -> "iris" [] s = "/uav1" -> "uav1" [] OTHER -> s]

MCKeyOrder ==
    LET sorted == <<"", "(", "/", "/iris", "/uav1", "^u.*", "iris", "uav1", "ugv", "ugv1", "ugv_alpha">>
    IN [s \in MCStrings |-> CHOOSE i \in DOMAIN sorted : sorted[i] = s]

Same == {<<s, s>> : s \in MCStrings}
MCHasPrefix == Same \cup {<<"ugv1", "ugv">>, <<"ugv_alpha", "ugv">>}
MCContaining == MCHasPrefix \cup {<<"iris", "">>}
MCRegexMatches == {<<s, s>> : s \in {"iris", "uav1", "ugv1", "ugv_alpha"}}
                      \cup {<<s, "^u.*">> : s \in {"uav1", "ugv1", "ugv_alpha"}}
MCValidRegexes == MCStrings \ {"("}
MCCanonical == {"uav1", "ugv1"}

\* The parameter key with a value of values, or none.
Optional(key, values) == {EmptyFunction} \cup {key :> v : v \in values}

\* Every way to set the parameters that are chosen from two families.
f ++ g == {a @@ b : a \in f, b \in g}

AutoMappings == Optional("auto_mapping",
    {[enabled |-> TRUE], [enabled |-> TRUE, include_patterns |-> <<"^u.*", "/", "^u.*">>],
     [enabled |-> FALSE, include_patterns |-> <<"iris">>], [include_patterns |-> <<"(">>]})
TrackerLists == Optional("trackers", {<<"/">>, <<"/uav1", "ugv", "uav1">>})
EnabledLists == Optional("enabled_trackers", {<<"ugv_alpha", "ugv">>})
ManualMappings1 == Optional("manual_mapping",
    {"iris" :> "/uav1", "/iris" :> "/", ("iris" :> "uav1") @@ ("/iris" :> "ugv1")})
RobotTables == Optional("robots",
    {"uav1" :> [gazebo_model_name |-> "/iris", gazebo_model |-> "ugv1"],
     "uav1" :> [enabled |-> FALSE, gazebo_model |-> "iris", body_to_tracker |-> [xyz |-> "r"]],
     ("uav1" :> [gazebo_model |-> "iris", body_to_tracker |-> [rpy |-> "r"]])
         @@ ("ugv1" :> [gazebo_model |-> "iris"])})
Extrinsics == Optional("extrinsics",
    {"/uav1" :> [translation |-> "e"],
     ("ugv1" :> [xyz |-> "e", quaternion |-> "q", rpy |-> "e"]) @@ ("/" :> [xyz |-> "e"])})
Transforms == Optional("default_body_to_tracker", {[translation |-> "d", rotation_rpy |-> "d"]})
MatchModes == Optional("match_mode", {"exact", "prefix", "fuzzy"})
Delays == Optional("delay",
    {[enabled |-> TRUE, maxDelay |-> 3, common |-> [base |-> 1]],
     [timestamp_policy |-> "sample_time", seed |-> -1, trackers |-> "/uav1" :> [maxDelay |-> 500]],
     [timestamp_policy |-> "never"], [margin |-> -1],
     [trackers |-> ("uav1" :> [base |-> 2]) @@ ("/" :> [slowTau |-> 0])]})
Noises == Optional("mocap_noise", {[enabled |-> TRUE, seed |-> 2]})

DelayArguments == Optional("delay_enabled", BOOLEAN) ++ Optional("delay_seed", {-1, 9})
                      ++ Optional("delay_timestamp_policy", {"send_time", "never"})
AutoArgument == Optional("auto_track_known_models", BOOLEAN)
NoiseArguments == Optional("mocap_noise_enabled", {FALSE}) ++ Optional("mocap_noise_seed", {0, 7})

SetupsOf(yamls, launches) == {[yaml |-> y, launch |-> l] : y \in yamls, l \in launches}

Mapping == SetupsOf(AutoMappings ++ TrackerLists ++ EnabledLists ++ ManualMappings1
                        ++ RobotTables ++ Optional("auto_track_known_models", {FALSE}),
                    AutoArgument)
Bodies == SetupsOf(Extrinsics ++ Transforms ++ RobotTables ++ ManualMappings1, {EmptyFunction})
DelaySetups == SetupsOf(Delays, DelayArguments)
Overrides == SetupsOf(MatchModes ++ TrackerLists ++ EnabledLists ++ Optional("scan_interval", {3}),
                      Optional("trackers", {<<"ugv1">>, <<"/">>}) ++ Optional("match_mode", {"prefix"})
                          ++ Optional("port", {0, 3884}) ++ Optional("scan_interval", {0, 1}))
NoiseSetups == SetupsOf(Noises ++ Optional("mocap_noise_enabled", {TRUE}), NoiseArguments)
Wrong == SetupsOf(UNION {{k :> Malformed} :
                      k \in {"trackers", "enabled_trackers", "default_body_to_tracker", "mocap_noise",
                             "delay", "auto_mapping", "robots", "manual_mapping", "extrinsics"}},
                  {EmptyFunction})

MCSetups == Mapping \cup Bodies \cup DelaySetups \cup Overrides \cup NoiseSetups \cup Wrong
=============================================================================
