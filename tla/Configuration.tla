--------------------------- MODULE Configuration ---------------------------
(***************************************************************************)
(* Loading the configuration (src/greatsage/configuration): the built-in   *)
(* defaults, under the YAML file, under the GREATSAGE_* variables, are     *)
(* merged as one untyped tree, the tree is validated, and the typed        *)
(* configuration is built from it.  A value stands for what the loader can *)
(* tell of it: "good" for its field; "over", of the field's kind but       *)
(* beyond what the field may hold; "wrong", not of the kind; "list", not   *)
(* of the kind and not hashable; "absent".  A variable holds a string:     *)
(* "unreadable" when no number, boolean or list can be read from it.       *)
(*                                                                         *)
(* A document is the defaults but for its edits: a field put, a mapping    *)
(* written as something else (an empty section is null), a key the schema  *)
(* does not know, or one that is not a string.  Documents of one edit are  *)
(* explored, and of the two unknown sections.                              *)
(***************************************************************************)
EXTENDS Integers, FiniteSets

CONSTANTS Sections      \* the sections whose documents are explored

Of(kind, names) == [n \in names |-> kind]
f ++ g == [n \in DOMAIN f \cup DOMAIN g |-> IF n \in DOMAIN f THEN f[n] ELSE g[n]]
Db == Of("bool", {"enabled"}) ++ Of("path", {"database_path"})

(* Every mapping of the configuration, with the scalar fields it holds.    *)
Schema ==
    [core |-> Of("nonempty_str", {"name", "timezone"}) ++
             Of("path", {"data_dir", "cache_dir", "logs_dir", "runtime_dir",
             "workspaces_dir", "models_dir", "backups_dir"}),
     logging |-> Of("enum", {"level", "format"}) ++ Of("nonneg_int", {"retention_days"}),
     events |-> Of("positive_int", {"queue_maxsize", "worker_count"}),
     ai |-> Of("enum", {"default_provider"}),
     memory |-> Db ++ Of("bool", {"auto_save_conversations", "embeddings_enabled"}) ++
             Of("confidence", {"default_confidence"}) ++ Of("url", {"embedding_base_url"}) ++
             Of("nonneg_int", {"retention_days"}) ++ Of("nonempty_str", {"embedding_model"}),
     tasks |-> Of("positive_int", {"max_iterations", "default_timeout_minutes",
             "persist_interval_seconds"}),
     tools |-> Of("path", {"working_directory"}) ++
             Of("positive_number", {"execution_timeout_seconds"}) ++
             Of("positive_int", {"max_output_bytes"}) ++
             Of("path_list", {"allowed_roots", "denied_roots"}),
     agent |-> Of("bool", {"enabled"}) ++ Of("positive_number", {"max_wall_time_seconds"}) ++
             Of("positive_int", {"max_steps", "max_tool_calls", "max_single_tool_calls",
             "max_total_tool_output_bytes", "loop_detection_threshold"}),
     delegation |-> Of("bool", {"enabled"}) ++ Of("nonempty_str", {"default_provider"}) ++
             Of("positive_number", {"max_wall_time_seconds"}) ++
             Of("positive_int", {"max_output_bytes", "max_permission_requests",
             "max_session_count", "max_delegation_depth"}),
     workspace |-> Db ++ Of("positive_number", {"scan_timeout_seconds"}) ++
             Of("positive_int", {"max_scan_depth", "max_entries"}),
     planning |-> Db ++ Of("positive_int", {"max_plan_steps"}),
     task |-> Db ++ Of("positive_int", {"max_steps"}) ++
             Of("positive_number", {"per_step_timeout_seconds", "total_timeout_seconds"}),
     scheduler |-> Db ++ Of("positive_int", {"max_schedules"}),
     telegram |-> Of("bool", {"enabled"}) ++ Of("nonempty_str", {"token_env"}) ++
             Of("int_list", {"allowed_chat_ids"}) ++
             Of("positive_number", {"poll_timeout_seconds", "max_listen_seconds"}),
     mcp |-> Of("bool", {"enabled"}) ++ Of("string_list", {"allowed_tools"}),
     security |-> Of("enum", {"mode", "default_mode"}) ++ Of("path", {"audit_log"}) ++
             Of("bool", {"allow_auto_approve_read", "destructive_confirm"}),
     voice |-> <<>>]

Endpoint == Of("enum", {"type"}) ++ Of("bool", {"enabled"}) ++ Of("url", {"base_url"}) ++
            Of("str", {"model"}) ++ Of("positive_number", {"timeout_seconds"})

ProviderSections == {"ai.providers.local", "ai.providers.opencode"}
NestedMappings == {"ai.providers", "tools.terminal", "tools.browser", "voice.wake_word",
                   "voice.stt", "voice.tts"} \cup ProviderSections
Nested ==
    [m \in NestedMappings |->
       CASE m = "ai.providers" -> <<>>
         [] m = "ai.providers.local" -> Endpoint ++ Of("int", {"num_gpu"})
         [] m = "ai.providers.opencode" -> Endpoint ++ Of("str", {"api_key_env", "username_env"})
         [] m \in {"tools.terminal", "tools.browser"} -> Of("enum", {"default_risk"})
         [] m = "voice.wake_word" -> Of("bool", {"enabled"}) ++ Of("nonempty_str", {"model"})
         [] m = "voice.stt" -> Of("nonempty_str", {"engine", "model", "language"})
         [] m = "voice.tts" -> Of("nonempty_str", {"engine", "voice"})]

ConfigurationAssumption == Sections \subseteq DOMAIN Schema

Root == ""
Mappings == DOMAIN Schema \cup DOMAIN Nested
Names(m) == IF m \in DOMAIN Schema THEN Schema[m] ELSE Nested[m]
Kind(f) == Names(f[1])[f[2]]
FieldsOf(m) == {m} \X DOMAIN Names(m)
Fields == UNION {FieldsOf(m) : m \in Mappings}

(* The mappings at and below a section, and those a mapping lies in.       *)
Below(m) ==
    {m} \cup (CASE m = "ai" -> {"ai.providers"} \cup ProviderSections
                [] m = "ai.providers" -> ProviderSections
                [] m = "tools" -> {"tools.terminal", "tools.browser"}
                [] m = "voice" -> {"voice.wake_word", "voice.stt", "voice.tts"}
                [] OTHER -> {})
Around(m) == {o \in Mappings : m \in Below(o)}
FieldsBelow(m) == UNION {FieldsOf(o) : o \in Below(m)}
-----------------------------------------------------------------------------
(* The fields that have a ceiling, and the one whose TRUE is refused.      *)
Ceilings ==
    {"auto_save_conversations"} \cup
    {"max_steps", "max_tool_calls", "max_wall_time_seconds", "max_single_tool_calls",
     "max_total_tool_output_bytes", "loop_detection_threshold"} \cup
    {"max_output_bytes", "max_permission_requests", "max_session_count",
     "max_delegation_depth"} \cup
    {"max_scan_depth", "max_entries", "scan_timeout_seconds"} \cup
    {"max_plan_steps", "per_step_timeout_seconds", "total_timeout_seconds", "max_schedules"} \cup
    {"poll_timeout_seconds", "max_listen_seconds"}
Bounded == {f \in Fields : f[2] \in Ceilings /\ f[1] /= "tools"}

FileValues(f) == {"good", "wrong", "list"} \cup (IF f \in Bounded THEN {"over"} ELSE {})
Strings(f) == {"good", "wrong", "unreadable"} \cup (IF f \in Bounded THEN {"over"} ELSE {})

(* coerce_env: the value read from a string, "error" when it raises.       *)
Parsed == {"bool", "int", "positive_int", "nonneg_int", "positive_number", "confidence",
           "path_list", "int_list", "string_list"}
Coerce(kind, string) ==
    CASE string = "unreadable" -> IF kind \in Parsed THEN "error" ELSE "good"
      [] string = "wrong" /\ kind = "confidence" -> "error"
      [] string = "wrong" /\ kind \in {"str", "bool", "int", "int_list", "string_list"} -> "good"
      [] OTHER -> string

EnvFields == {f \in Fields : f[1] \in DOMAIN Schema \cup ProviderSections}
-----------------------------------------------------------------------------
Puts(f, v) == [edit |-> "put", of |-> f[1], field |-> f, value |-> v]
NoMapping(m) == [edit |-> "scalar", of |-> m]
Extra(m, key) == [edit |-> "extra", of |-> m, key |-> key]
Edits(m) ==
    {NoMapping(m), Extra(m, "unknown"), Extra(m, "number")} \cup
    UNION {{Puts(f, v) : v \in FileValues(f)} : f \in FieldsOf(m)}
TopEdits == {Extra(Root, "unknown"), Extra(Root, "number")}

Documents(s) == {{}} \cup {{e} : e \in UNION {Edits(m) : m \in Below(s)}}

(* One variable of the section, none, or all of them.                      *)
Environments(s) ==
    LET own == EnvFields \cap FieldsBelow(s) IN
    {<<>>, [f \in own |-> "good"]} \cup
    UNION {[{f} -> Strings(f)] : f \in own}
-----------------------------------------------------------------------------
VARIABLES argument, named, standard,  \* the files asked for: by argument, variable, custom
          doc, env,                 \* the edits of the document that is read; the variables
          stage, raw,               \* where load_config is; the merged tree
          config                    \* what was built

vars == <<argument, named, standard, doc, env, stage, raw, config>>

(* The tree: what each mapping is, the keys nothing knows, the values.     *)
Default == [node |-> [m \in Mappings |-> "mapping"], extras |-> {},
            value |-> [f \in Fields |-> <<"good", "default">>]]
Absent == <<"absent", "default">>

(* _merge_dict: the document over the tree.  Where it has something else   *)
(* for a mapping, nothing below is left.                                   *)
Scalars(edits) == {m \in Mappings : NoMapping(m) \in edits}
Written(edits) == {e \in edits : e.edit = "put"}
MergeDict(tree, edits) ==
    LET lost == UNION {FieldsBelow(m) : m \in Scalars(edits)} IN
    [node |-> [m \in Mappings |-> IF m \in Scalars(edits) THEN "scalar"
                                  ELSE IF Around(m) \cap Scalars(edits) /= {} THEN "absent"
                                  ELSE tree.node[m]],
     extras |-> tree.extras \cup {<<e.of, e.key>> : e \in {d \in edits : d.edit = "extra"}},
     value |-> [f \in Fields |->
                  IF f \in lost THEN Absent
                  ELSE IF \E e \in Written(edits) : e.field = f
                       THEN <<(CHOOSE e \in Written(edits) : e.field = f).value, "file">>
                  ELSE tree.value[f]]]

(* apply_env: the variables over the tree.  Each makes the mappings on its *)
(* way anew where they are something else (_set_dotted).                   *)
SetDottedAnew(tree, g) ==                               \* a mutant of SetDotted
    IF g \in DOMAIN env THEN <<Coerce(Kind(g), env[g]), "env">>
    ELSE IF \E f \in DOMAIN env : f[1] = g[1] THEN Absent ELSE tree.value[g]
SetDotted(tree, g) ==
    IF g \in DOMAIN env THEN <<Coerce(Kind(g), env[g]), "env">> ELSE tree.value[g]
ApplyEnv(tree) ==
    [node |-> [m \in Mappings |-> IF \E f \in DOMAIN env : m \in Around(f[1])
                                  THEN "mapping" ELSE tree.node[m]],
     extras |-> tree.extras,
     value |-> [f \in Fields |-> SetDotted(tree, f)]]
Unreadable == \E f \in DOMAIN env : Coerce(Kind(f), env[f]) = "error"
-----------------------------------------------------------------------------
(* validate: what it reports, and when it raises instead: the keys of a    *)
(* mapping are sorted, and an enum's value is looked up in a frozenset.    *)
Problems(tree) ==
    tree.extras \cup {<<m>> : m \in {o \in Mappings : tree.node[o] = "scalar"}} \cup
    {f \in Fields : \/ tree.value[f][1] \in {"wrong", "list"}
                    \/ tree.value[f][1] = "over" /\ f \in Bounded
                    \/ /\ f[1] \in ProviderSections /\ tree.node[f[1]] = "mapping"
                       /\ tree.value[f] = Absent}
Unsortable(tree) ==
    \/ {<<Root, "unknown">>, <<Root, "number">>} \subseteq tree.extras
    \/ \E m \in Mappings : <<m, "number">> \in tree.extras
Unhashable(tree) == \E f \in Fields : Kind(f) = "enum" /\ tree.value[f][1] = "list"

(* build_config reads every field by its name, but for two.                *)
Optional == {<<"ai.providers.opencode", "username_env">>, <<"ai.providers.opencode", "model">>}
Incomplete(tree) == \E f \in Fields \ Optional : tree.value[f] = Absent
-----------------------------------------------------------------------------
(* A file that is asked for: "malformed" when it is no YAML or no mapping, *)
(* "garbled" when reading it raises what _load_yaml does not catch (bytes  *)
(* that are not UTF-8, a date that does not exist), "homeless" when its    *)
(* path names the home of nobody (expanduser).                             *)
Files == {"none", "missing", "malformed", "garbled", "homeless", "file"}
ConfigurationInit ==
    /\ \/ /\ argument \in Files /\ named \in Files
          /\ standard \in Files \ {"missing", "homeless"}
          /\ doc = {} /\ env = <<>>
       \/ /\ argument = "file" /\ named = "none" /\ standard = "none"
          /\ \/ \E s \in Sections : doc \in Documents(s) /\ env \in Environments(s)
             \/ doc \in SUBSET TopEdits /\ env = <<>>
    /\ stage = "resolve" /\ raw = Default /\ config = <<>>

LoadEnds(how) == stage' = how /\ UNCHANGED <<argument, named, standard, doc, env, raw, config>>

(* _resolve_path and _load_yaml: the first file asked for, or none.        *)
Asked == IF argument /= "none" THEN argument ELSE IF named /= "none" THEN named ELSE standard
Read == Asked = "file"
Resolve ==
    /\ stage = "resolve"
    /\ \/ Asked \in {"missing", "malformed"} /\ LoadEnds("refused")
       \/ Asked \in {"garbled", "homeless"} /\ LoadEnds("crashed")
       \/ /\ Asked \in {"none", "file"}
          /\ raw' = IF Read THEN MergeDict(Default, doc) ELSE Default
          /\ stage' = "environment"
          /\ UNCHANGED <<argument, named, standard, doc, env, config>>

Overrides ==
    /\ stage = "environment"
    /\ \/ Unreadable /\ LoadEnds("refused")
       \/ /\ ~Unreadable
          /\ raw' = ApplyEnv(raw) /\ stage' = "validate"
          /\ UNCHANGED <<argument, named, standard, doc, env, config>>

Validates ==
    /\ stage = "validate"
    /\ \/ (Unsortable(raw) \/ Unhashable(raw)) /\ LoadEnds("crashed")
       \/ ~Unsortable(raw) /\ ~Unhashable(raw) /\ Problems(raw) /= {} /\ LoadEnds("refused")
       \/ ~Unsortable(raw) /\ ~Unhashable(raw) /\ Problems(raw) = {} /\ LoadEnds("build")

Builds ==
    /\ stage = "build"
    /\ \/ Incomplete(raw) /\ LoadEnds("crashed")
       \/ /\ ~Incomplete(raw)
          /\ config' = raw.value /\ stage' = "loaded"
          /\ UNCHANGED <<argument, named, standard, doc, env, raw>>

ConfigurationNext == Resolve \/ Overrides \/ Validates \/ Builds

ConfigurationSpec == ConfigurationInit /\ [][ConfigurationNext]_vars
-----------------------------------------------------------------------------
Flawed(e) == e.edit /= "put" \/ e.value /= "good"
Mistakes == {f \in DOMAIN env : env[f] /= "good"}

(* What the loader cannot explain: an enum given a list, a key that is no  *)
(* string, a section that is no mapping and of which a variable is set.    *)
Unexplained(e) ==
    CASE e.edit = "put" -> e.value = "list" /\ Kind(e.field) = "enum"
      [] e.edit = "scalar" -> DOMAIN env \cap FieldsBelow(e.of) /= {}
      [] OTHER -> e.key = "number"

(* configuration/loader.py load_config: a configuration that is built says *)
(* what was written, a variable over the file over the defaults, every     *)
(* field of its kind and within its ceiling, and of the file nothing was   *)
(* ignored unless variables replaced all of it; one is built unless the    *)
(* file asked for cannot be read, or it or a variable has a mistake; and   *)
(* what is not built is refused with an explanation, but for a garbled     *)
(* file, a homeless path and three mistakes in the file.                   *)
LoadsAsWritten ==
    /\ stage = "loaded" =>
         \A f \in Fields :
           config[f] = IF f \in DOMAIN env THEN <<"good", "env">>
                       ELSE IF Read /\ Puts(f, "good") \in doc THEN <<"good", "file">>
                       ELSE <<"good", "default">>
    /\ stage = "loaded" /\ Read =>
         \A e \in doc : Flawed(e) =>
           /\ e.edit /= "extra"
           /\ e.edit = "put" => e.field \in DOMAIN env
           /\ e.edit = "scalar" => FieldsBelow(e.of) \subseteq DOMAIN env
    /\ stage \in {"refused", "crashed"} =>
         Asked \notin {"none", "file"} \/ Mistakes /= {} \/ (Read /\ \E e \in doc : Flawed(e))
    /\ stage = "crashed" =>
         Asked \in {"garbled", "homeless"} \/ (Read /\ \E e \in doc : Unexplained(e))

(* configuration/loader.py load_config: on any invalid input it raises     *)
(* ConfigurationError, and nothing else.                                   *)
ExplainsEveryRefusal == stage /= "crashed"
=============================================================================
