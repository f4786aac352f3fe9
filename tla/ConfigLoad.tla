----------------------------- MODULE ConfigLoad ------------------------------
(***************************************************************************)
(* Loading the configuration (midgard-config/src): the defaults, a list of *)
(* JSON files merged into them, and the environment.  A variable is named  *)
(* by the path that it spells.                                             *)
(***************************************************************************)
EXTENDS ConfigSchema, Integers

CONSTANTS
  MaxFiles,     \* bound: files in the list
  Fields,       \* the type of every setting
  ScalarMaps,   \* the settings that are maps
  Defaults,     \* the tree of the defaults
  Contents,     \* what files may say
  Environments  \* which variables may be set, and to what

FieldTypes == {"number", "duration", "text", "bool", "list", "map"}
Paths == Seq(KeyNames) \ {<<>>}

\* What a variable may spell: a number, a boolean and a map.
AsNumber == "1" :> 1
AsBool == "1" :> TRUE
AsMap == [raw \in {"BSC:1"} |-> [k \in {"BSC"} |-> TRUE]]

ASSUME ConfigAssumption ==
  /\ MaxFiles \in Nat
  /\ \A tree \in Contents : IsTree(tree)
  /\ \A raw \in DOMAIN AsMap : DOMAIN AsMap[raw] \subseteq KeyNames

\* A struct has no field above another, and the maps among them are listed.
ASSUME SettingsAssumption ==
  /\ DOMAIN Fields \subseteq Paths /\ \A p \in DOMAIN Fields : Fields[p] \in FieldTypes
  /\ \A p, q \in DOMAIN Fields : IsPrefix(p, q) => p = q
  /\ ScalarMaps = {p \in DOMAIN Fields : Fields[p] = "map"}

Sections == Above(DOMAIN Fields)

\* from_value: what a setting of a type can be read from, and as what.
Typed(type, tree, path) ==
  CASE type = "number" -> tree[path][1] = "number"
    [] type = "duration" -> tree[path][1] = "string" /\ tree[path][2] \in DOMAIN Spelling
    [] type = "text" -> tree[path][1] = "string"
    [] type = "bool" -> tree[path][1] = "bool"
    [] type = "list" -> tree[path][1] = "list"
    [] type = "map" -> /\ IsObject(tree[path])
                       /\ \A k \in Keys(tree, path) : tree[Append(path, k)][1] = "bool"
Decoded(type, tree, path) ==
  CASE type = "duration" -> Millis(tree[path][2])
    [] type = "map" -> [k \in Keys(tree, path) |-> tree[Append(path, k)][2]]
    [] OTHER -> tree[path][2]

\* No unknown key, and every setting of its type.
Fits(tree) ==
  \A p \in DOMAIN tree :
    \/ p \in DOMAIN Fields /\ Typed(Fields[p], tree, p)
    \/ p \in Sections \cup {<<>>} /\ IsObject(tree[p])
    \/ p # <<>> /\ Front(p) \in ScalarMaps

ASSUME DefaultsAssumption == IsTree(Defaults) /\ Fits(Defaults) /\ DOMAIN Fields \subseteq DOMAIN Defaults

\* Not there, not JSON, or not an object.
NotAnObject == <<>>

------------------------------------------------------------------------------
(* Loading *)

VARIABLES
  files,        \* the list
  environment,  \* the variables that are set
  merged,       \* the tree so far
  rest,         \* how many of the files have been merged
  config        \* Loading, RefusedConfig, or the value of every setting

configVars == <<files, environment, merged, rest, config>>

Loading == <<"loading">>
RefusedConfig == <<"refused">>
Config(values) == <<"config", values>>

ConfigInit ==
  /\ files \in UNION {[1 .. n -> Contents \cup {NotAnObject}] : n \in 0 .. MaxFiles}
  /\ environment \in Environments
  /\ merged = Defaults /\ rest = 0 /\ config = Loading

\* Mutant: a section of a later file replaces the earlier one.
MergeShallow(base, overlay) ==
  LET kept == {p \in DOMAIN base : \A q \in DOMAIN overlay \ {<<>>} : ~IsPrefix(q, p)}
  IN  [p \in kept \cup DOMAIN overlay |-> IF p \in DOMAIN overlay THEN overlay[p] ELSE base[p]]

\* merge: of the base stays what is under no value of the overlay.
Merge(base, overlay) ==
  LET kept == {p \in DOMAIN base : \A q \in DOMAIN overlay : IsPrefix(q, p) => IsObject(overlay[q])}
  IN  [p \in kept \cup DOMAIN overlay |-> IF p \in DOMAIN overlay THEN overlay[p] ELSE base[p]]

\* collect: the leaves that have a variable, where a map of scalars is a leaf.
Collect(tree) ==
  {p \in DOMAIN tree \cap DOMAIN environment :
     /\ p \in ScalarMaps \/ ~IsObject(tree[p])
     /\ \A m \in ScalarMaps : IsPrefix(m, p) => m = p}

\* coerce: what is written at a path for a variable; the value there is the
\* witness of the type.
Coercible(path, witness, raw) ==
  CASE path \in ScalarMaps -> raw \in DOMAIN AsMap
    [] path \notin ScalarMaps /\ witness[1] = "number" -> raw \in DOMAIN AsNumber
    [] path \notin ScalarMaps /\ witness[1] = "bool" -> raw \in DOMAIN AsBool
    [] OTHER -> TRUE

Coerce(path, witness, raw) ==
  CASE path \in ScalarMaps ->
         [p \in {path} \cup {Append(path, k) : k \in DOMAIN AsMap[raw]} |->
            IF p = path THEN Object ELSE Bool(AsMap[raw][Last(p)])]
    [] path \notin ScalarMaps /\ witness[1] = "number" -> [p \in {path} |-> Num(AsNumber[raw])]
    [] path \notin ScalarMaps /\ witness[1] = "bool" -> [p \in {path} |-> Bool(AsBool[raw])]
    [] path \notin ScalarMaps /\ witness[1] = "list" -> [p \in {path} |-> List(<<raw>>)]
    [] OTHER -> [p \in {path} |-> Str(raw)]

\* lookup_mut, and the assignment to what it finds, for each path of a set.
Overridden(tree, set) ==
  LET written == [p \in set |-> Coerce(p, tree[p], environment[p])]
      kept == {q \in DOMAIN tree : \A p \in set : ~IsPrefix(p, q)}
      over(q) == CHOOSE p \in set : IsPrefix(p, q)
  IN  [q \in kept \cup UNION {DOMAIN written[p] : p \in set} |->
         IF q \in kept THEN tree[q] ELSE written[over(q)][q]]

\* A setting that is missing has its default.
FromValue(tree) ==
  [p \in DOMAIN Fields |-> Decoded(Fields[p], IF p \in DOMAIN tree THEN tree ELSE Defaults, p)]

\* load_from: the next file is read and merged.
MergeFile ==
  /\ config = Loading /\ rest < Len(files)
  /\ rest' = rest + 1
  /\ IF files[rest + 1] = NotAnObject
     THEN config' = RefusedConfig /\ UNCHANGED merged
     ELSE merged' = Merge(merged, files[rest + 1]) /\ UNCHANGED config
  /\ UNCHANGED <<files, environment>>

\* The environment is applied, and the tree read as a Config.
ApplyEnvironment ==
  /\ config = Loading /\ rest = Len(files)
  /\ IF \A p \in Collect(merged) : Coercible(p, merged[p], environment[p])
     THEN /\ merged' = Overridden(merged, Collect(merged))
          /\ config' = IF Fits(merged') THEN Config(FromValue(merged')) ELSE RefusedConfig
     ELSE config' = RefusedConfig /\ UNCHANGED merged
  /\ UNCHANGED <<files, environment, rest>>

ConfigNext == MergeFile \/ ApplyEnvironment

ConfigSpec == ConfigInit /\ [][ConfigNext]_configVars

------------------------------------------------------------------------------
\* What a variable says of a setting of a type.
CanBeRead(type, raw) ==
  CASE type = "number" -> raw \in DOMAIN AsNumber
    [] type = "duration" -> raw \in DOMAIN Spelling
    [] type = "bool" -> raw \in DOMAIN AsBool
    [] type = "map" -> raw \in DOMAIN AsMap
    [] OTHER -> TRUE
Meant(type, raw) ==
  CASE type = "number" -> AsNumber[raw]
    [] type = "duration" -> Millis(raw)
    [] type = "bool" -> AsBool[raw]
    [] type = "map" -> AsMap[raw]
    [] type = "list" -> <<raw>>
    [] type = "text" -> raw

Layer(i) == IF i = 0 THEN Defaults ELSE files[i]

\* The layer that a path has its value from.
LastLayer(path) ==
  CHOOSE i \in 0 .. Len(files) :
    path \in DOMAIN Layer(i) /\ \A j \in i + 1 .. Len(files) : path \notin DOMAIN Layer(j)

\* The value of the highest layer that sets a setting; the entries of a map are
\* settings of their own in the files, and not in the environment.
Highest(p) ==
  CASE p \in DOMAIN environment -> Meant(Fields[p], environment[p])
    [] p \notin DOMAIN environment /\ Fields[p] = "map" ->
         [k \in UNION {Keys(Layer(i), p) : i \in 0 .. Len(files)} |->
            LET entry == Append(p, k) IN Layer(LastLayer(entry))[entry][2]]
    [] OTHER -> Decoded(Fields[p], Layer(LastLayer(p)), p)

\* "Three layers, each overriding the last" (lib.rs:3-11): if every file would do
\* alone and every variable can be read, the configuration is accepted, and each
\* setting has the value of the highest layer that sets it, whatever the others
\* do to its neighbours; a variable that cannot be read is never passed over.
LayersOverride ==
  LET unread == \E p \in DOMAIN environment \cap DOMAIN Fields :
                  ~CanBeRead(Fields[p], environment[p])
      sound == \A i \in DOMAIN files : files[i] # NotAnObject /\ Fits(files[i])
  IN  config # Loading /\ sound =>
        IF unread THEN config = RefusedConfig
        ELSE config = Config([p \in DOMAIN Fields |-> Highest(p)])

=============================================================================
