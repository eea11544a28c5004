------------------------------ MODULE Settings ------------------------------
(***************************************************************************)
(* How the settings of a run come about: the defaults and the file of      *)
(* pangea_fuzz/config.py, the command lines of the three modes, and the    *)
(* artifact policy of pangea_fuzz/runtime.py.                              *)
(*                                                                         *)
(* A scalar of the file is [word, quoted]; a loaded value is [is, text, n] *)
(* with the text Python's str() gives it and the number int() makes of it, *)
(* as a set: empty when int() raises.  A file and a command line are       *)
(* functions from the names they set; names of sections are flattened      *)
(* (key_file stands for tls_key.file, paths_fio for tool_paths.fio).       *)
(***************************************************************************)
EXTENDS Integers, Sequences, FiniteSets

CONSTANT Numeral        \* the words that read as a number -> that number

ASSUME NumeralAssumption ==
    /\ Numeral \in [DOMAIN Numeral -> Int]
    /\ DOMAIN Numeral \cap {"", "true", "false", "null", "~"} = {}

NumberOf(word) == {Numeral[w] : w \in {word} \cap DOMAIN Numeral}
Word(text) == [is |-> "str", text |-> text, n |-> NumberOf(text)]
Int_(text, i) == [is |-> "int", text |-> text, n |-> {i}]
Switch(on) == [is |-> "bool", text |-> IF on THEN "True" ELSE "False", n |-> {IF on THEN 1 ELSE 0}]

\* load_simple_yaml on what follows a colon; nothing there opens a section.
Scalar(raw) ==
    CASE raw.quoted -> Word(raw.word)
      [] ~raw.quoted /\ raw.word = "" -> [is |-> "section", text |-> "{}", n |-> {}]
      [] ~raw.quoted /\ raw.word \in {"true", "false"} -> Switch(raw.word = "true")
      [] ~raw.quoted /\ raw.word \in {"null", "~"} -> [is |-> "null", text |-> "None", n |-> {}]
      [] ~raw.quoted /\ raw.word \in DOMAIN Numeral -> Int_(raw.word, Numeral[raw.word])
      [] OTHER -> [is |-> "str", text |-> raw.word, n |-> {}]

Truthy(v) ==
    \/ v.is = "str" /\ v.text # ""
    \/ v.is \in {"int", "bool"} /\ v.n # {0}

DEFAULT_CONFIG == [
    workers |-> Int_("1", 1), shard_count |-> Int_("1", 1), shard_index |-> Int_("0", 0),
    max_total_gb |-> Int_("200", 200), stop_when_free_space_below_gb |-> Int_("20", 20),
    compression |-> Switch(TRUE), pass_keep_full |-> Switch(FALSE),
    pass_keep_pcap |-> Switch(FALSE), fail_keep_pcap |-> Word("on_new_bucket"),
    engine |-> Word("fio"), device |-> Word(""), transport |-> Word("tcp"),
    runtime_s |-> Int_("5", 5), timeout_s |-> Int_("120", 120), allow_write |-> Switch(FALSE),
    paths_nvme |-> Word("nvme"), paths_fio |-> Word("fio"), paths_vdbench |-> Word("vdbench"),
    paths_keyctl |-> Word("keyctl"), target_traddr |-> Word(""), target_trsvcid |-> Word("4420"),
    subsysnqn |-> Word(""), hostnqn |-> Word(""), connection_lifecycle |-> Word("none"),
    discover_before_connect |-> Switch(FALSE), disconnect_after_case |-> Switch(TRUE),
    key_source |-> Word("none"), key_env |-> Word(""), key_file |-> Word(""),
    key_identity |-> Word(""), key_keyring |-> Word("@u"), key_import |-> Switch(FALSE),
    max_pps |-> Int_("100", 100), max_duration_s |-> Int_("30", 30)]

\* _deep_merge: what the file names replaces the default.
Merged(file) ==
    [key \in DOMAIN DEFAULT_CONFIG \cup DOMAIN file |->
        IF key \in DOMAIN file THEN Scalar(file[key]) ELSE DEFAULT_CONFIG[key]]

\* Only nvmetcp-tls run reads the file; the other modes know their own command
\* line and the same defaults.
Layer(mode, file) == IF mode = "tls" THEN file ELSE <<>>
-----------------------------------------------------------------------------
(* name -> how the setting is computed: the keys of the file it is looked   *)
(* up under, in their order, and the value of last resort.                  *)

From(kind, keys, gap) == [kind |-> kind, keys |-> keys, gap |-> gap]

PolicySettings == [
    shard_index |-> From("number", <<"shard_index">>, "0"),
    shard_count |-> From("number", <<"shard_count">>, "1"),
    artifact_budget_gb |-> From("number", <<"max_total_gb">>, "200"),
    free_space_floor_gb |-> From("number", <<"stop_when_free_space_below_gb">>, "20"),
    compress |-> From("off", <<"compression">>, ""),
    keep_pass_full |-> From("on", <<"pass_keep_full">>, ""),
    keep_pcap |-> From("text", <<"fail_keep_pcap">>, ""),
    keep_pass_pcap |-> From("pcap", <<"pass_keep_pcap">>, "")]

TlsSettings == [
    workers |-> From("number", <<"workers">>, "1"),
    runtime_s |-> From("number", <<"runtime_s", "runtime">>, "5"),
    timeout_s |-> From("number", <<"timeout_s", "timeout">>, "120"),
    engine |-> From("text", <<"engine">>, "fio"),
    device |-> From("text", <<"device">>, ""),
    transport |-> From("text", <<"transport">>, "tcp"),
    subsysnqn |-> From("text", <<"subsysnqn">>, ""),
    hostnqn |-> From("text", <<"hostnqn">>, ""),
    connection_lifecycle |-> From("text", <<"connection_lifecycle">>, "none"),
    traddr |-> From("chain", <<"target_traddr", "traddr">>, ""),
    trsvcid |-> From("chain", <<"target_trsvcid", "trsvcid">>, ""),
    fio_bin |-> From("chain", <<"fio_bin", "paths_fio">>, "fio"),
    vdbench_bin |-> From("chain", <<"vdbench_bin", "paths_vdbench">>, "vdbench"),
    nvme_bin |-> From("chain", <<"nvme_bin", "paths_nvme">>, "nvme"),
    keyctl_bin |-> From("chain", <<"keyctl_bin", "paths_keyctl">>, "keyctl"),
    tls_key_source |-> From("chain", <<"key_source", "tls_key_source">>, "none"),
    tls_key_env |-> From("chain", <<"key_env", "tls_key_env">>, ""),
    tls_key_file |-> From("chain", <<"key_file", "tls_key_file">>, ""),
    tls_key_identity |-> From("chain", <<"key_identity", "tls_key_identity">>, ""),
    tls_keyring |-> From("chain", <<"key_keyring", "tls_keyring">>, "@u"),
    allow_write |-> From("on", <<"allow_write">>, ""),
    discover_before_connect |-> From("on", <<"discover_before_connect">>, ""),
    disconnect_after_case |-> From("off", <<"disconnect_after_case">>, ""),
    import_tls_key |-> From("on", <<"key_import", "import_tls_key">>, "")]

Settings == [name \in DOMAIN PolicySettings \cup DOMAIN TlsSettings |->
    IF name \in DOMAIN PolicySettings THEN PolicySettings[name] ELSE TlsSettings[name]]

Names(mode) == IF mode = "tls" THEN DOMAIN Settings ELSE DOMAIN PolicySettings

\* The first of the keys that is in the configuration at all, and the first
\* with something in it; the last resort when there is none.
Lookup(config, s) ==
    LET hits == {i \in DOMAIN s.keys : s.keys[i] \in DOMAIN config}
    IN  IF hits = {} THEN Word(s.gap)
        ELSE config[s.keys[CHOOSE i \in hits : \A j \in hits : i <= j]]
Chain(config, s) ==
    LET hits == {i \in DOMAIN s.keys : s.keys[i] \in DOMAIN config /\ Truthy(config[s.keys[i]])}
    IN  IF hits = {} THEN Word(s.gap)
        ELSE config[s.keys[CHOOSE i \in hits : \A j \in hits : i <= j]]

\* Seeded fault: a zero on the command line counts as not given.
Number_Or(cli, name, config) ==
    IF name \in DOMAIN cli /\ cli[name] # 0 THEN {cli[name]} ELSE Lookup(config, Settings[name]).n

\* args.x if args.x is not None else ...; args.x or ...; store_true switches.
Number(cli, name, config) ==
    IF name \in DOMAIN cli THEN {cli[name]} ELSE Lookup(config, Settings[name]).n
Text(cli, name, config) ==
    IF name \in DOMAIN cli /\ cli[name] # "" THEN cli[name]
    ELSE IF Settings[name].kind = "chain" THEN Chain(config, Settings[name]).text
    ELSE Lookup(config, Settings[name]).text
SwitchedOn(cli, name, config) ==
    CASE Settings[name].kind = "on" -> name \in DOMAIN cli \/ Truthy(Lookup(config, Settings[name]))
      [] Settings[name].kind = "off" -> name \notin DOMAIN cli /\ Truthy(Lookup(config, Settings[name]))
      [] OTHER -> IF "keep_pcap" \in DOMAIN cli THEN cli.keep_pcap # "never"
                  ELSE Truthy(Lookup(config, Settings[name]))

\* The settings of a run: a set for a number, empty when int() raises.
Effective(mode, cli, file) ==
    LET config == Merged(Layer(mode, file))
    IN  [name \in Names(mode) |->
            CASE Settings[name].kind = "number" -> Number(cli, name, config)
              [] Settings[name].kind \in {"text", "chain"} -> Text(cli, name, config)
              [] OTHER -> SwitchedOn(cli, name, config)]

\* Values of the file that are made numbers whatever the command line says.
Eager == {"workers", "shard_count", "shard_index", "max_pps", "max_duration_s",
          "max_total_gb", "stop_when_free_space_below_gb"}

\* RunConfig.__post_init__ of the mode, after everything that raises before it.
Valid(mode, cli, file) ==
    LET e == Effective(mode, cli, file)
        AtLeast(name, low) == e[name] # {} /\ \A n \in e[name] : n >= low
        InShardRange == \A i \in e.shard_index, n \in e.shard_count : i < n
    IN  /\ \A key \in Eager : Merged(Layer(mode, file))[key].n # {}
        /\ mode # "net" => AtLeast("shard_count", 1) /\ AtLeast("shard_index", 0) /\ InShardRange
        /\ mode = "tls" =>
             /\ e.engine \in {"fio", "vdbench"}
             /\ e.connection_lifecycle \in {"none", "per-case"}
             /\ e.tls_key_source \in {"none", "preloaded", "env", "file"}
             /\ \A name \in {"workers", "runtime_s", "timeout_s"} : AtLeast(name, 1)
             /\ e.device # ""
             /\ e.connection_lifecycle # "none" => "" \notin {e.traddr, e.trsvcid, e.subsysnqn}
-----------------------------------------------------------------------------
(* What the documents promise of the settings, to judge Effective by.       *)

\* The name under which a file can reach a setting: not one behind a name whose
\* default ends the search.
Reaches(key, s) ==
    \E i \in DOMAIN s.keys :
       /\ s.keys[i] = key
       /\ \A j \in 1..(i - 1) :
            s.keys[j] \in DOMAIN DEFAULT_CONFIG =>
                s.kind = "chain" /\ ~Truthy(DEFAULT_CONFIG[s.keys[j]])

\* What a given value is as the value of a setting.
Given(s, given) ==
    CASE s.kind = "number" -> {given} [] s.kind = "pcap" -> given # "never"
      [] s.kind \in {"text", "chain"} -> given [] OTHER -> s.kind = "on"
Loaded(s, v) ==
    CASE s.kind = "number" -> v.n [] s.kind \in {"text", "chain"} -> v.text [] OTHER -> Truthy(v)

\* The command line before the file before the default, setting by setting, and
\* the file for nvmetcp-tls only.  Exceptions: an empty text counts as not given,
\* a switch cannot be given to take a setting of the file back, an empty value of
\* the file leaves the tools, addresses and keys at what comes behind it, and a
\* file cannot reach a setting by its second name when the first has a default.
Precedence(mode, cli, file) ==
    LET e == Effective(mode, cli, file)
        unsaid == Effective(mode, <<>>, <<>>)
    IN  \A name \in Names(mode) :
           LET s == Settings[name]
               option == IF s.kind = "pcap" THEN "keep_pcap" ELSE name
               said == option \in DOMAIN cli /\ (s.kind \in {"text", "chain"} => cli[option] # "")
               keys == {k \in DOMAIN file : mode = "tls" /\ Reaches(k, s)
                            /\ (s.kind = "chain" => Truthy(Scalar(file[k])))}
           IN  /\ said => e[name] = Given(s, cli[option])
               /\ ~said /\ keys = {} => e[name] = unsaid[name] \/ (s.kind = "chain"
                        /\ \E k \in DOMAIN file : Reaches(k, s))
               /\ ~said => \A i \in DOMAIN s.keys :
                    s.keys[i] \in keys /\ (\A j \in 1..(i - 1) : s.keys[j] \notin keys)
                    => e[name] = Loaded(s, Scalar(file[s.keys[i]]))
=============================================================================
