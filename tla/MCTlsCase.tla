----------------------------- MODULE MCTlsCase ------------------------------
(* Small instances of TlsCase for TLC. *)
EXTENDS TlsCase, TLC

MCCommands == ("r" :> "read") @@ ("w" :> "randrw")
\* The template is a matter of fio alone.
MCConfigs(workers) ==
    {k \in [workers : workers, engine : {"fio", "vdbench"}, template : Templates,
            lifecycle : {"none", "per-case"}, dry_run : BOOLEAN, allow_write : BOOLEAN,
            import_key : BOOLEAN, discover : BOOLEAN, disconnect_after_case : BOOLEAN] :
        k.engine = "vdbench" => k.template = "follows"}
MCAllConfigs == MCConfigs({1, 2})
MCPerCase == {k \in MCConfigs({2}) : k.lifecycle = "per-case" /\ k.disconnect_after_case}
=============================================================================
