---------------------------- MODULE PluginRegistry ----------------------------
(***************************************************************************)
(* ragx/spi/registry.py: factories by interface and name, instances by     *)
(* interface, name and knowledge base, and the lifecycle hooks.  Plugin    *)
(* stands for an <<interface, name>>.  resolve does not suspend: in the    *)
(* one thread of the event loop it is a step.                              *)
(***************************************************************************)
EXTENDS Integers, SequencesExt, TLC

CONSTANTS
    Plugin,
    Builtins,      \* what register_builtins brings
    EntryPoints,   \* what the installed packages offer and can be loaded
    Broken,        \* <<plugin, kb>> whose factory raises
    KbConfig,      \* the plugins the routes resolve, in their order
    DefaultKb

VARIABLE
    instances      \* plugin, knowledge base and state, in the order of creation

ASSUME RegistryConstants ==
    /\ Builtins \subseteq Plugin /\ EntryPoints \subseteq Plugin
    /\ KbConfig \in Seq(Plugin)

(* register_builtins of create_app, then discover.  An entry point takes   *)
(* the place of a builtin of its name.                                     *)
Discovered == Builtins \cup EntryPoints

Cached(insts, p, kb) == \E i \in DOMAIN insts : insts[i].plugin = p /\ insts[i].kb = kb

(* An unknown plugin is 9003, and a factory may raise. *)
Resolvable(p, kb) == p \in Discovered /\ <<p, kb>> \notin Broken

(* What resolve makes of the instances there are: one that is cached is    *)
(* returned before the factory is looked at.                               *)
Resolve(made, p, kb) ==
    CASE ~made.ok \/ Cached(made.insts, p, kb) -> made
      [] made.ok /\ ~Cached(made.insts, p, kb) /\ ~Resolvable(p, kb) ->
            [ok |-> FALSE, insts |-> made.insts]
      [] OTHER -> [ok |-> TRUE,
                   insts |-> Append(made.insts, [plugin |-> p, kb |-> kb, state |-> "cold"])]

(* resolve_from_kb for each interface a handler needs, up to the first     *)
(* that fails; instances made before it stay cached.                       *)
ResolveAll(cached, kb) ==
    LET made[n \in 0..Len(KbConfig)] ==
            IF n = 0 THEN [ok |-> TRUE, insts |-> cached]
            ELSE Resolve(made[n - 1], KbConfig[n], kb)
    IN  made[Len(KbConfig)]

(* startup_all reaches what is cached by then; what a later request        *)
(* resolves never sees its startup hook.  One that raises ends the start.  *)
StartupAll(insts, raised) ==
    [i \in DOMAIN insts |-> IF \E j \in raised : j <= i THEN insts[i]
                            ELSE [insts[i] EXCEPT !.state = "started"]]

MutantShutdownAll(raised) ==
    instances' = [i \in DOMAIN instances |->
                    IF \E j \in raised : j < i THEN instances[i]
                    ELSE [instances[i] EXCEPT !.state = "closed"]]

(* shutdown_all: a hook that raises is logged and its plugin left as it is. *)
ShutdownAll(raised) ==
    instances' = [i \in DOMAIN instances |->
                    [instances[i] EXCEPT !.state = IF i \in raised THEN "failed" ELSE "closed"]]
================================================================================
