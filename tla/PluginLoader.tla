---------------------------- MODULE PluginLoader ----------------------------
(***************************************************************************)
(* plugin/_loader.py and plugin/_schema_validator.py: how a validator that *)
(* is being built finds the plugins it has to call.                        *)
(*                                                                         *)
(* The plugins are loaded at the first use, into a dictionary held by a    *)
(* module global; a second global says that loading goes on, so that a     *)
(* plugin that builds models while it is imported does not find itself.    *)
(* Nothing is locked.  One action is one access to a global, or one entry  *)
(* point; the variables after `at` are locals of the thread.               *)
(*                                                                         *)
(* get_plugins() answers with a view of the dictionary, and the caller     *)
(* goes through it plugin by plugin while others may still fill it.        *)
(***************************************************************************)
EXTENDS Naturals, Sequences, FiniteSets, Functions

CONSTANTS
    Threads,
    None,         \* _plugins before the first use
    EntryPoints,  \* the values of the pydantic entry points, a sequence
    Loads,        \* what loading them may do: a subset of [Range(EntryPoints) -> Kinds]
    Builders      \* the plugins whose import builds a model

Kinds == {"ok", "import_error", "crash"}

ASSUME PluginAssumption ==
    /\ None \notin Threads
    /\ EntryPoints \in Seq(Range(EntryPoints))
    /\ Loads \subseteq [Range(EntryPoints) -> Kinds]
    /\ Builders \subseteq Range(EntryPoints)

VARIABLES
    kind,        \* what loading an entry point does, a member of Loads
    disableAll,  \* PYDANTIC_DISABLE_PLUGINS is __all__
    disabled,    \* the entry points it names
    plugins,     \* _plugins: the thread that made the dictionary, or None
    loading,     \* _loading_plugins
    dicts,       \* the dictionaries, by the thread that made each
    imported,    \* the plugin modules that were imported
    at,          \* where in get_plugins() or in using its answer a thread is
    pos,         \* the entry point it looks at
    failed,      \* it unwinds an exception of entry_point.load()
    view,        \* the dictionary it was answered, None for ()
    size,        \* the size of that when the iteration over it began
    seen,        \* the plugins the validator under construction will call
    overlap,     \* history: threads whose call overlapped a load by another one
    crashed,     \* history: a load ended with an exception
    inImport     \* history: the plugins the models built by a plugin module call

settings == <<kind, disableAll, disabled>>
globals == <<settings, plugins, loading, dicts, imported>>
locals == <<pos, failed, view, size, seen>>
history == <<overlap, crashed, inImport>>
loaderVars == <<globals, at, locals, history>>

Places == {"out", "flag", "global", "empty", "mark", "scan", "load", "reset",
           "choose", "iterate", "built", "raised"}

\* Between the test that finds no dictionary and the reset of the flag.
Loaders == {t \in Threads : at[t] \in {"empty", "mark", "scan", "load", "reset"}}

\* The plugins a validator should call.
Wanted ==
    IF disableAll THEN {}
    ELSE {e \in Range(EntryPoints) : kind[e] = "ok"} \ disabled

Go(t, place) == at' = [at EXCEPT ![t] = place]

LoaderTypeOK ==
    /\ kind \in Loads /\ disableAll \in BOOLEAN /\ disabled \subseteq Range(EntryPoints)
    /\ plugins \in Threads \cup {None} /\ loading \in BOOLEAN
    /\ dicts \in [Threads -> Seq(Range(EntryPoints))]
    /\ imported \subseteq Range(EntryPoints)
    /\ at \in [Threads -> Places] /\ pos \in [Threads -> 1 .. Len(EntryPoints) + 1]
    /\ failed \in [Threads -> BOOLEAN] /\ view \in [Threads -> Threads \cup {None}]
    /\ size \in [Threads -> 0 .. Len(EntryPoints)]
    /\ seen \in [Threads -> Seq(Range(EntryPoints))]

LoaderInit ==
    /\ kind \in Loads /\ disableAll \in BOOLEAN /\ disabled \in SUBSET Range(EntryPoints)
    /\ plugins = None /\ loading = FALSE
    /\ dicts = [t \in Threads |-> << >>] /\ imported = {}
    /\ at = [t \in Threads |-> "out"] /\ pos = [t \in Threads |-> 1]
    /\ failed = [t \in Threads |-> FALSE] /\ view = [t \in Threads |-> None]
    /\ size = [t \in Threads |-> 0] /\ seen = dicts
    /\ overlap = {} /\ crashed = FALSE /\ inImport = {}

-----------------------------------------------------------------------------
(* get_plugins()                                                           *)

\* The call.
GetPlugins(t) ==
    /\ at[t] = "out"
    /\ Go(t, "flag")
    /\ overlap' = IF Loaders = {} THEN overlap \ {t} ELSE overlap \cup {t}
    /\ UNCHANGED <<globals, locals, crashed, inImport>>

\* `if _loading_plugins`, `elif disabled_plugins in (...)`
ReadFlag(t) ==
    /\ at[t] = "flag"
    /\ IF loading \/ disableAll
       THEN Go(t, "choose") /\ view' = [view EXCEPT ![t] = None]
       ELSE Go(t, "global") /\ UNCHANGED view
    /\ UNCHANGED <<globals, pos, failed, size, seen, history>>

\* `elif _plugins is None`.  A thread that goes on to load overlaps whoever is
\* inside a call.
ReadGlobal(t) ==
    /\ at[t] = "global"
    /\ IF plugins = None
       THEN /\ Go(t, "empty")
            /\ overlap' = overlap \cup {u \in Threads \ {t} : at[u] \notin {"out", "built", "raised"}}
                                  \cup (IF Loaders = {} THEN {} ELSE {t})
            /\ UNCHANGED view
       ELSE /\ Go(t, "choose")
            /\ view' = [view EXCEPT ![t] = plugins]
            /\ UNCHANGED overlap
    /\ UNCHANGED <<globals, pos, failed, size, seen, crashed, inImport>>

\* _plugins = {}
SetEmpty(t) ==
    /\ at[t] = "empty"
    /\ plugins' = t
    /\ Go(t, "mark")
    /\ UNCHANGED <<settings, loading, dicts, imported, locals, history>>

\* _loading_plugins = True
Mark(t) ==
    /\ at[t] = "mark"
    /\ loading' = TRUE
    /\ Go(t, "scan")
    /\ UNCHANGED <<settings, plugins, dicts, imported, locals, history>>

\* Mutant: PYDANTIC_DISABLE_PLUGINS only knows __all__.
Skipped_NotByName(e) == e \in Range(dicts[plugins])

\* The entry points that are not loaded (again).
Skipped(e) == e \in Range(dicts[plugins]) \/ e \in disabled

\* The head of the loop over the entry points.
Scan(t) ==
    /\ at[t] = "scan"
    /\ \/ pos[t] > Len(EntryPoints) /\ Go(t, "reset") /\ UNCHANGED pos
       \/ /\ pos[t] <= Len(EntryPoints)
          /\ IF Skipped(EntryPoints[pos[t]])
             THEN pos' = [pos EXCEPT ![t] = @ + 1] /\ UNCHANGED at
             ELSE Go(t, "load") /\ UNCHANGED pos
    /\ UNCHANGED <<globals, failed, view, size, seen, history>>

\* get_plugins() of a thread that is loading.
NestedAnswer == IF loading THEN {} ELSE Range(dicts[plugins])

\* The module of a plugin is imported and builds a model: get_plugins() is
\* called again by the same thread, for which _plugins is not None.
Import(t) ==
    /\ at[t] = "load"
    /\ EntryPoints[pos[t]] \in Builders \ imported
    /\ imported' = imported \cup {EntryPoints[pos[t]]}
    /\ inImport' = inImport \cup NestedAnswer
    /\ UNCHANGED <<settings, plugins, loading, dicts, at, locals, overlap, crashed>>

\* _plugins[entry_point.value] = entry_point.load()
Load(t) ==
    /\ at[t] = "load"
    /\ EntryPoints[pos[t]] \notin Builders \ imported
    /\ LET e == EntryPoints[pos[t]] IN
       /\ dicts' = IF kind[e] = "ok" /\ e \notin Range(dicts[plugins])
                   THEN [dicts EXCEPT ![plugins] = Append(@, e)] ELSE dicts
       /\ IF kind[e] = "crash"
          THEN /\ Go(t, "reset")
               /\ failed' = [failed EXCEPT ![t] = TRUE]
               /\ crashed' = TRUE
               /\ UNCHANGED pos
          ELSE /\ Go(t, "scan")
               /\ pos' = [pos EXCEPT ![t] = @ + 1]
               /\ UNCHANGED <<failed, crashed>>
    /\ UNCHANGED <<settings, plugins, loading, imported, view, size, seen,
                   overlap, inImport>>

\* Mutant: the flag is reset on the normal path only.
Unmark_NoFinally(t) == loading' = (loading /\ failed[t])

Unmark(t) == loading' = FALSE

\* The finally clause, then `return _plugins.values()` or the exception.
Reset(t) ==
    /\ at[t] = "reset"
    /\ Unmark(t)
    /\ pos' = [pos EXCEPT ![t] = 1] /\ failed' = [failed EXCEPT ![t] = FALSE]
    /\ IF failed[t]
       THEN Go(t, "raised") /\ UNCHANGED view
       ELSE Go(t, "choose") /\ view' = [view EXCEPT ![t] = plugins]
    /\ UNCHANGED <<settings, plugins, dicts, imported, size, seen, history>>

-----------------------------------------------------------------------------
(* create_schema_validator()                                               *)

\* `if plugins`: an empty answer makes a plain SchemaValidator.
Choose(t) ==
    /\ at[t] = "choose"
    /\ seen' = [seen EXCEPT ![t] = << >>]
    /\ IF view[t] = None \/ (view[t] # None /\ dicts[view[t]] = << >>)
       THEN Go(t, "built") /\ UNCHANGED size
       ELSE /\ Go(t, "iterate")
            /\ size' = [size EXCEPT ![t] = Len(dicts[view[t]])]
    /\ UNCHANGED <<globals, pos, failed, view, history>>

\* The loop of PluggableSchemaValidator.__init__().  A dictionary that has
\* grown since the loop began ends it with a RuntimeError.
Iterate(t) ==
    /\ at[t] = "iterate"
    /\ LET dict == dicts[view[t]] IN
       IF Len(dict) # size[t]
       THEN Go(t, "raised") /\ UNCHANGED seen
       ELSE IF Len(seen[t]) < Len(dict)
       THEN seen' = [seen EXCEPT ![t] = Append(@, dict[Len(@) + 1])] /\ UNCHANGED at
       ELSE Go(t, "built") /\ UNCHANGED seen
    /\ UNCHANGED <<globals, pos, failed, view, size, history>>

\* The caller takes the validator or the exception.
Leave(t) ==
    /\ at[t] \in {"built", "raised"}
    /\ Go(t, "out")
    /\ UNCHANGED <<globals, locals, history>>

InLoader(t) ==
    \/ ReadFlag(t) \/ ReadGlobal(t) \/ SetEmpty(t) \/ Mark(t) \/ Scan(t)
    \/ Import(t) \/ Load(t) \/ Reset(t) \/ Choose(t) \/ Iterate(t)

-----------------------------------------------------------------------------
(* Properties.                                                             *)

\* However many threads load at the same time, when the last one is through the
\* dictionary in use holds every plugin that can be loaded, and the flag is
\* down.  After an entry point that crashed the flag is down all the same.
LoaderSettles ==
    Loaders = {} =>
        /\ ~loading
        /\ plugins # None /\ ~crashed =>
              Range(dicts[plugins]) = {e \in Range(EntryPoints) : kind[e] = "ok"} \ disabled

\* A validator lacks a plugin, or cannot be built for want of a stable answer,
\* only when another thread loaded the plugins meanwhile or a load crashed.
PluginsMissedOnlyWhileLoading ==
    \A t \in Threads \ overlap : ~crashed =>
        /\ at[t] # "raised"
        /\ at[t] = "built" => Range(seen[t]) = Wanted

=============================================================================
