SPECIFICATION FairSpec
CONSTANTS
    Threads = {t1, t2}
    None = None
    EntryPoints <- MCEntryPoints
    Loads <- MCLoads
    Builders = {"logger", "tracer"}
INVARIANT LoaderSettles
INVARIANT PluginsMissedOnlyWhileLoading
INVARIANT CallsFindValidators
PROPERTY CalledWrapperHeals
