CONSTANTS
    maps = maps shop = shop stats = stats
    app = app mapsDll = mapsDll shopDll = shopDll yamlDll = yamlDll systemDll = systemDll
    maps1 = maps1 shop1 = shop1
    Plugins <- MCPlugins
    Assemblies <- MCAssemblies
    Slugs <- MCSlugs
    HostAssemblies = {app}
    FrameworkNames = {systemDll}
    Folders <- MCFolders
    NoOne = NoOne
    Circuits = {c1}
    MaxVisits = 3
SPECIFICATION FairSpec
CHECK_DEADLOCK FALSE
INVARIANTS
    TypeOK SidebarLeadsToOwner EveryPluginIsOnRecord SectionsAreOfThePage
PROPERTIES
    AppStarts
