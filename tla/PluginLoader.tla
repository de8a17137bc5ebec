---------------------------- MODULE PluginLoader ----------------------------
(***************************************************************************)
(* PluginLoader (Web/src/Services/Plugins/PluginLoader.cs) and its place   *)
(* in Program.cs: before the first request every .dll of the drop-in       *)
(* folder is tried in the order of its path, the plugins in it are created *)
(* and their Load is awaited; the router gets the assemblies of those that *)
(* loaded.                                                                 *)
(*                                                                         *)
(* A plugin is any code: while its Load runs, and on threads of its own    *)
(* ever after, it registers what it likes.  An assembly it needs is looked *)
(* for in the folder and loaded on the spot; the loader then skips the     *)
(* file of that assembly like any other the process already has.           *)
(*                                                                         *)
(* Abstracted: the log; types of an assembly that cannot be loaded, which  *)
(* the loader leaves out.                                                  *)
(***************************************************************************)
EXTENDS PluginRegistry, Sequences

CONSTANTS HostAssemblies, \* assemblies of the app itself
          FrameworkNames, \* assemblies whose names start with Microsoft. or System.
          Folders         \* the drop-in folders that are looked at

Files == [name : Assemblies, kind : {"assembly", "native", "damaged", "locked"},
          types : SUBSET Plugins, needs : SUBSET Assemblies]

\* Copies of an assembly are alike, and a type is in one assembly.
ASSUME FoldersAssumption ==
    /\ HostAssemblies \cup FrameworkNames \subseteq Assemblies
    /\ \A f \in Folders :
          /\ f \in Seq(Files)
          /\ \A i, j \in DOMAIN f :
                f[i].kind = "assembly" /\ f[j].kind = "assembly" =>
                   /\ f[i].name = f[j].name => f[i].types = f[j].types
                   /\ f[i].types \cap f[j].types # {} => f[i].name = f[j].name

VARIABLES
    folder,   \* the files, in the order of their paths
    at,       \* the file LoadFileAsync is at
    phase,    \* of the app: "loading", "serving" or "crashed"
    process,  \* assemblies in AssemblyLoadContext.Default
    todo,     \* plugins of the file still to load; none before it is opened
    running,  \* the plugin whose Load is awaited
    begun,    \* plugins whose code has run
    routed,   \* assemblies AddAdditionalAssemblies has given endpoints
    brought   \* history: assemblies loaded because another needs them

loader == <<folder, at, phase, process, todo, running, begun, routed, brought>>

LoaderInit ==
    /\ RegistryInit
    /\ folder \in Folders
    /\ at = 1
    /\ phase = "loading"
    /\ process = HostAssemblies
    /\ todo = {}
    /\ running = NoOne
    /\ begun = {}
    /\ routed = {}
    /\ brought = {}

Reading == phase = "loading" /\ at <= Len(folder) /\ todo = {}

\* Mutant: the next file is next, whatever types are left.
GoOnToFile(types) ==
    /\ todo' = types
    /\ at' = at + 1

\* The loader goes on with the types left, or with the next file.
GoOn(types) ==
    /\ todo' = types
    /\ at' = IF types = {} THEN at + 1 ELSE at

\* What is in the process wins, and a name of the framework is never read.
IsHostAssembly(name) == name \in process \cup FrameworkNames

\* A native library, an assembly of the host, or one that does not load.
SkipFile ==
    /\ Reading
    /\ \/ folder[at].kind \in {"native", "damaged"}
       \/ folder[at].kind # "locked" /\ IsHostAssembly(folder[at].name)
    /\ GoOn({})
    /\ UNCHANGED <<registry, folder, phase, process, running, begun, routed, brought>>

\* GetAssemblyName throws what is not caught.
CrashOnFile ==
    /\ Reading
    /\ folder[at].kind = "locked"
    /\ phase' = "crashed"
    /\ UNCHANGED <<registry, folder, at, process, todo, running, begun, routed, brought>>

LoadAssembly ==
    /\ Reading
    /\ folder[at].kind = "assembly"
    /\ ~IsHostAssembly(folder[at].name)
    /\ process' = process \cup {folder[at].name}
    /\ GoOn(folder[at].types)
    /\ UNCHANGED <<registry, folder, phase, running, begun, routed, brought>>

CreateInstance ==
    /\ phase = "loading"
    /\ running = NoOne
    /\ \E p \in todo : running' = p /\ begun' = begun \cup {p}
    /\ UNCHANGED <<registry, folder, at, phase, process, todo, routed, brought>>

LoadReturns ==
    /\ running # NoOne
    /\ AddAssembly(folder[at].name)
    /\ Add(running, "loaded")
    /\ running' = NoOne
    /\ GoOn(todo \ {running})
    /\ UNCHANGED <<pages, navItems, links, folder, phase, process, begun, routed, brought>>

\* Mutant: the exception is not caught.
CrashOnPlugin ==
    /\ Add(running, "failed")
    /\ phase' = "crashed"
    /\ UNCHANGED <<folder, at, process, todo, running, begun, routed, brought>>

\* Mutant: the file is given up.
GiveUpFile ==
    /\ Add(running, "failed")
    /\ running' = NoOne
    /\ GoOn({})
    /\ UNCHANGED <<folder, phase, process, begun, routed, brought>>

\* The catch of one plugin; what it has registered stays.
RecordFailure ==
    /\ Add(running, "failed")
    /\ running' = NoOne
    /\ GoOn(todo \ {running})
    /\ UNCHANGED <<folder, phase, process, begun, routed, brought>>

LoadThrows ==
    /\ running # NoOne
    /\ RecordFailure
    /\ UNCHANGED <<pages, navItems, links, routeAssemblies>>

\* A Load that does not catch the refusal of a slug.
SlugRefused ==
    /\ running # NoOne
    /\ \E s \in Slugs : PageRefused(running, s)
    /\ RecordFailure

\* What plugins do, in their Load or on a thread of their own.
RegisterPage == \E p \in begun, s \in Slugs : AddPage(p, s) /\ UNCHANGED loader
RegisterLink == \E p \in begun \ links : AddLink(p) /\ UNCHANGED loader

\* ProbeFolders: the running plugin needs an assembly that is in the folder.
ProbeFolders ==
    /\ running # NoOne
    /\ \E i \in DOMAIN folder :
          /\ folder[i].kind = "assembly"
          /\ folder[i].name \in folder[at].needs \ process
          /\ process' = process \cup {folder[i].name}
          /\ brought' = brought \cup {folder[i].name}
    /\ UNCHANGED <<registry, folder, at, phase, todo, running, begun, routed>>

\* The loader is done: endpoints are made, and the app runs.
Serve ==
    /\ phase = "loading" /\ at > Len(folder)
    /\ phase' = "serving"
    /\ routed' = routeAssemblies
    /\ UNCHANGED <<registry, folder, at, process, todo, running, begun, brought>>

\* What LoadAsync does, and the plugins' Load it waits for.
LoadAsync ==
    \/ SkipFile \/ CrashOnFile \/ LoadAssembly \/ CreateInstance
    \/ LoadReturns \/ LoadThrows \/ SlugRefused \/ Serve

LoaderNext == LoadAsync \/ RegisterPage \/ RegisterLink \/ ProbeFolders

(***************************************************************************)
(* Properties.                                                             *)
(***************************************************************************)
LoaderTypeOK ==
    /\ RegistryTypeOK
    /\ folder \in Folders
    /\ at \in 1..(Len(folder) + 1)
    /\ phase \in {"loading", "serving", "crashed"}
    /\ process \subseteq Assemblies
    /\ todo # {} => phase = "loading" /\ at \in DOMAIN folder /\ todo \subseteq folder[at].types
    /\ running # NoOne => running \in todo
    /\ begun \subseteq Plugins
    /\ routed \subseteq Assemblies /\ brought \subseteq Assemblies

\* Every sidebar entry of a described page leads to the page of the plugin that
\* made it, also when two plugins wanted the slug, in any order.
SidebarLeadsToOwner == \A item \in navItems : pages[item[1]] = item[2]

Holds(i, p) == folder[i].kind = "assembly" /\ p \in folder[i].types
Offered(p) == \E i \in DOMAIN folder : Holds(i, p)
NameOf(p) == folder[CHOOSE i \in DOMAIN folder : Holds(i, p)].name

\* When the app serves, every plugin in the folder is on record exactly once,
\* loaded or failed, whatever the plugins before it have done; but for those in
\* an assembly that another plugin has brought in, that the app has itself, or
\* that is named like the framework's.
EveryPluginIsOnRecord ==
    phase = "serving" =>
        \A p \in Plugins :
           Offered(p) /\ NameOf(p) \notin brought \cup HostAssemblies \cup FrameworkNames =>
              plugins[<<p, "loaded">>] + plugins[<<p, "failed">>] = 1

\* One broken plugin does not keep the app from starting: once each Load that
\* is awaited has returned or thrown it serves, unless a file in the folder
\* cannot be read.
AppStarts ==
    (\A i \in DOMAIN folder : folder[i].kind # "locked") => <>(phase = "serving")
=============================================================================
