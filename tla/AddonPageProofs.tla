-------------------------- MODULE AddonPageProofs --------------------------
(***************************************************************************)
(* Theorems about the plugins and their pages, for every drop-in folder    *)
(* and any number of plugins, slugs and browsers.                          *)
(***************************************************************************)
EXTENDS AddonPage, SequenceTheorems, TLAPS

(***************************************************************************)
(* Type correctness.                                                       *)
(***************************************************************************)
PageType ==
    /\ slug \in [Circuits -> Slugs \cup {NoOne}]
    /\ addonPage \in [Circuits -> Plugins \cup {NoOne}]
    /\ awaited \in [Circuits -> Seq(Slugs)]
    /\ sections \in [Circuits -> Slugs \cup {NoOne}]
    /\ buildError \in [Circuits -> Slugs \cup {NoOne}]
    /\ visits \in 0..MaxVisits
    /\ overtaken \subseteq Circuits

\* The files of a folder.
LEMMA FolderFacts ==
    ASSUME LoaderTypeOK
    PROVE  /\ folder \in Seq(Files) /\ Len(folder) \in Nat /\ DOMAIN folder = 1..Len(folder)
           /\ \A i \in DOMAIN folder :
                 /\ folder[i] \in Files
                 /\ folder[i].name \in Assemblies
                 /\ folder[i].types \subseteq Plugins
<1>1. folder \in Seq(Files)
  BY FoldersAssumption DEF LoaderTypeOK
<1>2. Len(folder) \in Nat /\ DOMAIN folder = 1..Len(folder)
  BY <1>1
<1>3. ASSUME NEW i \in DOMAIN folder PROVE folder[i] \in Files
  BY <1>1, <1>2, <1>3
<1>4. ASSUME NEW f \in Files PROVE f.name \in Assemblies /\ f.types \subseteq Plugins
  BY <1>4 DEF Files
<1>. QED  BY <1>1, <1>2, <1>3, <1>4

\* One more record of a plugin.
LEMMA AddType ==
    ASSUME RegistryTypeOK, NEW p \in Plugins, NEW outcome \in Outcomes, Add(p, outcome)
    PROVE  plugins' \in [Plugins \X Outcomes -> Nat]
<1>1. <<p, outcome>> \in Plugins \X Outcomes
  OBVIOUS
<1>. QED  BY <1>1 DEF Add, RegistryTypeOK

\* What is running is a plugin of the file the loader is at.
LEMMA RunningFacts ==
    ASSUME LoaderTypeOK, running # NoOne
    PROVE  /\ running \in Plugins /\ running \in todo /\ phase = "loading"
           /\ at \in DOMAIN folder /\ todo \subseteq folder[at].types
BY FolderFacts DEF LoaderTypeOK

\* The loader goes on within the folder.
LEMMA GoOnType ==
    ASSUME LoaderTypeOK, at \in DOMAIN folder, phase = "loading", folder' = folder, phase' = phase,
           running' = NoOne, NEW types \in SUBSET folder[at].types, GoOn(types)
    PROVE  /\ at' \in 1..(Len(folder') + 1)
           /\ todo' # {} => phase' = "loading" /\ at' \in DOMAIN folder' /\ todo' \subseteq folder'[at'].types
           /\ running' # NoOne => running' \in todo'
BY FolderFacts DEF GoOn, LoaderTypeOK

\* The first states are well typed.
LEMMA TypeInit == Init => TypeOK
<1>. SUFFICES ASSUME Init PROVE TypeOK
  OBVIOUS
<1>1. RegistryTypeOK
  BY DEF Init, LoaderInit, RegistryInit, RegistryTypeOK
<1>2. Len(folder) \in Nat
  BY FoldersAssumption DEF Init, LoaderInit
<1>3. LoaderTypeOK
  BY <1>1, <1>2, FoldersAssumption DEF Init, LoaderInit, LoaderTypeOK
<1>4. PageType
  BY VisitsAssumption DEF Init, PageType
<1>. QED  BY <1>3, <1>4 DEF TypeOK, PageType

\* The loader's steps.
LEMMA LoaderType == ASSUME LoaderTypeOK, LoaderNext PROVE LoaderTypeOK'
<1>. USE FolderFacts
<1>0. RegistryTypeOK
  BY DEF LoaderTypeOK
<1>1. CASE SkipFile \/ LoadAssembly
  <2>1. at \in DOMAIN folder /\ phase = "loading" /\ running = NoOne
    BY <1>1 DEF SkipFile, LoadAssembly, Reading, LoaderTypeOK
  <2>2. PICK types \in SUBSET folder[at].types : GoOn(types)
    BY <1>1 DEF SkipFile, LoadAssembly
  <2>3. /\ UNCHANGED <<registry, folder, phase, running, begun, routed, brought>>
        /\ process' \subseteq Assemblies
    BY <1>1, <2>1 DEF SkipFile, LoadAssembly, LoaderTypeOK
  <2>4. RegistryTypeOK'
    BY <1>0, <2>3 DEF registry, RegistryTypeOK
  <2>. QED  BY <2>1, <2>2, <2>3, <2>4, GoOnType DEF LoaderTypeOK
<1>2. CASE CrashOnFile
  BY <1>2 DEF CrashOnFile, Reading, LoaderTypeOK, RegistryTypeOK, registry
<1>3. CASE CreateInstance
  <2>1. PICK p \in todo : running' = p /\ begun' = begun \cup {p}
    BY <1>3 DEF CreateInstance
  <2>2. p \in Plugins
    BY DEF LoaderTypeOK
  <2>. QED  BY <1>3, <2>1, <2>2 DEF CreateInstance, LoaderTypeOK, RegistryTypeOK, registry
<1>4. CASE LoadReturns \/ LoadThrows \/ SlugRefused
  <2>1. /\ running \in Plugins /\ running \in todo /\ phase = "loading"
        /\ at \in DOMAIN folder /\ todo \subseteq folder[at].types
    BY <1>4, RunningFacts DEF LoadReturns, LoadThrows, SlugRefused
  <2>2. plugins' \in [Plugins \X Outcomes -> Nat]
    BY <1>0, <1>4, <2>1, AddType DEF LoadReturns, LoadThrows, SlugRefused, RecordFailure, Outcomes
  <2>3. UNCHANGED <<pages, navItems, links>> /\ routeAssemblies' \subseteq Assemblies
    BY <1>0, <1>4, <2>1 DEF LoadReturns, LoadThrows, SlugRefused, PageRefused, AddAssembly, RegistryTypeOK
  <2>4. RegistryTypeOK'
    BY <1>0, <2>2, <2>3 DEF RegistryTypeOK
  <2>5. /\ GoOn(todo \ {running}) /\ running' = NoOne
        /\ UNCHANGED <<folder, phase, process, begun, routed, brought>>
    BY <1>4 DEF LoadReturns, LoadThrows, SlugRefused, RecordFailure
  <2>6. todo \ {running} \in SUBSET folder[at].types
    BY <2>1
  <2>. QED  BY <2>1, <2>4, <2>5, <2>6, GoOnType DEF LoaderTypeOK
<1>5. CASE Serve
  BY <1>5 DEF Serve, LoaderTypeOK, RegistryTypeOK, registry
<1>6. CASE RegisterPage
  BY <1>6 DEF RegisterPage, AddPage, loader, LoaderTypeOK, RegistryTypeOK
<1>7. CASE RegisterLink
  BY <1>7 DEF RegisterLink, AddLink, loader, LoaderTypeOK, RegistryTypeOK
<1>8. CASE ProbeFolders
  BY <1>8 DEF ProbeFolders, LoaderTypeOK, RegistryTypeOK, registry
<1>. QED  BY <1>1, <1>2, <1>3, <1>4, <1>5, <1>6, <1>7, <1>8 DEF LoaderNext, LoadAsync

\* The calls still under way are calls for slugs.
LEMMA AwaitedType ==
    ASSUME NEW s \in Seq(Slugs), NEW i \in DOMAIN s
    PROVE  SubSeq(s, 1, i - 1) \o SubSeq(s, i + 1, Len(s)) \in Seq(Slugs)
OBVIOUS

\* The page's steps.
LEMMA PageStepType == ASSUME TypeOK, NEW c \in Circuits, Step(c) PROVE TypeOK'
<1>1. LoaderTypeOK /\ PageType
  BY DEF TypeOK, PageType
<1>2. LoaderTypeOK'
  <2>1. UNCHANGED <<registry, loader>>
    BY DEF Step, OnParametersSetAsync, SectionsArrive, BuildThrows, Ended
  <2>. QED  BY <1>1, <2>1 DEF registry, loader, LoaderTypeOK, RegistryTypeOK
<1>3. CASE \E s \in Slugs : OnParametersSetAsync(c, s)
  <2>1. PICK s \in Slugs : OnParametersSetAsync(c, s)
    BY <1>3
  <2>2. awaited' \in [Circuits -> Seq(Slugs)]
    BY <1>1, <2>1 DEF OnParametersSetAsync, PageType
  <2>3. pages[s] \in Plugins \cup {NoOne}
    BY <1>1 DEF LoaderTypeOK, RegistryTypeOK
  <2>4. PageType'
    BY <1>1, <2>1, <2>2, <2>3, VisitsAssumption DEF OnParametersSetAsync, PageType
  <2>. QED  BY <1>2, <2>4 DEF TypeOK, PageType
<1>4. CASE SectionsArrive(c) \/ BuildThrows(c)
  <2>1. PICK i \in DOMAIN awaited[c] :
           /\ Ended(c, i)
           /\ \/ sections' = [sections EXCEPT ![c] = awaited[c][i]] /\ UNCHANGED buildError
              \/ buildError' = [buildError EXCEPT ![c] = awaited[c][i]] /\ UNCHANGED sections
    BY <1>4 DEF SectionsArrive, BuildThrows
  <2>2. awaited[c] \in Seq(Slugs) /\ awaited[c][i] \in Slugs
    BY <1>1 DEF PageType
  <2>3. awaited' \in [Circuits -> Seq(Slugs)]
    BY <1>1, <2>1, <2>2, AwaitedType DEF Ended, PageType
  <2>4. PageType'
    BY <1>1, <2>1, <2>2, <2>3 DEF Ended, PageType
  <2>. QED  BY <1>2, <2>4 DEF TypeOK, PageType
<1>. QED  BY <1>3, <1>4 DEF Step

\* Every step keeps the types.
LEMMA TypeStep == TypeOK /\ [Next]_vars => TypeOK'
<1>. SUFFICES ASSUME TypeOK, [Next]_vars PROVE TypeOK'
  OBVIOUS
<1>1. CASE LoaderNext /\ UNCHANGED page
  BY <1>1, LoaderType DEF TypeOK, page
<1>2. ASSUME NEW c \in Circuits, Step(c) PROVE TypeOK'
  BY <1>2, PageStepType
<1>3. CASE UNCHANGED vars
  BY <1>3 DEF vars, registry, loader, page, TypeOK, LoaderTypeOK, RegistryTypeOK
<1>. QED  BY <1>1, <1>2, <1>3 DEF Next

\* Every variable keeps its type.
THEOREM TypeCorrect == Spec => []TypeOK
BY TypeInit, TypeStep, PTL DEF Spec

(***************************************************************************)
(* The registry.                                                           *)
(***************************************************************************)
\* A sidebar entry of a described page leads to the page of its plugin.
THEOREM SidebarIsRight == Spec => []SidebarLeadsToOwner
<1>1. Init => SidebarLeadsToOwner
  BY DEF Init, LoaderInit, RegistryInit, SidebarLeadsToOwner
<1>2. TypeOK /\ SidebarLeadsToOwner /\ [Next]_vars => SidebarLeadsToOwner'
  <2>. SUFFICES ASSUME TypeOK, SidebarLeadsToOwner, [Next]_vars PROVE SidebarLeadsToOwner'
    OBVIOUS
  <2>0. pages \in [Slugs -> Plugins \cup {NoOne}] /\ navItems \subseteq Slugs \X Plugins
    BY DEF TypeOK, LoaderTypeOK, RegistryTypeOK
  <2>1. CASE RegisterPage
    <3>1. PICK p \in begun, s \in Slugs : AddPage(p, s)
      BY <2>1 DEF RegisterPage
    <3>2. ASSUME NEW item \in navItems' PROVE pages'[item[1]] = item[2]
      <4>1. CASE item = <<s, p>>
        BY <2>0, <3>1, <4>1 DEF AddPage
      <4>2. CASE item \in navItems
        <5>1. item[1] \in Slugs /\ pages[item[1]] = item[2] /\ item[2] \in Plugins
          BY <2>0, <4>2 DEF SidebarLeadsToOwner
        <5>2. item[1] # s
          BY <3>1, <5>1, NoOneAssumption DEF AddPage
        <5>. QED  BY <2>0, <3>1, <5>1, <5>2 DEF AddPage
      <4>. QED  BY <3>1, <4>1, <4>2 DEF AddPage
    <3>. QED  BY <3>2 DEF SidebarLeadsToOwner
  <2>2. CASE UNCHANGED <<pages, navItems>>
    BY <2>2 DEF SidebarLeadsToOwner
  <2>. QED  BY <2>1, <2>2 DEF Next, LoaderNext, LoadAsync, Step, vars, registry, SkipFile, CrashOnFile, LoadAssembly,
              CreateInstance, LoadReturns, LoadThrows, SlugRefused, PageRefused, Serve, RegisterLink, AddLink,
              ProbeFolders, OnParametersSetAsync, SectionsArrive, BuildThrows, Ended
<1>. QED  BY <1>1, <1>2, TypeCorrect, PTL DEF Spec

(***************************************************************************)
(* Records of plugins.  What has been loaded by the loader itself is on    *)
(* record but for the plugins still to do, and what lies before the file   *)
(* the loader is at has been loaded by somebody.                           *)
(***************************************************************************)
Elsewhere == HostAssemblies \cup brought
Own == process \ Elsewhere
Count(p) == plugins[<<p, "loaded">>] + plugins[<<p, "failed">>]
Due(name, p) == IF name \in Own /\ p \notin todo THEN 1 ELSE 0

BroughtIsLoaded == Elsewhere \subseteq process
PassedIsLoaded ==
    \A i \in DOMAIN folder : folder[i].kind = "assembly" /\ i < at => IsHostAssembly(folder[i].name)
TodoIsOwn == todo # {} => folder[at].kind = "assembly" /\ folder[at].name \in Own
RecordsAreDue ==
    \A i \in DOMAIN folder : \A p \in Plugins : Holds(i, p) => Count(p) = Due(folder[i].name, p)
ServedIsRead == phase = "serving" => at > Len(folder)

RecordInv == BroughtIsLoaded /\ PassedIsLoaded /\ TodoIsOwn /\ RecordsAreDue /\ ServedIsRead

\* Copies of an assembly hold the same plugins, and no other holds them.
LEMMA CopyFacts ==
    ASSUME LoaderTypeOK, NEW i \in DOMAIN folder, NEW j \in DOMAIN folder,
           folder[i].kind = "assembly", folder[j].kind = "assembly"
    PROVE  /\ folder[i].name = folder[j].name => folder[i].types = folder[j].types
           /\ \A p \in folder[i].types : p \in folder[j].types => folder[i].name = folder[j].name
BY FoldersAssumption DEF LoaderTypeOK

\* Before anything is loaded nothing is on record.
LEMMA RecordInit == Init => RecordInv
<1>. SUFFICES ASSUME Init PROVE RecordInv
  OBVIOUS
<1>1. folder \in Seq(Files) /\ DOMAIN folder = 1..Len(folder)
  BY FoldersAssumption DEF Init, LoaderInit
<1>2. BroughtIsLoaded /\ PassedIsLoaded /\ TodoIsOwn /\ ServedIsRead
  BY <1>1 DEF Init, LoaderInit, BroughtIsLoaded, PassedIsLoaded, IsHostAssembly, TodoIsOwn, ServedIsRead, Elsewhere
<1>3. ASSUME NEW p \in Plugins PROVE Count(p) = 0
  <2>1. <<p, "loaded">> \in Plugins \X Outcomes /\ <<p, "failed">> \in Plugins \X Outcomes
    BY DEF Outcomes
  <2>. QED  BY <2>1 DEF Init, LoaderInit, RegistryInit, Count
<1>4. Own = {}
  BY DEF Init, LoaderInit, Own, Elsewhere
<1>. QED  BY <1>2, <1>3, <1>4 DEF RecordInv, RecordsAreDue, Due

\* Nothing the records are about has changed.
LEMMA RecordSame ==
    ASSUME RecordInv, UNCHANGED <<folder, at, process, todo, plugins, brought>>,
           phase' = "serving" => at > Len(folder)
    PROVE  RecordInv'
BY DEF RecordInv, BroughtIsLoaded, PassedIsLoaded, IsHostAssembly, TodoIsOwn, RecordsAreDue, ServedIsRead, Own, Elsewhere,
       Holds, Count, Due

\* A file is passed over, or loaded with no plugin on record yet.
LEMMA RecordRead == ASSUME TypeOK, RecordInv, SkipFile \/ LoadAssembly PROVE RecordInv'
<1>0. /\ LoaderTypeOK /\ at \in Nat /\ todo = {} /\ at \in DOMAIN folder
      /\ UNCHANGED <<folder, phase, plugins, brought>> /\ phase # "serving"
  BY FolderFacts DEF TypeOK, LoaderTypeOK, SkipFile, LoadAssembly, Reading, registry
<1>1. CASE SkipFile
  <2>1. todo' = {} /\ at' = at + 1 /\ process' = process
    BY <1>1 DEF SkipFile, GoOn
  <2>2. folder[at].kind = "assembly" => IsHostAssembly(folder[at].name)
    BY <1>1 DEF SkipFile
  <2>3. PassedIsLoaded'
    BY <1>0, <2>1, <2>2, FolderFacts DEF RecordInv, PassedIsLoaded, IsHostAssembly
  <2>4. Own' = Own /\ \A name, p : Due(name, p)' = Due(name, p)
    BY <1>0, <2>1 DEF Own, Elsewhere, Due
  <2>5. RecordsAreDue'
    BY <1>0, <2>4 DEF RecordInv, RecordsAreDue, Holds, Count
  <2>. QED  BY <1>0, <2>1, <2>3, <2>5 DEF RecordInv, BroughtIsLoaded, TodoIsOwn, ServedIsRead, Elsewhere
<1>2. CASE LoadAssembly
  <2>. DEFINE name == folder[at].name
              types == folder[at].types
  <2>1. /\ folder[at].kind = "assembly" /\ name \notin process /\ process' = process \cup {name}
        /\ todo' = types /\ at' = IF types = {} THEN at + 1 ELSE at
    BY <1>2 DEF LoadAssembly, GoOn, IsHostAssembly
  <2>2. Own' = Own \cup {name} /\ name \notin Own
    BY <1>0, <2>1 DEF RecordInv, BroughtIsLoaded, Own, Elsewhere
  <2>3. BroughtIsLoaded'
    BY <1>0, <2>1 DEF RecordInv, BroughtIsLoaded, Elsewhere
  <2>4. PassedIsLoaded'
    BY <1>0, <2>1, FolderFacts DEF RecordInv, PassedIsLoaded, IsHostAssembly
  <2>5. TodoIsOwn'
    BY <1>0, <2>1, <2>2 DEF TodoIsOwn
  <2>6. ASSUME NEW i \in DOMAIN folder, NEW p \in Plugins, Holds(i, p)
        PROVE  Count(p)' = Due(folder[i].name, p)'
    <3>1. Count(p) = Due(folder[i].name, p) /\ Count(p)' = Count(p)
      BY <1>0, <2>6 DEF RecordInv, RecordsAreDue, Count
    <3>2. CASE folder[i].name = name
      <4>1. p \in todo'
        BY <1>0, <2>1, <2>6, <3>2, CopyFacts DEF Holds
      <4>. QED  BY <1>0, <2>2, <3>1, <3>2, <4>1 DEF Due
    <3>3. CASE folder[i].name # name
      <4>1. p \notin todo'
        BY <1>0, <2>1, <2>6, <3>3, CopyFacts DEF Holds
      <4>. QED  BY <1>0, <2>2, <3>1, <3>3, <4>1 DEF Due
    <3>. QED  BY <3>2, <3>3
  <2>7. RecordsAreDue'
    BY <1>0, <2>6 DEF RecordsAreDue, Holds
  <2>. QED  BY <1>0, <2>3, <2>4, <2>5, <2>7 DEF RecordInv, ServedIsRead
<1>. QED  BY <1>1, <1>2

\* A plugin has loaded or failed: it is on record, and no longer to do.
LEMMA RecordOne ==
    ASSUME TypeOK, RecordInv, running # NoOne, NEW outcome \in Outcomes, Add(running, outcome),
           GoOn(todo \ {running}), UNCHANGED <<folder, phase, process, brought>>
    PROVE  RecordInv'
<1>0. /\ LoaderTypeOK /\ RegistryTypeOK /\ at \in Nat
      /\ running \in Plugins /\ running \in todo /\ phase = "loading"
      /\ at \in DOMAIN folder /\ todo \subseteq folder[at].types
  BY RunningFacts, FolderFacts DEF TypeOK, LoaderTypeOK
<1>1. todo' = todo \ {running} /\ at' \in {at, at + 1} /\ (todo' # {} => at' = at)
  BY DEF GoOn
<1>2. folder[at].kind = "assembly" /\ folder[at].name \in Own /\ Own \subseteq process
  BY <1>0 DEF RecordInv, TodoIsOwn, Own
<1>3. Own' = Own
  BY DEF Own, Elsewhere
<1>4. PassedIsLoaded'
  BY <1>0, <1>1, <1>2, FolderFacts DEF RecordInv, PassedIsLoaded, IsHostAssembly
<1>5. ASSUME NEW p \in Plugins PROVE Count(p)' = IF p = running THEN Count(p) + 1 ELSE Count(p)
  <2>1. /\ plugins \in [Plugins \X Outcomes -> Nat] /\ outcome \in {"loaded", "failed"}
        /\ plugins' = [plugins EXCEPT ![<<running, outcome>>] = @ + 1]
    BY <1>0 DEF RegistryTypeOK, Add, Outcomes
  <2>2. \A q \in Plugins : \A o \in {"loaded", "failed"} :
           /\ <<q, o>> \in Plugins \X Outcomes
           /\ plugins[<<q, o>>] \in Nat
    BY <2>1 DEF Outcomes
  <2>3. \A o \in {"loaded", "failed"} :
           plugins'[<<p, o>>] = IF p = running /\ o = outcome THEN plugins[<<p, o>>] + 1 ELSE plugins[<<p, o>>]
    BY <1>0, <2>1, <2>2
  <2>. QED  BY <2>1, <2>2, <2>3 DEF Count
<1>6. ASSUME NEW i \in DOMAIN folder, NEW p \in Plugins, Holds(i, p)
      PROVE  Count(p)' = Due(folder[i].name, p)'
  <2>1. Count(p) = Due(folder[i].name, p)
    BY <1>6 DEF RecordInv, RecordsAreDue
  <2>2. CASE p = running
    <3>1. folder[i].name = folder[at].name
      BY <1>0, <1>2, <1>6, <2>2, CopyFacts DEF Holds
    <3>. QED  BY <1>0, <1>1, <1>2, <1>3, <1>5, <2>1, <2>2, <3>1 DEF Due
  <2>3. CASE p # running
    BY <1>1, <1>3, <1>5, <2>1, <2>3 DEF Due
  <2>. QED  BY <2>2, <2>3
<1>7. RecordsAreDue'
  BY <1>6 DEF RecordsAreDue, Holds
<1>8. TodoIsOwn'
  BY <1>1, <1>2, <1>3 DEF TodoIsOwn
<1>. QED  BY <1>0, <1>4, <1>7, <1>8 DEF RecordInv, BroughtIsLoaded, Elsewhere, ServedIsRead

\* An assembly another one needs: it becomes no assembly of the loader's own.
LEMMA RecordProbe == ASSUME TypeOK, RecordInv, ProbeFolders PROVE RecordInv'
<1>1. PICK i \in DOMAIN folder :
         /\ folder[i].name \notin process
         /\ process' = process \cup {folder[i].name} /\ brought' = brought \cup {folder[i].name}
         /\ UNCHANGED <<folder, at, phase, todo, plugins>>
  BY DEF ProbeFolders, registry
<1>2. Own' = Own
  BY <1>1 DEF Own, Elsewhere
<1>. QED  BY <1>1, <1>2 DEF RecordInv, BroughtIsLoaded, PassedIsLoaded, IsHostAssembly, TodoIsOwn, RecordsAreDue, ServedIsRead,
            Elsewhere, Holds, Count, Due

\* Every step keeps the records.
LEMMA RecordStep == TypeOK /\ RecordInv /\ [Next]_vars => RecordInv'
<1>. SUFFICES ASSUME TypeOK, RecordInv, [Next]_vars PROVE RecordInv'
  OBVIOUS
<1>1. CASE SkipFile \/ LoadAssembly
  BY <1>1, RecordRead
<1>2. CASE LoadReturns
  BY <1>2, RecordOne DEF LoadReturns, Outcomes
<1>3. CASE LoadThrows \/ SlugRefused
  BY <1>3, RecordOne DEF LoadThrows, SlugRefused, RecordFailure, Outcomes
<1>4. CASE ProbeFolders
  BY <1>4, RecordProbe
<1>5. CASE UNCHANGED <<folder, at, process, todo, plugins, brought>> /\ (phase' = "serving" => at > Len(folder))
  BY <1>5, RecordSame
<1>6. CASE CrashOnFile \/ CreateInstance \/ RegisterPage \/ RegisterLink \/ Serve
  BY <1>5, <1>6 DEF CrashOnFile, CreateInstance, RegisterPage, AddPage, RegisterLink, AddLink, Serve, registry, loader,
     RecordInv, ServedIsRead
<1>7. CASE \E c \in Circuits : Step(c)
  BY <1>5, <1>7 DEF Step, OnParametersSetAsync, SectionsArrive, BuildThrows, Ended, registry, loader,
     RecordInv, ServedIsRead
<1>8. CASE UNCHANGED vars
  BY <1>5, <1>8 DEF vars, registry, loader, RecordInv, ServedIsRead
<1>. QED  BY <1>1, <1>2, <1>3, <1>4, <1>6, <1>7, <1>8 DEF Next, LoaderNext, LoadAsync

\* When the app serves, every plugin in the folder is on record exactly once,
\* but for those whose assembly is not the loader's own.
THEOREM PluginsAreOnRecord == Spec => []EveryPluginIsOnRecord
<1>1. TypeOK /\ RecordInv => EveryPluginIsOnRecord
  <2>. SUFFICES ASSUME TypeOK, RecordInv, phase = "serving", NEW p \in Plugins, Offered(p),
                       NameOf(p) \notin brought \cup HostAssemblies \cup FrameworkNames
                PROVE  plugins[<<p, "loaded">>] + plugins[<<p, "failed">>] = 1
    BY DEF EveryPluginIsOnRecord
  <2>1. PICK i \in DOMAIN folder : Holds(i, p) /\ NameOf(p) = folder[i].name
    BY DEF Offered, NameOf
  <2>2. LoaderTypeOK /\ at \in Nat /\ i < at /\ todo = {}
    BY FolderFacts DEF TypeOK, LoaderTypeOK, RecordInv, ServedIsRead
  <2>3. folder[i].name \in Own
    BY <2>1, <2>2 DEF RecordInv, PassedIsLoaded, IsHostAssembly, Holds, Own, Elsewhere
  <2>. QED  BY <2>1, <2>2, <2>3 DEF RecordInv, RecordsAreDue, Count, Due
<1>. QED  BY <1>1, RecordInit, RecordStep, TypeCorrect, PTL DEF Spec

(***************************************************************************)
(* The page.                                                               *)
(***************************************************************************)
Last(q) == q[Len(q)]

\* The call for the slug a page stands at is the last one under way, or its
\* sections, or its error, are what the page shows.
LastCallInv ==
    \A c \in Circuits : addonPage[c] # NoOne /\ c \notin overtaken =>
       IF awaited[c] = <<>> THEN slug[c] \in {sections[c], buildError[c]}
                            ELSE Last(awaited[c]) = slug[c]

\* When the oldest call ends the last one stays the last.
LEMMA OldestEnds ==
    ASSUME NEW q \in Seq(Slugs), q # <<>>
    PROVE  LET rest == SubSeq(q, 1, 0) \o SubSeq(q, 2, Len(q))
           IN  IF rest = <<>> THEN Last(q) = q[1] ELSE Last(rest) = Last(q)
<1>. DEFINE rest == SubSeq(q, 2, Len(q))
<1>1. PICK n \in Nat : n = Len(q) /\ n # 0
  BY EmptySeq
<1>2. SubSeq(q, 1, 0) = <<>> /\ rest \in Seq(Slugs) /\ \A k \in 2..n : q[k] \in Slugs
  BY <1>1
<1>3. <<>> \o rest = rest
  BY <1>2
<1>4. Len(rest) = n - 1 /\ \A k \in 1..(n - 1) : rest[k] = q[k + 1]
  <2>1. /\ Len(rest) = IF 2 <= n THEN n - 2 + 1 ELSE 0
        /\ \A k \in 1..(n - 2 + 1) : rest[k] = q[2 + k - 1]
    BY <1>1, <1>2, SubSeqProperties
  <2>2. n - 2 + 1 = n - 1 /\ \A k \in 1..(n - 1) : 2 + k - 1 = k + 1
    OBVIOUS
  <2>3. n - 1 = IF 2 <= n THEN n - 2 + 1 ELSE 0
    BY <1>1
  <2>. HIDE DEF rest
  <2>. QED  BY <2>1, <2>2, <2>3
<1>5. CASE rest = <<>>
  <2>1. n = 1
    <3>. HIDE DEF rest
    <3>1. Len(rest) = 0
      BY <1>5
    <3>2. n - 1 = 0
      BY <1>4, <3>1
    <3>3. n \in Nat
      OBVIOUS
    <3>. QED  BY <3>2, <3>3
  <2>. QED  BY <1>1, <1>2, <1>3, <1>5, <2>1 DEF Last
<1>6. CASE rest # <<>>
  <2>1. n - 1 \in 1..(n - 1) /\ (n - 1) + 1 = n
    BY <1>1, <1>2, <1>4, <1>6, EmptySeq
  <2>. QED  BY <1>1, <1>2, <1>3, <1>4, <1>6, <2>1 DEF Last
<1>. QED  BY <1>5, <1>6

\* Every step of a page keeps its last call.
LEMMA LastCallStep == ASSUME TypeOK, LastCallInv, NEW d \in Circuits, Step(d) PROVE LastCallInv'
<1>. SUFFICES ASSUME NEW c \in Circuits, addonPage'[c] # NoOne, c \notin overtaken'
              PROVE  IF awaited'[c] = <<>> THEN slug'[c] \in {sections'[c], buildError'[c]}
                                           ELSE Last(awaited'[c]) = slug'[c]
  BY DEF LastCallInv, Last
<1>0. /\ awaited \in [Circuits -> Seq(Slugs)] /\ slug \in [Circuits -> Slugs \cup {NoOne}]
      /\ sections \in [Circuits -> Slugs \cup {NoOne}] /\ buildError \in [Circuits -> Slugs \cup {NoOne}]
      /\ addonPage \in [Circuits -> Plugins \cup {NoOne}]
  BY DEF TypeOK
<1>1. CASE \E s \in Slugs : OnParametersSetAsync(d, s)
  <2>1. PICK s \in Slugs : OnParametersSetAsync(d, s)
    BY <1>1
  <2>2. CASE c = d
    <3>1. awaited'[c] = Append(awaited[c], s) /\ slug'[c] = s
      BY <1>0, <2>1, <2>2 DEF OnParametersSetAsync
    <3>2. awaited[c] \in Seq(Slugs)
      BY <1>0
    <3>3. Append(awaited[c], s) # <<>> /\ Last(Append(awaited[c], s)) = s
      BY <3>2 DEF Last
    <3>. QED  BY <3>1, <3>3
  <2>3. CASE c # d
    BY <1>0, <2>1, <2>3 DEF OnParametersSetAsync, LastCallInv
  <2>. QED  BY <2>2, <2>3
<1>2. CASE SectionsArrive(d) \/ BuildThrows(d)
  <2>1. PICK i \in DOMAIN awaited[d] :
           /\ Ended(d, i)
           /\ \/ sections' = [sections EXCEPT ![d] = awaited[d][i]] /\ UNCHANGED buildError
              \/ buildError' = [buildError EXCEPT ![d] = awaited[d][i]] /\ UNCHANGED sections
    BY <1>2 DEF SectionsArrive, BuildThrows
  <2>2. UNCHANGED <<slug, addonPage>> /\ c \notin overtaken
    BY <2>1 DEF Ended
  <2>3. CASE c = d
    <3>1. i = 1
      BY <2>1, <2>3 DEF Ended
    <3>2. awaited'[c] = SubSeq(awaited[c], 1, 0) \o SubSeq(awaited[c], 2, Len(awaited[c]))
      BY <1>0, <2>1, <2>3, <3>1 DEF Ended
    <3>3. awaited[c] \in Seq(Slugs) /\ awaited[c] # <<>>
      BY <1>0, <2>1, <2>3
    <3>4. Last(awaited[c]) = slug[c]
      BY <2>2, <3>3 DEF LastCallInv
    <3>5. awaited[c][1] \in {sections'[c], buildError'[c]}
      BY <1>0, <2>1, <2>3, <3>1
    <3>. QED  BY <2>2, <3>2, <3>3, <3>4, <3>5, OldestEnds
  <2>4. CASE c # d
    BY <1>0, <2>1, <2>2, <2>4 DEF Ended, LastCallInv
  <2>. QED  BY <2>3, <2>4
<1>. QED  BY <1>1, <1>2 DEF Step

\* When nothing is under way a page shows its own sections or its own error,
\* unless an older call has ended after a newer one: in the order they were
\* made, calls for the slugs left behind never have the last word.
THEOREM PagesShowTheirOwn == Spec => []SectionsAreOfThePage
<1>1. Init => LastCallInv
  BY DEF Init, LastCallInv
<1>2. TypeOK /\ LastCallInv /\ [Next]_vars => LastCallInv'
  <2>. SUFFICES ASSUME TypeOK, LastCallInv, [Next]_vars PROVE LastCallInv'
    OBVIOUS
  <2>1. CASE UNCHANGED page
    BY <2>1 DEF page, LastCallInv, Last
  <2>2. ASSUME NEW d \in Circuits, Step(d) PROVE LastCallInv'
    BY <2>2, LastCallStep
  <2>. QED  BY <2>1, <2>2 DEF Next, vars
<1>3. LastCallInv => SectionsAreOfThePage
  BY DEF LastCallInv, SectionsAreOfThePage
<1>. QED  BY <1>1, <1>2, <1>3, TypeCorrect, PTL DEF Spec
=============================================================================
