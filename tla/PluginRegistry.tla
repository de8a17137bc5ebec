--------------------------- MODULE PluginRegistry ---------------------------
(***************************************************************************)
(* PluginRegistry (Web/src/Services/Plugins/PluginRegistry.cs): what       *)
(* plugins have registered, for the router, the sidebar and the page       *)
(* /addon/{slug}.  Every method is one step, under one lock.               *)
(*                                                                         *)
(* Abstracted: texts, glyphs, the order of the sidebar, and what a page    *)
(* consists of: a page is known by its slug and its plugin, an entry that  *)
(* leads to a Razor page by its plugin alone.                              *)
(***************************************************************************)
EXTENDS Integers

CONSTANTS Plugins,    \* the types that are an IPlugin
          Assemblies, \* names of assemblies
          Slugs,      \* last parts of /addon/{slug}
          NoOne       \* no plugin, no slug

ASSUME NoOneAssumption == NoOne \notin Plugins \cup Slugs

VARIABLES
    pages,           \* who has claimed each slug
    navItems,        \* sidebar entries of described pages: slug and plugin
    links,           \* plugins with sidebar entries of Razor pages of their own
    routeAssemblies,
    plugins          \* how many records there are of each plugin and outcome

registry == <<pages, navItems, links, routeAssemblies, plugins>>

Outcomes == {"loaded", "failed"}

RegistryInit ==
    /\ pages = [s \in Slugs |-> NoOne]
    /\ navItems = {}
    /\ links = {}
    /\ routeAssemblies = {}
    /\ plugins = [r \in Plugins \X Outcomes |-> 0]

\* A described page, listed in the sidebar or not.
AddPage(p, s) ==
    /\ pages[s] = NoOne
    /\ pages' = [pages EXCEPT ![s] = p]
    /\ navItems' \in {navItems, navItems \cup {<<s, p>>}}
    /\ UNCHANGED <<links, routeAssemblies, plugins>>

\* Mutant: the sidebar entry is added before the slug is tried.
ListPageFirst(p, s) ==
    /\ pages[s] # NoOne
    /\ navItems' = navItems \cup {<<s, p>>}
    /\ UNCHANGED <<pages, links, routeAssemblies>>

\* The slug is taken: an exception, and nothing is registered.
PageRefused(p, s) ==
    /\ pages[s] # NoOne
    /\ UNCHANGED <<pages, navItems, links, routeAssemblies>>

\* An entry for a Razor page.
AddLink(p) ==
    /\ links' = links \cup {p}
    /\ UNCHANGED <<pages, navItems, routeAssemblies, plugins>>

Add(p, outcome) == plugins' = [plugins EXCEPT ![<<p, outcome>>] = @ + 1]

AddAssembly(a) == routeAssemblies' = routeAssemblies \cup {a}

RegistryTypeOK ==
    /\ pages \in [Slugs -> Plugins \cup {NoOne}]
    /\ navItems \subseteq Slugs \X Plugins
    /\ links \subseteq Plugins
    /\ routeAssemblies \subseteq Assemblies
    /\ plugins \in [Plugins \X Outcomes -> Nat]
=============================================================================
