---------------------------- MODULE MCAddonPage ----------------------------
(***************************************************************************)
(* AddonPage on small drop-in folders.                                     *)
(***************************************************************************)
EXTENDS AddonPage

CONSTANTS maps, shop, stats,       \* plugins
          app, mapsDll, shopDll, yamlDll, systemDll, \* assemblies
          maps1, shop1             \* slugs

MCPlugins == {maps, shop, stats}
MCAssemblies == {app, mapsDll, shopDll, yamlDll, systemDll}
MCSlugs == {maps1, shop1}

File(name, kind, types, needs) == [name |-> name, kind |-> kind, types |-> types, needs |-> needs]

\* Two plugins in one assembly, copied twice, and a library of theirs; a plugin
\* that needs a later one's assembly; files that are no assembly, do not load,
\* are the app's own, or cannot be read; a plugin in an assembly named like the
\* framework's, which another needs.
MCFolders == {
    <<File(mapsDll, "assembly", {maps, stats}, {yamlDll}), File(mapsDll, "assembly", {maps, stats}, {}),
      File(yamlDll, "assembly", {}, {})>>,
    <<File(yamlDll, "native", {}, {}), File(mapsDll, "assembly", {maps}, {shopDll}),
      File(shopDll, "assembly", {shop, stats}, {})>>,
    <<File(app, "assembly", {}, {}), File(mapsDll, "damaged", {}, {}), File(shopDll, "assembly", {shop}, {mapsDll})>>,
    <<File(mapsDll, "assembly", {maps}, {}), File(shopDll, "locked", {}, {})>>,
    <<File(mapsDll, "assembly", {maps}, {systemDll}), File(systemDll, "assembly", {stats}, {})>> }
=============================================================================
