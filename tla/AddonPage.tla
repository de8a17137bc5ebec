----------------------------- MODULE AddonPage -----------------------------
(***************************************************************************)
(* The page /addon/{slug} (Web/src/Components/Addons/AddonPage.razor) on   *)
(* top of the plugins.  Going from one slug to another keeps the component *)
(* and gives it a new parameter; the sections of the old page may still be *)
(* on their way, and arrive all the same.                                  *)
(*                                                                         *)
(* Abstracted: the sections of a page are known by its slug; who may see   *)
(* it, and what the sections do.                                           *)
(***************************************************************************)
EXTENDS PluginLoader

CONSTANTS Circuits, \* browsers
          MaxVisits \* bound: pages visited

ASSUME VisitsAssumption == MaxVisits \in Nat

VARIABLES
    slug,       \* the parameter
    addonPage,  \* the plugin whose page was found
    awaited,    \* GetSectionsAsync calls under way, oldest first
    sections,   \* the page the sections are of
    buildError, \* the page whose building threw
    visits,
    overtaken   \* history: an older call has ended after a newer one

page == <<slug, addonPage, awaited, sections, buildError, visits, overtaken>>
vars == <<registry, loader, page>>

Init ==
    /\ LoaderInit
    /\ slug = [c \in Circuits |-> NoOne]
    /\ addonPage = [c \in Circuits |-> NoOne]
    /\ awaited = [c \in Circuits |-> <<>>]
    /\ sections = [c \in Circuits |-> NoOne]
    /\ buildError = [c \in Circuits |-> NoOne]
    /\ visits = 0
    /\ overtaken = {}

\* Mutant: the page is looked up when the component is made, not for each slug.
OnInitializedOnly(c, s) ==
    /\ phase = "serving"
    /\ visits < MaxVisits
    /\ visits' = visits + 1
    /\ slug' = [slug EXCEPT ![c] = s]
    /\ \/ /\ slug[c] = NoOne
          /\ addonPage' = [addonPage EXCEPT ![c] = pages[s]]
          /\ awaited' = IF pages[s] = NoOne THEN awaited ELSE [awaited EXCEPT ![c] = Append(@, s)]
       \/ slug[c] # NoOne /\ UNCHANGED <<addonPage, awaited>>
    /\ UNCHANGED <<registry, loader, sections, buildError, overtaken>>

\* OnParametersSetAsync, up to its await.
OnParametersSetAsync(c, s) ==
    /\ phase = "serving"
    /\ visits < MaxVisits
    /\ visits' = visits + 1
    /\ slug' = [slug EXCEPT ![c] = s]
    /\ addonPage' = [addonPage EXCEPT ![c] = pages[s]]
    /\ sections' = [sections EXCEPT ![c] = NoOne]
    /\ buildError' = [buildError EXCEPT ![c] = NoOne]
    /\ awaited' = IF pages[s] = NoOne THEN awaited ELSE [awaited EXCEPT ![c] = Append(@, s)]
    /\ UNCHANGED <<registry, loader, overtaken>>

\* A call ends; those before it are older and still under way.
Ended(c, i) ==
    /\ awaited' = [awaited EXCEPT ![c] = SubSeq(@, 1, i - 1) \o SubSeq(@, i + 1, Len(@))]
    /\ overtaken' = IF i = 1 THEN overtaken ELSE overtaken \cup {c}
    /\ UNCHANGED <<registry, loader, slug, addonPage, visits>>

\* The sections are shown, whatever the slug is by now.
SectionsArrive(c) ==
    \E i \in DOMAIN awaited[c] :
       /\ Ended(c, i)
       /\ sections' = [sections EXCEPT ![c] = awaited[c][i]]
       /\ UNCHANGED buildError

\* The plugin throws; so is what it says.
BuildThrows(c) ==
    \E i \in DOMAIN awaited[c] :
       /\ Ended(c, i)
       /\ buildError' = [buildError EXCEPT ![c] = awaited[c][i]]
       /\ UNCHANGED sections

Step(c) == (\E s \in Slugs : OnParametersSetAsync(c, s)) \/ SectionsArrive(c) \/ BuildThrows(c)

Next == (LoaderNext /\ UNCHANGED page) \/ \E c \in Circuits : Step(c)

Spec == Init /\ [][Next]_vars

\* The loader is code of the app; each Load it awaits is taken to end.
FairSpec == Spec /\ WF_vars(LoadAsync /\ UNCHANGED page)

(***************************************************************************)
(* Properties.                                                             *)
(***************************************************************************)
\* Every variable has its type; plugins are loaded only from an open file.
TypeOK ==
    /\ LoaderTypeOK
    /\ slug \in [Circuits -> Slugs \cup {NoOne}]
    /\ addonPage \in [Circuits -> Plugins \cup {NoOne}]
    /\ awaited \in [Circuits -> Seq(Slugs)]
    /\ sections \in [Circuits -> Slugs \cup {NoOne}]
    /\ buildError \in [Circuits -> Slugs \cup {NoOne}]
    /\ visits \in 0..MaxVisits
    /\ overtaken \subseteq Circuits

\* When nothing is under way, a page shows its own sections or says why not,
\* unless an older page's call has ended after a newer one's.
SectionsAreOfThePage ==
    \A c \in Circuits :
       awaited[c] = <<>> /\ addonPage[c] # NoOne /\ c \notin overtaken =>
          slug[c] \in {sections[c], buildError[c]}
=============================================================================
