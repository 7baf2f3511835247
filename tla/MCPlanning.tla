------------------------------ MODULE MCPlanning ------------------------------
(* Three packages in every small dependency graph, cycles included, with the *)
(* kinds of provider the targets have, a base profile and one that inherits  *)
(* from it, and three packs that overlap; and one document with each defect  *)
(* that Load looks for, most of them among sound lists.                      *)
EXTENDS SetupPlan

MCRemote(manager, privilege) ==
  CASE manager # "flatpak" -> ":machine"
    [] privilege = "user" -> "flathub:user"
    [] OTHER -> "flathub:machine"
MCProvider(manager, privilege, architectures, prerequisites) ==
  [manager |-> manager, privilege |-> privilege, remote |-> MCRemote(manager, privilege),
   architectures |-> architectures, prerequisites |-> prerequisites, complete |-> TRUE]

MCApt == <<MCProvider("apt-get", "elevated", {}, <<>>)>>
MCRepository == <<MCProvider("apt-get", "elevated", {"x64"}, <<"r">>),
                  MCProvider("flatpak", "user", {"arm64"}, <<>>)>>
MCRepositories == <<MCProvider("apt-get", "elevated", {"x64"}, <<"s", "r">>),
                    MCProvider("snap", "elevated", {}, <<>>)>>
MCUnlisted == <<MCProvider("apt-get", "elevated", {}, <<"r">>)>>
MCDnf == <<MCProvider("dnf", "elevated", {}, <<>>)>>
MCSnap == <<MCProvider("snap", "elevated", {"x64"}, <<>>)>>
MCUserFlatpak == <<MCProvider("flatpak", "user", {"x64", "arm64"}, <<>>)>>
MCMachineFlatpak == <<MCProvider("flatpak", "elevated", {}, <<>>)>>
MCWinget == <<MCProvider("winget", "elevated", {}, <<>>)>>

\* Words that Load lets through and no executor has a use for: a user's remote
\* needed by the machine as well, a manager of another platform, other privileges.
MCUserRemote == <<[MCProvider("flatpak", "elevated", {}, <<>>) EXCEPT !.remote = "flathub:user"]>>
MCHomebrew == <<MCProvider("brew", "elevated", {}, <<>>)>>
MCMachineSnap == <<MCProvider("snap", "machine", {}, <<>>)>>
MCUserWinget == <<MCProvider("winget", "user", {}, <<>>)>>
MCMachineWinget == <<MCProvider("winget", "machine", {}, <<>>)>>
MCOddProviders ==
  [a |-> [ubuntu |-> MCUserFlatpak, fedora |-> MCMachineSnap, windows |-> MCWinget],
   b |-> [ubuntu |-> MCUserRemote, fedora |-> MCHomebrew, windows |-> MCMachineWinget],
   c |-> [ubuntu |-> MCDnf, fedora |-> MCDnf, windows |-> MCUserWinget]]

\* The providers of a, b and c; c has none on Fedora in the first of them.
MCProviders ==
  {[a |-> [ubuntu |-> MCRepository, fedora |-> MCUserFlatpak, windows |-> MCWinget],
    b |-> [ubuntu |-> MCRepositories, fedora |-> MCDnf, windows |-> MCWinget],
    c |-> [ubuntu |-> MCSnap, windows |-> MCWinget]],
   [a |-> [ubuntu |-> MCUserFlatpak, fedora |-> MCUserFlatpak, windows |-> MCWinget],
    b |-> [ubuntu |-> MCMachineFlatpak, fedora |-> MCMachineFlatpak, windows |-> MCWinget],
    c |-> [ubuntu |-> MCUserFlatpak, fedora |-> MCDnf]],
   [a |-> [ubuntu |-> MCApt, fedora |-> MCDnf, windows |-> MCWinget],
    b |-> [ubuntu |-> MCUnlisted, fedora |-> MCDnf, windows |-> MCWinget],
    c |-> [ubuntu |-> MCRepository, fedora |-> MCSnap]]}

MCGraphs ==
  {[a |-> da, b |-> db, c |-> dc] :
     da \in {<<>>, <<"b">>, <<"b", "c">>, <<"c", "b">>},
     db \in {<<>>, <<"c">>, <<"a">>}, dc \in {<<>>, <<"a">>, <<"c">>}}

MCConflicts ==
  {[a |-> <<>>, b |-> <<>>, c |-> <<>>], [a |-> <<>>, b |-> <<"c">>, c |-> <<"b">>]}

MCPackage(id, graph, conflicts, providers) ==
  [id |-> id, dependencies |-> graph[id], conflicts |-> conflicts[id],
   providers |-> providers[id],
   intents |-> CASE id = "a" -> <<"i">> [] id = "b" -> <<"i", "j">> [] OTHER -> <<>>]

MCSource(id) ==
  [id |-> id, platform |-> "ubuntu", architectures |-> {"x64"}, valid |-> TRUE]
MCProfile(id, extends, packages, recommended) ==
  [id |-> id, extends |-> extends, packages |-> packages, recommended |-> recommended,
   optional |-> <<"p">>]

MCDocument(graph, conflicts, providers) ==
  [schema |-> TRUE,
   prerequisites |-> <<MCSource("r"), MCSource("s")>>,
   packages |-> <<MCPackage("a", graph, conflicts, providers),
                  MCPackage("b", graph, conflicts, providers),
                  MCPackage("c", graph, conflicts, providers)>>,
   core |-> <<"a">>,
   packs |-> <<[id |-> "p", packages |-> <<"c", "b">>], [id |-> "q", packages |-> <<"b">>],
               [id |-> "e", packages |-> <<>>]>>,
   profiles |-> <<MCProfile("base", <<>>, <<"a">>, <<"q">>),
                  MCProfile("full", <<"base", "base">>, <<"b", "a">>, <<"e", "q">>)>>]

MCSound ==
  {MCDocument(graph, conflicts, providers) :
     graph \in MCGraphs, conflicts \in MCConflicts, providers \in MCProviders}
  \cup {MCDocument(graph, [a |-> <<>>, b |-> <<>>, c |-> <<>>], MCOddProviders) :
          graph \in MCGraphs}

MCBase ==
  MCDocument([a |-> <<"b">>, b |-> <<>>, c |-> <<>>], [a |-> <<>>, b |-> <<>>, c |-> <<"a">>],
             CHOOSE providers \in MCProviders : "fedora" \notin DOMAIN providers.c)
MCMutual == [MCBase EXCEPT !.packages[1].conflicts = <<"c">>]
MCRings == {<<"full">>, <<"high">>, <<"base">>, <<"base", "full">>, <<>>}

MCDefective ==
  {[MCMutual EXCEPT !.schema = FALSE],
   [MCMutual EXCEPT !.prerequisites[1].valid = FALSE],
   [MCMutual EXCEPT !.prerequisites[1].id = "s"],
   [MCMutual EXCEPT !.prerequisites[1].platform = "fedora"],
   [MCMutual EXCEPT !.prerequisites[2].architectures = {"arm64"}],
   [MCMutual EXCEPT !.packages[1].id = "b"],
   [MCMutual EXCEPT !.packages = Append(@, [@[3] EXCEPT !.id = "", !.conflicts = <<>>])],
   [MCMutual EXCEPT !.packages[1].providers = <<>>],
   [MCMutual EXCEPT !.packages[1].providers.ubuntu = <<>>],
   [MCMutual EXCEPT !.packages[1].providers.ubuntu[2].complete = FALSE],
   [MCMutual EXCEPT !.packages[1].providers.ubuntu[2].manager = ""],
   [MCMutual EXCEPT !.packages[1].providers.ubuntu[2].privilege = ""],
   [MCMutual EXCEPT !.packages[1].dependencies = <<"unknown">>],
   [MCMutual EXCEPT !.packages[1].conflicts = <<"unknown">>],
   MCBase,  \* c conflicts with a, a not with c
   [MCMutual EXCEPT !.packs[1].id = "q"],
   [MCMutual EXCEPT !.packs = Append(@, [id |-> "", packages |-> <<>>])],
   [MCMutual EXCEPT !.packs[1].packages = <<"unknown">>],
   [MCMutual EXCEPT !.core = <<"unknown">>],
   [MCMutual EXCEPT !.profiles[1].id = "full"],
   [MCMutual EXCEPT !.profiles = Append(@, MCProfile("", <<>>, <<>>, <<>>))],
   [MCMutual EXCEPT !.profiles[1].packages = <<"unknown">>],
   [MCMutual EXCEPT !.profiles[1].recommended = <<"unknown">>],
   [MCMutual EXCEPT !.profiles[2].optional = <<"unknown">>],
   [MCMutual EXCEPT !.profiles[2].extends = <<"unknown">>]}
  \cup {[MCMutual EXCEPT !.profiles = <<MCProfile("base", base, <<"a">>, <<"q">>),
                                       MCProfile("full", full, <<"b">>, <<>>),
                                       MCProfile("high", high, <<>>, <<>>)>>] :
          base \in MCRings, full \in MCRings, high \in MCRings}

MCDocuments == MCSound \cup MCDefective \cup {MCMutual}
MCTargets == {[platform |-> "ubuntu", architecture |-> "x64"],
              [platform |-> "ubuntu", architecture |-> "arm64"],
              [platform |-> "fedora", architecture |-> "x64"],
              [platform |-> "windows", architecture |-> "x64"]}
MCCatalogs == {C!CatalogsFor(doc, t) : doc \in MCSound, t \in MCTargets}

MCInputs ==
  [profile: {"base"}, packs: {<<>>, <<"p", "q">>, <<"unknown">>}, essentials: {FALSE}]
  \cup [profile: {"base"}, packs: {<<>>, <<"p">>}, essentials: {TRUE}]
  \cup [profile: {"full"}, packs: {<<"p">>}, essentials: {FALSE}]
  \cup [profile: {"unknown"}, packs: {<<>>}, essentials: {FALSE}]
=============================================================================
