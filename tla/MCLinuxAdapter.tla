---------------------------- MODULE MCLinuxAdapter ----------------------------
(* For Ubuntu and for Fedora a plan with every kind of operation it has, in  *)
(* the order of planner.Build, on hosts that have nothing, something or      *)
(* leftovers of what it needs.                                               *)
EXTENDS LinuxAdapter

MCOperation(kind, subject, manager, privilege) ==
  [kind |-> kind, subject |-> subject, manager |-> manager, privilege |-> privilege]

MCManagers ==
  <<MCOperation("ensure-manager", "none", "snap", "elevated"),
    MCOperation("ensure-manager", "none", "flatpak", "elevated"),
    MCOperation("ensure-flatpak-remote", "none", "flatpak", "user")>>
MCRepository ==
  <<MCOperation("ensure-repository-key", "r", "none", "elevated"),
    MCOperation("ensure-apt-repository", "r", "none", "elevated")>>
MCPackage(p, manager, privilege) ==
  <<MCOperation("detect", p, manager, privilege), MCOperation("install", p, manager, privilege)>>
MCRefresh(manager) == <<MCOperation("refresh-package-index", "none", manager, "elevated")>>

MCPlanFor(repository, native) ==
  MCManagers \o repository \o MCRefresh(native) \o MCPackage("tool", native, "elevated")
  \o MCPackage("editor", "snap", "elevated") \o MCPackage("viewer", "flatpak", "user")
  \o <<MCOperation("configure", "git", "none", "user"), MCOperation("configure", "aws", "none", "user")>>
MCPlan == [ubuntu |-> MCPlanFor(MCRepository, "apt-get"), fedora |-> MCPlanFor(<<>>, "dnf")]

MCSourcesOf == [tool |-> {"r"}, editor |-> {}, viewer |-> {}]
MCSettings == [git |-> 2, aws |-> 0]
MCManual == {"aws"}

MCHosts ==
  {h \in [platform: Platforms, native: {{"apt-get", "dpkg-query"}, {"apt-get"}, {"dpkg-query"}, {"dnf"}, {}},
          managers: {{}, {"snap"}, {"flatpak"}},
          socket: BOOLEAN, mount: BOOLEAN, seeded: BOOLEAN,
          remotes: {{}, {"elevated"}}, keys: [Repositories -> {"absent", "other"}],
          sources: SUBSET Repositories, lists: BOOLEAN, index: {{}},
          packages: {[tool |-> t, editor |-> e, viewer |-> "absent"] :
                       t \in {"absent", "partial", "installed"}, e \in {"absent", "installed"}},
          settings: {[git |-> 0, aws |-> 0]}] :
     /\ "snap" \in h.managers \/ (~h.socket /\ h.packages.editor = "absent")
     /\ h.seeded => h.socket
     /\ h.native = {"dnf"} => h.platform = "fedora"
     /\ "dpkg-query" \in h.native \/ "apt-get" \in h.native => h.platform = "ubuntu"
     /\ ~Healthy(h) => h.managers = {"snap"} /\ h.socket /\ h.packages.editor = "absent"
     /\ h.platform = "fedora" => h.sources = {} /\ h.packages.tool # "partial"
                                   /\ \A r \in Repositories : h.keys[r] = "absent"
     /\ h.platform = "ubuntu" => ~h.mount
     /\ h.platform = "fedora" => ~h.lists
     /\ ~h.lists /\ h.platform = "ubuntu" => h.packages.tool = "absent" /\ h.sources = {}
     /\ h.remotes # {} => "flatpak" \in h.managers}
=============================================================================
