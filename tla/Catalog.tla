-------------------------------- MODULE Catalog --------------------------------
(***************************************************************************)
(* internal/catalog/load.go: which pair of catalog files is accepted, and  *)
(* what planner.Build sees of one for a target.                            *)
(*                                                                         *)
(* A document is what the two files decode to: lists of records, in which  *)
(* an id may be missing (""), repeated or unknown and every word may be    *)
(* any word: the schemas in schema/ are nobody's business here.  Of the    *)
(* fields that are checked one by one (patterns, URLs, digests, estimates, *)
(* package names, scopes, schema version) only the outcome is kept:        *)
(* "valid", "complete" and "schema".  The order of the checks decides the  *)
(* message, not the answer, and is left out.                               *)
(***************************************************************************)
EXTENDS Naturals, Sequences, SequencesExt, FiniteSetsExt

CONSTANT NoProvider

\* What the two files may decode to.  Source and Scope of a provider are kept as
\* the name planner.go:249 makes of them for a Flatpak remote.
Source == [id: STRING, platform: STRING, architectures: SUBSET STRING, valid: BOOLEAN]
Provision ==
  [manager: STRING, privilege: STRING, remote: STRING, architectures: SUBSET STRING,
   prerequisites: Seq(STRING), complete: BOOLEAN]
IsPackage(pkg) ==
  pkg \in [id: STRING, dependencies: Seq(STRING), conflicts: Seq(STRING), intents: Seq(STRING),
           providers: [DOMAIN pkg.providers -> Seq(Provision)]]
Pack == [id: STRING, packages: Seq(STRING)]
Profile ==
  [id: STRING, extends: Seq(STRING), packages: Seq(STRING), recommended: Seq(STRING),
   optional: Seq(STRING)]

IsDocument(doc) ==
  /\ doc.schema \in BOOLEAN
  /\ doc.prerequisites \in Seq(Source) /\ doc.core \in Seq(STRING)
  /\ doc.packages \in Seq(ToSet(doc.packages)) /\ \A pkg \in ToSet(doc.packages) : IsPackage(pkg)
  /\ doc.packs \in Seq(Pack) /\ doc.profiles \in Seq(Profile)

Ids(list) == {list[i].id : i \in DOMAIN list}
ById(list) == [id \in Ids(list) |-> list[CHOOSE i \in DOMAIN list : list[i].id = id]]
Distinct(list) == \A i, j \in DOMAIN list : list[i].id = list[j].id => i = j
Named(list) == "" \notin Ids(list) /\ Distinct(list)

\* validatePrerequisite, for each.
PrerequisitesAccepted(doc) ==
  /\ Distinct(doc.prerequisites)
  /\ \A i \in DOMAIN doc.prerequisites : doc.prerequisites[i].valid

\* Variant of ProviderAccepted: the architectures are not compared.
ProviderOfPlatform(doc, platform, provider) ==
  /\ provider.complete /\ "" \notin {provider.manager, provider.privilege}
  /\ \A r \in ToSet(provider.prerequisites) :
       r \in Ids(doc.prerequisites) /\ ById(doc.prerequisites)[r].platform = platform

\* Of manager and privilege it is only asked that they are there.  A provider that
\* lists no architecture is taken for all of them, and then nothing is asked of its
\* prerequisites' architectures.
ProviderAccepted(doc, platform, provider) ==
  /\ provider.complete /\ "" \notin {provider.manager, provider.privilege}
  /\ \A r \in ToSet(provider.prerequisites) :
       /\ r \in Ids(doc.prerequisites)
       /\ ById(doc.prerequisites)[r].platform = platform
       /\ provider.architectures \subseteq ById(doc.prerequisites)[r].architectures

PackageAccepted(doc, pkg) ==
  /\ DOMAIN pkg.providers # {}
  /\ \A platform \in DOMAIN pkg.providers :
       /\ pkg.providers[platform] # <<>>
       /\ \A provider \in ToSet(pkg.providers[platform]) :
            ProviderAccepted(doc, platform, provider)

\* Dependencies and conflicts are known, and conflicts mutual.
ReferencesAccepted(doc) ==
  \A i \in DOMAIN doc.packages :
    LET pkg == doc.packages[i]
    IN  /\ ToSet(pkg.dependencies \o pkg.conflicts) \subseteq Ids(doc.packages)
        /\ \A c \in ToSet(pkg.conflicts) :
             Contains(ById(doc.packages)[c].conflicts, pkg.id)

\* Variant of InheritanceAccepted: a cycle is looked for only at the profile itself.
ParentsAccepted(doc) ==
  \A i \in DOMAIN doc.profiles :
    LET extends(id) == IF id \in Ids(doc.profiles) THEN ToSet(ById(doc.profiles)[id].extends) ELSE {}
    IN  \A parent \in extends(doc.profiles[i].id) :
          parent # doc.profiles[i].id /\ doc.profiles[i].id \notin extends(parent)

\* validateProfileGraph, for each profile: no path upwards meets itself.  A
\* parent not yet checked may be unknown; it then has no parents.
InheritanceAccepted(doc) ==
  LET extends(id) == IF id \in Ids(doc.profiles) THEN ById(doc.profiles)[id].extends ELSE <<>>
      ascends[path \in Seq(STRING)] ==
        \A parent \in ToSet(extends(Last(path))) :
          ~Contains(path, parent) /\ ascends[Append(path, parent)]
  IN  \A id \in Ids(doc.profiles) : ascends[<<id>>]

ProfileAccepted(doc, profile) ==
  /\ ToSet(profile.packages) \subseteq Ids(doc.packages)
  /\ ToSet(profile.recommended \o profile.optional) \subseteq Ids(doc.packs)
  /\ ToSet(profile.extends) \subseteq Ids(doc.profiles)

\* Everything validate asks of single records and of the names in them.
RecordsAccepted(doc) ==
  /\ doc.schema
  /\ PrerequisitesAccepted(doc)
  /\ Named(doc.packages)
  /\ \A i \in DOMAIN doc.packages : PackageAccepted(doc, doc.packages[i])
  /\ ReferencesAccepted(doc)
  /\ Named(doc.packs)
  /\ \A i \in DOMAIN doc.packs : ToSet(doc.packs[i].packages) \subseteq Ids(doc.packages)
  /\ Named(doc.profiles)
  /\ ToSet(doc.core) \subseteq Ids(doc.packages)
  /\ \A i \in DOMAIN doc.profiles : ProfileAccepted(doc, doc.profiles[i])

\* Load returns catalogs, not an error.
Accepted(doc) == RecordsAccepted(doc) /\ InheritanceAccepted(doc)

-----------------------------------------------------------------------------
\* planner.selectProvider: the first that fits the target, if any.
SelectProvider(pkg, target) ==
  IF target.platform \notin DOMAIN pkg.providers THEN NoProvider
  ELSE LET providers == pkg.providers[target.platform]
           fitting == {k \in DOMAIN providers :
                         \/ providers[k].architectures = {}
                         \/ target.architecture \in providers[k].architectures}
       IN  IF fitting = {} THEN NoProvider ELSE providers[Min(fitting)]

\* An accepted document for one target, as Planner.tla describes it.
CatalogsFor(doc, target) ==
  LET pkg == ById(doc.packages)
      provider(p) ==
        LET chosen == SelectProvider(pkg[p], target)
        IN  IF chosen = NoProvider THEN NoProvider
            ELSE [manager |-> chosen.manager, privilege |-> chosen.privilege,
                  remote |-> chosen.remote, prerequisites |-> chosen.prerequisites]
      profile(id) ==
        LET found == ById(doc.profiles)[id]
        IN  [extends |-> found.extends, packages |-> found.packages,
             recommended |-> found.recommended]
  IN  [platform |-> target.platform,
       dependencies |-> [p \in DOMAIN pkg |-> pkg[p].dependencies],
       conflicts |-> [p \in DOMAIN pkg |-> ToSet(pkg[p].conflicts)],
       provider |-> [p \in DOMAIN pkg |-> provider(p)],
       intents |-> [p \in DOMAIN pkg |-> pkg[p].intents],
       core |-> doc.core,
       packs |-> [id \in Ids(doc.packs) |-> ById(doc.packs)[id].packages],
       profiles |-> [id \in Ids(doc.profiles) |-> profile(id)]]
=============================================================================
