----------------------------- MODULE PlanContract -----------------------------
(***************************************************************************)
(* What the executors take for granted of a plan, and planner.Build's plan *)
(* as each of them reads it.  Session, WindowsSession and LinuxAdapter     *)
(* assume the first part of their plans; Planning states that a plan Build *)
(* returns has it under the views of the second, if the catalog's words    *)
(* for privileges and scopes are those of the schema (Understood), which   *)
(* Load does not look at: the one thing the executors' models assume of a  *)
(* plan that the program does not ensure.                                  *)
(***************************************************************************)
EXTENDS Naturals, Sequences

Privilege == {"elevated", "user"}
PrerequisiteKinds == {"ensure-manager", "ensure-flatpak-remote", "ensure-repository-key",
                      "ensure-apt-repository", "refresh-package-index"}

\* A plan as executeLinux and executeWindows loop over it: the target is what an
\* operation detects, installs, configures or prepares, dependsOn has positions.
IsPlan(plan) ==
  plan \in Seq([kind: {"prerequisite", "detect", "install", "configure"}, privilege: Privilege,
                target: {plan[i].target : i \in DOMAIN plan}, dependsOn: SUBSET Nat])

\* Dependencies come earlier, machine operations never depend on user operations
\* (planner.go:224-230), and nothing depends on a configuration (planner.go:233-341).
LinuxPlan(plan) ==
  /\ IsPlan(plan)
  /\ \A i \in DOMAIN plan : \A d \in plan[i].dependsOn :
       /\ d \in 1..(i - 1) /\ plan[d].kind # "configure"
       /\ plan[i].privilege = "elevated" => plan[d].privilege = "elevated"

\* The operations executeWindows does something about: it passes over the user's
\* and has no case for the other kinds (broker.go:104-125).
HandledOnWindows(operation) ==
  operation.privilege = "elevated" /\ operation.kind \in {"detect", "install"}

\* An installation comes after the detection of its package (planner.go:296-329).
WindowsPlan(plan) ==
  /\ IsPlan(plan)
  /\ \A i \in DOMAIN plan : HandledOnWindows(plan[i]) /\ plan[i].kind = "install" =>
       \E d \in 1..(i - 1) : /\ HandledOnWindows(plan[d]) /\ plan[d].kind = "detect"
                             /\ plan[d].target = plan[i].target

\* The operations of a kind that are done before the i-th: the machine's are done
\* before the user's.
Before(ops, i, kind) ==
  {j \in 1..(i - 1) : ops[j].kind = kind /\ ops[j].privilege \in {"elevated", ops[i].privilege}}

\* A plan as the Linux adapter reads its operations: each comes after those that
\* provide its manager, its remote and its index, and the index after every key and
\* source (planner.go:237-329), of which there is one for each repository
\* (planner.go:207).
AdapterPlan(ops, sourcesOf) ==
  LET repositories == UNION {sourcesOf[p] : p \in DOMAIN sourcesOf}
  IN  /\ ops \in Seq([kind: PrerequisiteKinds \cup {"detect", "install", "configure"},
                      subject: {ops[i].subject : i \in DOMAIN ops},
                      manager: {ops[i].manager : i \in DOMAIN ops},
                      privilege: Privilege])
      /\ \A i \in DOMAIN ops :
           LET op == ops[i]
           IN  /\ op.kind \in {"detect", "install", "ensure-flatpak-remote"}
                  /\ op.manager \in {"snap", "flatpak"} =>
                    \E j \in Before(ops, i, "ensure-manager") : ops[j].manager = op.manager
               /\ op.kind \in {"detect", "install"} => op.subject \in DOMAIN sourcesOf
               /\ op.kind = "install" /\ op.manager = "flatpak" =>
                    \E j \in Before(ops, i, "ensure-flatpak-remote") :
                      ops[j].privilege = op.privilege
               /\ op.kind = "install" /\ op.manager = "apt-get" /\ sourcesOf[op.subject] # {} =>
                    \E j \in Before(ops, i, "refresh-package-index") : ops[j].manager = "apt-get"
               /\ op.kind = "refresh-package-index" /\ op.manager = "apt-get" =>
                    \A r \in repositories :
                      /\ \E j \in Before(ops, i, "ensure-repository-key") : ops[j].subject = r
                      /\ \E j \in Before(ops, i, "ensure-apt-repository") : ops[j].subject = r
               /\ op.kind \in {"ensure-repository-key", "ensure-apt-repository"} =>
                    /\ op.subject \in repositories
                    /\ \A j \in DOMAIN ops :
                         ops[j].kind = op.kind /\ ops[j].subject = op.subject => j = i

-----------------------------------------------------------------------------
(* planner.Build's operations, [id, privilege, dependsOn] as in Planner,   *)
(* as the executors read them.  An ID tells the kind and the rest apart.   *)

\* Detection and installation are of one package; dependencies become positions.
ExecutorView(operations) ==
  [i \in DOMAIN operations |->
     LET id == operations[i].id
     IN  [kind |-> IF id[1] \in {"detect", "install", "configure"} THEN id[1] ELSE "prerequisite",
          privilege |-> operations[i].privilege,
          target |-> IF id[1] \in {"detect", "install"} THEN <<"package", id[2]>> ELSE id,
          dependsOn |-> {j \in DOMAIN operations : operations[j].id \in operations[i].dependsOn}]]

\* Kind, Manager and the package, repository or intent the operation is for.
AdapterOperation(operation, provider) ==
  LET id == operation.id
  IN  [kind |-> CASE id[1] = "manager" -> "ensure-manager"
                  [] id[1] = "remote" -> "ensure-flatpak-remote"
                  [] id[1] = "key" -> "ensure-repository-key"
                  [] id[1] = "repository" -> "ensure-apt-repository"
                  [] id[1] = "refresh" -> "refresh-package-index"
                  [] OTHER -> id[1],
       subject |-> IF id[1] \in {"manager", "remote", "refresh"} THEN "none" ELSE id[2],
       manager |-> CASE id[1] \in {"detect", "install"} -> provider[id[2]].manager
                     [] id[1] \in {"manager", "refresh"} -> id[2]
                     [] id[1] = "remote" -> "flatpak"
                     [] OTHER -> "none",
       privilege |-> operation.privilege]

AdapterView(operations, provider) ==
  [i \in DOMAIN operations |-> AdapterOperation(operations[i], provider)]
=============================================================================
