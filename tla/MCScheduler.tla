---------------------------- MODULE MCScheduler ----------------------------
(* A job whose inventory is synchronised from the project it uses, on a     *)
(* control plane of one hybrid node, an execution node that is too small   *)
(* for the job, and a container group for one job.                          *)
EXTENDS Scheduler

CONSTANTS project, source, inventory, template, hybrid, execution,
          controlplane, nodes1, containers

Basic == [project |-> None, inventory |-> None, source |-> None,
          template |-> None, simultaneous |-> FALSE, updated |-> {},
          impact |-> 1, groups |-> <<controlplane>>]

ProjectUpdate == [kind |-> "project_update", project |-> project] @@ Basic
InventoryUpdate == [kind |-> "inventory_update", source |-> source,
                    inventory |-> inventory] @@ Basic
Job == [kind |-> "job", project |-> project, inventory |-> inventory,
        template |-> template, impact |-> 3,
        groups |-> <<nodes1, containers>>] @@ Basic
AdHoc == [kind |-> "ad_hoc", inventory |-> inventory] @@ Basic
Sliced == [kind |-> "workflow", template |-> template] @@ Basic
SystemJob == [kind |-> "system_job"] @@ Basic

MCLaunchable == {Job, InventoryUpdate, AdHoc, Sliced}
MCTarget == {project, source}
MCUpdateOf == (project :> ProjectUpdate) @@ (source :> InventoryUpdate)
MCSourcesOf == (inventory :> <<source>>)
MCSourceProject == (source :> project)
MCNode == {hybrid, execution}
MCNodeType == (hybrid :> "hybrid") @@ (execution :> "execution")
MCCapacity == (hybrid :> 3) @@ (execution :> 2)
MCMembers == (controlplane :> {hybrid}) @@ (nodes1 :> {execution})
             @@ (containers :> {})
MCContainerGroup == {containers}
MCMaxJobs == (controlplane :> 0) @@ (nodes1 :> 0) @@ (containers :> 1)
MCMaxForks == (controlplane :> 0) @@ (nodes1 :> 0) @@ (containers :> 4)
=============================================================================
