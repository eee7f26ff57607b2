---------------------------- MODULE MCHierarchy ----------------------------
(* Hierarchy on every document of up to MaxNodes children: the cfg files   *)
(* give the names and the kinds of nodes.                                  *)
EXTENDS HierarchyTree

=============================================================================
