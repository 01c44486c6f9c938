---------------------------- MODULE AddressSpace ----------------------------
(***************************************************************************)
(* What vmm_map promises its caller: an address space is a map from virtual*)
(* to physical pages, and a call changes it at the page it names, to what  *)
(* it says, and nowhere else.  Once a page table could not be allocated,   *)
(* nothing is promised any more.                                           *)
(***************************************************************************)

CONSTANTS
  Virtual,   \* the virtual pages
  Unmapped   \* what a page that is not mapped is mapped to

VARIABLES
  space,     \* what each virtual page is mapped to
  request,   \* the call in progress: [virt, to]
  broken     \* a page table could not be allocated

spaceVars == <<space, request, broken>>

SpaceInit ==
  /\ space = [v \in Virtual |-> Unmapped]
  /\ ~ broken

(* The call returns, and the next one begins. *)
MapPage ==
  /\ ~ broken /\ ~ broken'
  /\ space' = [space EXCEPT ![request.virt] = request.to]

Break == broken'

SpaceNext == MapPage \/ Break

SpaceSpec == SpaceInit /\ [][SpaceNext]_spaceVars
=============================================================================
