------------------------------ MODULE VmmServices ------------------------------
(* The parts of a VMM that keep its books without talking to each other: the  *)
(* ids of IdAllocator, the bus ranges of IoManager, the seccomp filters and   *)
(* the wrapper of the structs that end in a flexible array.  They share no    *)
(* state, so a behaviour is about one of them.                                *)
EXTENDS IdAllocator, IoManager, SeccompFilter, FamStruct

VARIABLE part

serviceVars == <<part, idVars, ioVars, filterVars, famVars>>

ServiceInit ==
  /\ part \in {"ids", "buses", "filter", "fam"}
  /\ IdInit /\ (part # "ids" => range_base = 0 /\ range_end = 0)
  /\ IoInit
  /\ FilterInit /\ (part # "filter" => filter = <<>> /\ call = CHOOSE c \in Calls : TRUE)
  /\ FamInit /\ (part # "fam" => layout = CHOOSE l \in Layouts : TRUE)

ServiceNext ==
  /\ UNCHANGED part
  /\ \/ part = "ids" /\ IdNext /\ UNCHANGED <<ioVars, filterVars, famVars>>
     \/ part = "buses" /\ IoNext /\ UNCHANGED <<idVars, filterVars, famVars>>
     \/ part = "filter" /\ FilterNext /\ UNCHANGED <<idVars, ioVars, famVars>>
     \/ part = "fam" /\ FamNext /\ UNCHANGED <<idVars, ioVars, filterVars>>

ServiceSpec == ServiceInit /\ [][ServiceNext]_serviceVars
================================================================================
