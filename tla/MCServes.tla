------------------------------ MODULE MCServes ------------------------------
(* What is asked and told across the control link, in one of three parts:   *)
(* requests served by the page, over the link; requests served by whoever   *)
(* rpcd routes them to; apps and the windows that show them.                *)
EXTENDS ControlLink, Rpcd, AppWindows, TLC

VARIABLE part

ASSUME ServesAssumption == AppWindowsAssumption

ServesInit == part \in {"link", "router", "faces"} /\ Init /\ RouterInit /\ FacesInit

ServesNext ==
  /\ UNCHANGED part
  /\ \/ part = "link" /\ Next /\ UNCHANGED <<routerVars, facesVars>>
     \/ part = "router" /\ RouterNext /\ UNCHANGED <<vars, facesVars>>
     \/ part = "faces" /\ FacesNext /\ UNCHANGED <<vars, routerVars>>

ServesSpec == ServesInit /\ [][ServesNext]_<<part, vars, routerVars, facesVars>>

ServesSymmetry == Permutations(Requests) \cup Permutations(CallIds) \cup Permutations(Methods)
=============================================================================
