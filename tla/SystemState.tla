---------------------------- MODULE SystemState ----------------------------
(* The components modelled on top of this module are explored one at a time: *)
(* a behaviour is about one of them, sys.part says which, and the other      *)
(* fields of sys are that component's state.  The modules share the one      *)
(* variable so that a single model can put their initial states and their    *)
(* actions side by side.                                                     *)
VARIABLE sys

(* The behaviour is about the component called part. *)
At(part) == sys.part = part
============================================================================
