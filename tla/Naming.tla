------------------------------- MODULE Naming -------------------------------
(* A local variable of the code that a definition reads more than once.       *)
(* Given(e, LAMBDA x : body) is body with e for x: the form used, instead of  *)
(* LET, in the long definitions that walk a program, whose expansion a nest   *)
(* of LETs would double at every level.                                       *)
(* Computed(e, LAMBDA x : body) has the same value, and TLC computes e before *)
(* the body (the set has one element, which is built first): the compiler     *)
(* passes over a program hand a state on from statement to statement with it, *)
(* so that what is put off does not pile up.                                  *)

Given(thing, Reading(_)) == Reading(thing)

Computed(thing, Reading(_)) == CHOOSE y \in {Reading(x) : x \in {thing}} : TRUE

=============================================================================
