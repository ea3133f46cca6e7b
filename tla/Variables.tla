------------------------------ MODULE Variables ------------------------------
(* The variables of the analysed function, as the other modules name them: *)
(* an AbstractVariable is its id, a null AbstractVariable* is NULL.        *)
(* Source: project/include/utility.h, class AbstractVariable.              *)
EXTENDS Integers

CONSTANT NULL

ASSUME NullAssumption == NULL \notin Int

=============================================================================
