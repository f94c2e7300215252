------------------------------- MODULE MCBoot --------------------------------
(* Nothing to define: module Boot is checked as it is.                     *)
EXTENDS BootProperties
=============================================================================
