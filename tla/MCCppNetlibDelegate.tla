------------------------ MODULE MCCppNetlibDelegate ------------------------
(***************************************************************************)
(* Model-checking instance of CppNetlibDelegate.                           *)
(***************************************************************************)
EXTENDS CppNetlibDelegate
=============================================================================
