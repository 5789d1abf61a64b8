------------------------------ MODULE Platform ------------------------------
(***************************************************************************)
(* What the file operations depend on: on Windows they work with handles   *)
(* that keep others off (os.name == "nt"), elsewhere with names.           *)
(***************************************************************************)
VARIABLE windows

PlatformTypeOK == windows \in BOOLEAN
=============================================================================
