------------------------------- MODULE Handle -------------------------------
(***************************************************************************)
(* The template Handle and the classes made like it, CredentialHandle and  *)
(* SecurityContextHandle (tools/scli/Handle.h, SecurityHandle.h): owners   *)
(* of an object of the system.  A handle is the object's name or Invalid;  *)
(* closed says of each object how often it was closed.                     *)
(***************************************************************************)
EXTENDS Integers

Invalid == "invalid"

\* Close() does not reset the value.
CloseHandle(handle, closed) ==
    IF handle = Invalid THEN closed ELSE [closed EXCEPT ![handle] = @ + 1]

\* Mutants: the handle there was is lost; the one stored is closed.
AttachOnly(handle, value, closed) == [value |-> value, closed |-> closed]

AttachFirst(handle, value, closed) ==
    [value |-> value, closed |-> CloseHandle(value, closed)]

Attach(handle, value, closed) ==
    [value |-> value, closed |-> CloseHandle(handle, closed)]
=============================================================================
