---------------------------- MODULE SystemProxy ----------------------------
(***************************************************************************)
(* The PAC address in the settings of Windows (engine/sysproxy): the       *)
(* program puts its own address there, remembers in memory and in a file   *)
(* what it found, and puts that back.  Other programs and the user change  *)
(* the setting whenever they like, and the program may die in between.     *)
(* Writing the setting may fail; reading it, and the file, do not.         *)
(*                                                                         *)
(* Our address differs by the port only, so it is the port.  All the state *)
(* is one record: the setting, the variables of the process, and the file. *)
(***************************************************************************)
EXTENDS Integers

CONSTANTS Ports, Foreign, NoPAC

\* The address of somebody else is not ours.
ASSUME AddressAssumption == Ports \intersect (Foreign \union {NoPAC}) = {}

NoFile == [original |-> NoPAC, managed |-> NoPAC]
PACs == Ports \union Foreign \union {NoPAC}

PACState == [sys : PACs,           \* AutoConfigURL
             managing : BOOLEAN,   \* isManagingProxy
             original : PACs,      \* originalPACURL
             managed : PACs,       \* managedPACURL
             file : [original : PACs, managed : PACs]]  \* .sysproxy_state.json

FreshPAC(sys, file) == [sys |-> sys, managing |-> FALSE, original |-> NoPAC,
                        managed |-> NoPAC, file |-> file]

\* What EnablePACProxy takes from the file: the original only.
LoadOriginal(s) == IF s.original = NoPAC THEN [s EXCEPT !.original = s.file.original] ELSE s

IsOur(s, port) == s.sys = port \/ (s.managed # NoPAC /\ s.sys = s.managed)

\* enablePACProxy: what is replaced is remembered unless something is already.
\* Faulty variant: what is replaced is not remembered.
NotRemembered(s, port) == s
Remembered(s, port) ==
    IF s.sys # NoPAC /\ ~IsOur(s, port) /\ s.original = NoPAC
    THEN [s EXCEPT !.original = s.sys] ELSE s

EnablePACProxy(s, port) ==
    LET r == Remembered(LoadOriginal(s), port)
    IN [r EXCEPT !.sys = port, !.managing = TRUE, !.managed = port,
                 !.file = [original |-> r.original, managed |-> port]]

\* The registry cannot be written: what was found stays remembered.
EnableFails(s, port) == Remembered(LoadOriginal(s), port)

\* What DisablePACProxy takes from the file when this process manages nothing.
LoadManaged(s) ==
    IF ~s.managing /\ s.file.managed # NoPAC
    THEN [s EXCEPT !.managing = TRUE, !.managed = s.file.managed,
                   !.original = IF @ = NoPAC THEN s.file.original ELSE @]
    ELSE s

\* Nothing to give back: not managed by us, or replaced by somebody else since.
Surrendered(r) == ~r.managing \/ r.managed = NoPAC \/ r.sys # r.managed

\* disablePACProxy: the original, or nothing when that is our own.
GivenBack(r) == IF r.original # r.managed THEN r.original ELSE NoPAC

DisablePACProxy(s) ==
    LET r == LoadManaged(s)
    IN CASE Surrendered(r) /\ r.managing -> FreshPAC(r.sys, NoFile)
         [] Surrendered(r) /\ ~r.managing -> [r EXCEPT !.file = NoFile]
         [] OTHER -> FreshPAC(GivenBack(r), NoFile)

\* Whether the registry is written, which may fail.
HasToGiveBack(s) == ~Surrendered(LoadManaged(s))

DisableFails(s) ==
    LET r == LoadManaged(s)
    IN IF r.original = r.managed THEN [r EXCEPT !.original = NoPAC] ELSE r

HasToCleanUp(s) == s.managing \/ s.file.managed # NoPAC

CleanupOnExit(s) == IF HasToCleanUp(s) THEN DisablePACProxy(s) ELSE s
=============================================================================
