------------------------------ MODULE MCConsole ------------------------------
(***************************************************************************)
(* Instances for TLC of what the console does on request: it applies a     *)
(* configuration (ControlConfig), and it patches packages and installs the *)
(* tools for that (AndroidTools).  They share no state, and a behaviour is *)
(* of one part.  All of AndroidTools at once has too many states: either   *)
(* packages are uploaded and patched while no tools are installed; or the  *)
(* module and the archive are installed, removed and replaced while one    *)
(* package waits, LSPatch stays and no job starts.                         *)
(***************************************************************************)
EXTENDS MCControlConfig, AndroidTools

CONSTANTS r1, u1

VARIABLE part

-----------------------------------------------------------------------------
\* The part that rests has one initial state.
ConsoleInit ==
    /\ part \in {"config", "packages", "tools"} /\ ConfigInit /\ AndroidInit
    /\ part = "config" => \A c \in Components : file[c] = "good"
    /\ part # "config" => cfg.port = 1 /\ theirs = NoPAC
    /\ part = "packages" => \A c \in Components \ {Module} : file[c] = "good"
    /\ part = "tools" => file[LSPatch] = "good"

Config == part = "config" /\ ConfigNext /\ UNCHANGED <<part, androidVars>>

Packages ==
    /\ part = "packages" /\ AndroidNext
    /\ UNCHANGED <<part, configVars, install, unpacked, removals>>

Tools ==
    /\ part = "tools" /\ AndroidNext
    /\ UNCHANGED <<part, configVars, work, result, output, kept, shut>>
    /\ file'[LSPatch] = "good"
    /\ upload'.at \in {"idle", "saved"} /\ onDisk' \subseteq {u1}
    /\ \A r \in Requesters \ {r1} : asked'[r] = Nowhere

ConsoleSpec == ConsoleInit /\ [][Config \/ Packages \/ Tools]_<<part, configVars, androidVars>>

\* The part that moves; the other one never changes.
Moving == <<part, IF part = "config" THEN configVars ELSE androidVars>>
=============================================================================
