------------------------------ MODULE Sandbox -------------------------------
(***************************************************************************)
(* From the --fs and --net flags of new to what the command can see and    *)
(* write: parse_sandbox (src/store.rs), which refuses flags before there   *)
(* is a session, and build_command (src/sandbox.rs), in the service, whose *)
(* error is recorded as the failure of the session.                        *)
(*                                                                         *)
(* A path is the sequence of its components; ".." is kept in it, as        *)
(* PathBuf does, and "." is not.                                           *)
(***************************************************************************)
EXTENDS Naturals, SequencesExt

CONSTANTS
  Part,       \* the names of files and directories
  Requests,   \* what new is given: flags, and the directory it is called from
  Paths       \* where the command may look

VARIABLE request   \* the request that is looked at

Error == [error |-> TRUE]

-----------------------------------------------------------------------------
(* parse_sandbox: a flag is full, or a mode and a path as it was written.  *)

Full == [mode |-> "full"]

Invalid == [mode |-> "invalid"]

Written == [absolute : BOOLEAN, parts : Seq(Part \cup {".."})]

Flag == {Full, Invalid} \cup [mode : {"ro", "rw"}, path : Written]

Request == [flags : Seq(Flag), net : {"absent", "on", "off", "other"}, cwd : Seq(Part)]

ASSUME SandboxAssumption ==
  /\ ".." \notin Part
  /\ Requests \subseteq Request
  /\ Paths \subseteq Seq(Part)

Absolutize(raw, cwd) == IF raw.absolute THEN raw.parts ELSE cwd \o raw.parts

ParseSandbox(flags, net, cwd) ==
  LET grants == [i \in DOMAIN flags |->
                   [mode |-> flags[i].mode, path |-> Absolutize(flags[i].path, cwd)]]
  IN
  IF \/ net = "other"
     \/ flags # <<Full>> /\ \E i \in DOMAIN flags : flags[i].mode \notin {"ro", "rw"}
  THEN Error
  ELSE [fs |-> IF flags \in {<< >>, <<Full>>} THEN <<Full>> ELSE grants, net |-> net # "off"]

-----------------------------------------------------------------------------
(* build_command.                                                          *)

GrantAllowsCwd(grant, cwd) == grant.mode = "full" \/ IsPrefix(grant.path, cwd)

Mount(mode, path) == [mode |-> mode, path |-> path]

SystemDirs == <<"bin", "usr", "sbin", "lib", "lib64", "etc", "opt", "run">>

SystemMounts ==
  <<Mount("proc", <<"proc">>), Mount("dev", <<"dev">>), Mount("tmpfs", <<"tmp">>)>>
    \o [i \in DOMAIN SystemDirs |-> Mount("ro", <<SystemDirs[i]>>)]

(* The grants of the first n flags that have the mode.                     *)
OfMode(grants, mode) ==
  LET chosen[n \in 0 .. Len(grants)] ==
        IF n = 0 THEN << >>
        ELSE IF grants[n].mode = mode THEN Append(chosen[n - 1], grants[n])
        ELSE chosen[n - 1]
  IN chosen[Len(grants)]

(* Mutant of GrantMounts: in the order of the flags.                       *)
GrantMountsAsGiven(grants) == grants

(* The read-only grants are mounted first.                                 *)
GrantMounts(grants) == OfMode(grants, "ro") \o OfMode(grants, "rw")

(* What the command is started with: bwrap with its mounts in order, or    *)
(* without bwrap, on everything there is.                                  *)
BuildCommand(spec, cwd) ==
  IF spec.fs = <<Full>>
  THEN [mounts |-> <<Mount("rw", << >>)>>, net |-> spec.net]
  ELSE IF \E i \in DOMAIN spec.fs : GrantAllowsCwd(spec.fs[i], cwd)
  THEN [mounts |-> SystemMounts \o GrantMounts(spec.fs), net |-> spec.net]
  ELSE Error

-----------------------------------------------------------------------------
(* What bwrap makes of it: a mount hides what is below it, and a path is   *)
(* where the last mount above it puts it.                                  *)

Real(path) ==
  LET real[n \in 0 .. Len(path)] ==
        IF n = 0 THEN << >>
        ELSE IF path[n] = ".." THEN SubSeq(real[n - 1], 1, Len(real[n - 1]) - 1)
        ELSE Append(real[n - 1], path[n])
  IN real[Len(path)]

View(mounts, path) ==
  LET above == {i \in DOMAIN mounts : IsPrefix(Real(mounts[i].path), path)}
  IN IF above = {} THEN "nothing"
     ELSE mounts[CHOOSE i \in above : \A j \in above : j <= i].mode

Covered(grants, mode, path) ==
  \E i \in DOMAIN grants : grants[i].mode = mode /\ IsPrefix(Real(grants[i].path), path)

(* A command that is started under restricted grants can write what was    *)
(* granted for writing, whatever else was granted for reading above or     *)
(* below it, and nothing more but its own /tmp and devices; it sees what   *)
(* was granted and the system directories, and its own directory.          *)
AsGranted(flags, net, cwd, path) ==
  LET spec == ParseSandbox(flags, net, cwd)
      started == BuildCommand(spec, cwd)
      view == View(started.mounts, path)
  IN
  spec # Error /\ started # Error /\ spec.fs # <<Full>> =>
    /\ view = "rw" <=> Covered(spec.fs, "rw", path)
    /\ view = "ro" => Covered(spec.fs, "ro", path)
                        \/ \E i \in DOMAIN SystemDirs : IsPrefix(<<SystemDirs[i]>>, path)
    /\ path = cwd => view \in {"ro", "rw"}
    /\ Covered(spec.fs, "ro", path) => view \in {"ro", "rw"}

(* A command sees and writes what it was granted, wherever it looks.       *)
SandboxIsAsGranted ==
  request \in Requests =>
    \A path \in Paths : AsGranted(request.flags, request.net, request.cwd, path)
=============================================================================
