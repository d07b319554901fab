----------------------------- MODULE MCCommands -----------------------------
(* Texts: a is 1ax, h1 is 1ab..., h2 begins with 1c, part is 1a.           *)
EXTENDS Commands, Sandbox

CONSTANTS a, part, h1, h2

MCTarget == Hash \cup ExplicitName \cup {part, 3}

MCPrefix == ({1} \X {a, h1, h2}) \cup ({part} \X {a, h1})

-----------------------------------------------------------------------------
(* Directories, as paths and as they may be written in a flag.             *)

MCPart == {"home", "me", "src", "usr", "lib", "tmp", "x"}

Dirs == {<< >>, <<"home">>, <<"home", "me">>, <<"home", "me", "src">>,
         <<"usr">>, <<"usr", "lib">>, <<"tmp", "x">>}

MCWritten ==
  [absolute : {TRUE}, parts : Dirs]
    \cup [absolute : {FALSE}, parts : {<< >>, <<"src">>, <<"..">>}]

Flags == [mode : {"ro", "rw"}, path : MCWritten] \cup {Full, Invalid}

FlagLists == {<< >>} \cup {<<f>> : f \in Flags} \cup (Flags \X Flags)

(* What new is given: flags for up to two grants, in any order, and the    *)
(* directory it is called from.  They are parsed before there is a session *)
(* and mean the same whatever the registry holds, so that each is looked   *)
(* at by itself, where nothing else happens.                               *)
MCRequests == [flags : FlagLists, net : {"absent", "on", "off", "other"},
               cwd : Dirs \ {<< >>}]

MCInit == CommandsInit /\ request \in Requests \cup {None}

MCNext == request = None /\ CommandsNext /\ UNCHANGED request

MCSpec == MCInit /\ [][MCNext]_<<allVars, request>> /\ WF_allVars(CommandStep)
=============================================================================
