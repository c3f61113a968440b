-------------------------- MODULE MCSgfxScheduler --------------------------
(* Two jobs that share an arena, one of them with a CPU update.            *)
EXTENDS SgfxScheduler

CONSTANTS j1, j2

MCChunks == [j \in Jobs |-> CASE j = j1 -> <<"commands", "commands">>
                              [] j = j2 -> <<"cpu", "commands">>]
=============================================================================
