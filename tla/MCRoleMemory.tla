------------------------------ MODULE MCRoleMemory ------------------------------
(* Two reviews of one repository: the first with two runs of a worker and its *)
(* Lead, the second with one run of the worker.                               *)
EXTENDS RoleMemory

CONSTANTS t1, t2, security, long, error

MCRuns == 1 .. 4
MCTaskOf == <<t1, t1, t1, t2>>
MCRoleOf == <<security, security, Lead, security>>

MCCallTokens == <<2, 2, 2, 3>>

(* Two errors fit into the observations' budget of 128, a long output only   *)
(* when it is summarised twice.                                              *)
MCRaw == long :> 2000 @@ error :> 60
MCShort == long :> 140 @@ error :> 70
MCAgain == long :> 60 @@ error :> 50
MCMemory == long :> 375 @@ error :> 60

(* Two large hunks, and one that fits beside one of them.  The Lead, to whom  *)
(* they are the same risk, has them by path.                                  *)
MCHunkTokens == <<900, 650, 30>>
MCPath == <<2, 1, 1>>
MCRisk == security :> <<35, 20, 5>> @@ Lead :> <<1, 1, 1>>
(* What a role is told beside the diff.  The Lead decides about four          *)
(* candidates, which leave no room for a row of memory; a worker has room for *)
(* two errors, but not beside a long row.                                    *)
MCTaskTexts == security :> <<100>> @@ Lead :> <<60>>
MCCandidates == security :> <<>> @@ Lead :> <<400, 200, 90, 90>>
MCInputLimit == security :> 1000 @@ Lead :> 512
MCToolTokens == security :> 650 @@ Lead :> 4
MCDiffOf == t1 :> <<1, 2, 3>> @@ t2 :> <<3>>
===============================================================================
