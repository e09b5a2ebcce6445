----------------------------- MODULE MCServices -----------------------------
(***************************************************************************)
(* What runs beside the commands, explored side by side in one run: the    *)
(* export of a novel, one run of the process from start to shutdown, and   *)
(* the storage tasks of starts that fail.  They share nothing; part says   *)
(* which of them moves, the others stay in one of their initial states.    *)
(***************************************************************************)
EXTENDS NovelExport, Lifecycle, StartupStore

VARIABLE part

serviceVars == <<part, exportVars, lifeVars, startupVars>>

\* One goroutine for each page, of a novel that grows to so many chapters.
MCCallers == 0..Last

\* The initial state in which the tasks of a start wait.
StartupRest == StartupInit /\ task = "sticker" /\ \A d \in Docs : ~doc[d].exists

ServicesInit ==
  \/ part = "export" /\ ExportInit /\ LifeInit /\ StartupRest
  \/ part = "life" /\ ExportInit /\ LifeInit /\ StartupRest
  \/ part = "startup" /\ ExportInit /\ LifeInit /\ StartupInit

ServicesNext ==
  \/ part = "export" /\ ExportNext /\ UNCHANGED <<part, lifeVars, startupVars>>
  \/ part = "life" /\ LifeNext /\ UNCHANGED <<part, exportVars, startupVars>>
  \/ part = "startup" /\ StartupNext /\ UNCHANGED <<part, exportVars, lifeVars>>

\* The fairness of each part, while it is the one that moves.
ServicesFairness ==
  /\ WF_exportVars(part = "export" /\ JobStep)
  /\ WF_lifeVars(part = "life" /\ MainStep) /\ WF_lifeVars(part = "life" /\ JobEnds)
  /\ SF_lifeVars(part = "life" /\ Tick(TRUE))
  /\ \A f \in Flushers : WF_lifeVars(part = "life" /\ FlushStep(f))
  /\ WF_startupVars(part = "startup" /\ StartStep)

ServicesSpec == ServicesInit /\ [][ServicesNext]_serviceVars /\ ServicesFairness
-----------------------------------------------------------------------------
\* A start that was interrupted is resumed by a later one, unless a portfolio
\* does not validate (main.go:260-300, stock startup.go:102-105).
InterruptedStartsResume == part = "startup" => StartsResume
=============================================================================
