------------------------------ MODULE Renderer ------------------------------
(***************************************************************************)
(* The wheel and gacha commands of the bot (internal/modules/random) and   *)
(* the renderer service they call (renderer/src).  The routes share one    *)
(* semaphore.  A gif, and the genshin wish, are rendered by Remotion; a    *)
(* gacha wish in a tab of one shared Chrome, which may stop answering or   *)
(* exit.  A command waits longer for the renderer than a render may take,  *)
(* and falls back to text.  A tab that is left open by a render which was  *)
(* abandoned before it knew of it is not tracked.                          *)
(***************************************************************************)
EXTENDS Integers, FiniteSets

CONSTANTS Commands,      \* so many commands at a time, each with its render
          MaxRenders     \* maxConcurrentRenders

ASSUME RendererAssumption == MaxRenders \in Nat \ {0}

VARIABLES cmd,       \* the bot's handler of each command
          holding,   \* it has posted a placeholder
          shown,     \* the user has seen the result
          req,       \* its request in the renderer
          active,    \* the semaphore
          chrome     \* the shared browser

rendererVars == <<cmd, holding, shown, req, active, chrome>>

NoRender == [at |-> "none", style |-> "gif", late |-> FALSE, cut |-> FALSE, out |-> "none"]

RendererTypeOK ==
  /\ cmd \in [Commands -> {"idle", "hold", "render", "send", "delete", "edit", "reply", "done", "error"}]
  /\ holding \in [Commands -> BOOLEAN] /\ shown \in [Commands -> BOOLEAN]
  /\ req \in [Commands -> [at : {"none", "asked", "dir", "media", "browser", "target", "frames",
                                 "encode", "close", "clean", "done"},
                           style : {"gif", "gacha"}, late : BOOLEAN, cut : BOOLEAN,
                           out : {"none", "clip", "error"}]]
  /\ active \in 0..MaxRenders /\ chrome \in {"none", "launching", "up", "hung"}

RendererInit == /\ cmd = [c \in Commands |-> "idle"] /\ req = [c \in Commands |-> NoRender]
                /\ holding = [c \in Commands |-> FALSE] /\ shown = [c \in Commands |-> FALSE]
                /\ active = 0 /\ chrome = "up"
-----------------------------------------------------------------------------
\* The bot's side.  botVars are its variables, the others the renderer's.
botVars   == <<cmd, holding, shown>>
serverVars == <<req, active, chrome>>

Turn(c, from, to) == cmd[c] = from /\ cmd' = [cmd EXCEPT ![c] = to]

\* Without a renderer in the configuration the result is replied at once.
Command(c) == /\ cmd[c] \in {"idle", "done", "error"} /\ req[c].at \in {"none", "done"}
              /\ \E to \in {"hold", "reply"} : cmd' = [cmd EXCEPT ![c] = to]
              /\ holding' = [holding EXCEPT ![c] = FALSE] /\ shown' = [shown EXCEPT ![c] = FALSE]
              /\ req' = [req EXCEPT ![c] = NoRender] /\ UNCHANGED <<active, chrome>>

\* The placeholder, which may fail, and the request.
Ask(c) == /\ Turn(c, "hold", "render")
          /\ \E sent \in BOOLEAN : holding' = [holding EXCEPT ![c] = sent]
          /\ \E s \in {"gif", "gacha"} :
               req' = [req EXCEPT ![c].at = "asked", ![c].style = s]
          /\ UNCHANGED <<shown, active, chrome>>

\* replaceWheelPlaceholder: the placeholder is edited, or the result replied.
Replace(c, from) == Turn(c, from, IF holding[c] THEN "edit" ELSE "reply")

\* The clip, checked; any other answer falls back to text.
TakeAnswer(c) == /\ req[c].at = "done"
                 /\ \/ req[c].out = "clip" /\ Turn(c, "render", "send")
                    \/ Replace(c, "render")
                 /\ UNCHANGED <<holding, shown, serverVars>>

\* Mutant: a client without a time-out.
MutGiveUp(c) == FALSE /\ UNCHANGED rendererVars

\* rendererTimeout, longer than the renderer's own: it ends the wait
\* for a render that is late or that closes its tab, or that is not taken on.
GiveUp(c) == /\ req[c].late \/ req[c].at \in {"asked", "close"}
             /\ Replace(c, "render") /\ UNCHANGED <<holding, shown, serverVars>>

\* A call of Telegram that shows the result; a failed one is taken to show nothing.
Show(c, from, ok) == /\ Turn(c, from, ok) /\ shown' = [shown EXCEPT ![c] = TRUE]
                     /\ UNCHANGED <<holding, serverVars>>

Fails(c) == \/ Replace(c, "send")
            \/ Turn(c, "edit", "reply")
            \/ Turn(c, "reply", "error")

Send(c) == \/ Show(c, "send", "delete") \/ Show(c, "edit", "done") \/ Show(c, "reply", "done")
           \/ Fails(c) /\ UNCHANGED <<holding, shown, serverVars>>

\* The animation carries the result: the placeholder may go, or may stay.
DeletePlaceholder(c) == Turn(c, "delete", "done") /\ UNCHANGED <<holding, shown, serverVars>>

BotStep(c) == Ask(c) \/ TakeAnswer(c) \/ GiveUp(c) \/ Send(c) \/ DeletePlaceholder(c)
-----------------------------------------------------------------------------
\* The renderer's side.
At(c, from, to) == req[c].at = from /\ req' = [req EXCEPT ![c].at = to]

Outcome(c, from, to, out) == /\ req[c].at = from
                             /\ req' = [req EXCEPT ![c].at = to, ![c].out = out]

Rendering(c) == req[c].at \notin {"none", "asked", "done"}

\* Mutant: release is reached by a request that was refused, too.
MutReject(c) == /\ active >= MaxRenders \/ active = 0
                /\ Outcome(c, "asked", "done", "error")
                /\ active' = (IF active = 0 THEN 0 ELSE active - 1)
                /\ UNCHANGED <<chrome, botVars>>

\* Not valid, or tryAcquire fails: 400 and 429.
Reject(c) == Outcome(c, "asked", "done", "error") /\ UNCHANGED <<active, chrome, botVars>>

Accept(c) == /\ active < MaxRenders /\ At(c, "asked", "dir") /\ active' = active + 1
             /\ UNCHANGED <<chrome, botVars>>

\* The temporary directory; without it the request fails.  getBrowser shares a
\* Chrome, or the launch of one.
MakeDir(c) ==
  \/ Outcome(c, "dir", "clean", "error") /\ UNCHANGED <<active, chrome, botVars>>
  \/ /\ req[c].style = "gif" /\ At(c, "dir", "media") /\ UNCHANGED <<active, chrome, botVars>>
  \/ /\ req[c].style = "gacha"
     /\ At(c, "dir", IF chrome \in {"up", "hung"} THEN "target" ELSE "browser")
     /\ chrome' = (IF chrome = "none" THEN "launching" ELSE chrome)
     /\ UNCHANGED <<active, botVars>>

Waiters(chromeNow, to) == chrome' = chromeNow /\ req' = [c \in Commands |->
  IF req[c].at = "browser" THEN [req[c] EXCEPT !.at = to, !.out = IF to = "clean" THEN "error" ELSE "none"]
  ELSE req[c]]

Launched == /\ chrome = "launching" /\ Waiters("up", "target")
            /\ UNCHANGED <<active, botVars>>

LaunchFails == /\ chrome = "launching" /\ Waiters("none", "clean")
               /\ UNCHANGED <<active, botVars>>

\* Answers of Chrome; a render that was cut off from it gets none.
Answers(c) == /\ chrome = "up" /\ ~req[c].cut
              /\ \/ At(c, "target", "frames") \/ At(c, "frames", "encode")
                 \/ At(c, "close", "clean")
                 \/ Outcome(c, "target", "clean", "error") \/ Outcome(c, "frames", "close", "error")
              /\ UNCHANGED <<active, chrome, botVars>>

\* ffmpeg, or Remotion, which ends also when it is cancelled.
Encoded(c) == /\ \E out \in {"error"} \cup (IF req[c].late THEN {} ELSE {"clip"}) :
                   \/ Outcome(c, "media", "clean", out) \/ Outcome(c, "encode", "close", out)
              /\ UNCHANGED <<active, chrome, botVars>>

\* Mutant: the timer cancels the encoder and does not abandon the capture.
MutRenderTimeOut(c) == /\ req[c].at \in {"media", "browser", "target", "frames", "encode"}
                 /\ ~req[c].late /\ req' = [req EXCEPT ![c].late = TRUE]
                 /\ UNCHANGED <<active, chrome, botVars>>

\* The timer cancels the encoder, and abandons whatever is awaited of Chrome.
RenderTimeOut(c) ==
  /\ ~req[c].late
  /\ req' = [req EXCEPT ![c].late = TRUE,
       ![c].at = IF req[c].at \in {"browser", "target"} THEN "clean"
                 ELSE IF req[c].at = "frames" THEN "close" ELSE @,
       ![c].out = IF req[c].at \in {"browser", "target", "frames"} THEN "error" ELSE @]
  /\ req[c].at \in {"media", "browser", "target", "frames", "encode"}
  /\ UNCHANGED <<active, chrome, botVars>>

\* After the directory is removed: the answer, and finally the release.
Finish(c) == /\ \/ At(c, "clean", "done") \/ Outcome(c, "clean", "done", "error")
             /\ active' = (IF active = 0 THEN 0 ELSE active - 1)
             /\ UNCHANGED <<chrome, botVars>>

\* Chrome stops answering.
Hang == /\ chrome = "up" /\ chrome' = "hung" /\ UNCHANGED <<req, active, botVars>>

\* Its exit fails the calls that are pending; a capture may wait for an event
\* instead of a call, until the timer.  What is sent later is never answered.
CutOff(r) == IF r.at \in {"browser", "target"} THEN [r EXCEPT !.at = "clean", !.out = "error"]
             ELSE IF r.at = "close" /\ ~r.cut THEN [r EXCEPT !.at = "clean"]
             ELSE IF r.at \in {"frames", "encode"} THEN [r EXCEPT !.cut = TRUE]
             ELSE r

Exit == /\ chrome # "none" /\ chrome' = "none"
        /\ req' = [c \in Commands |-> CutOff(req[c])]
        /\ UNCHANGED <<active, botVars>>

CallFails(c) == /\ req[c].cut /\ Outcome(c, "frames", "close", "error")
                /\ UNCHANGED <<active, chrome, botVars>>

\* The renderer's process ends and its container starts again, with a Chrome.
RendererRestart == /\ active' = 0 /\ chrome' = "up"
                   /\ req' = [c \in Commands |->
                        IF req[c].at \in {"none", "done"} THEN req[c]
                        ELSE [req[c] EXCEPT !.at = "done", !.out = "error", !.cut = FALSE]]
                   /\ UNCHANGED botVars

ServerStep(c) == \/ Reject(c) \/ Accept(c) \/ MakeDir(c) \/ Answers(c) \/ Encoded(c)
                 \/ RenderTimeOut(c) \/ CallFails(c) \/ Finish(c)

RendererNext == \/ \E c \in Commands : Command(c) \/ BotStep(c) \/ ServerStep(c)
                \/ Launched \/ LaunchFails \/ Hang \/ Exit \/ RendererRestart
-----------------------------------------------------------------------------
\* How many renders run: never more than the semaphore allows, whatever is
\* refused, fails, is abandoned or is left behind by the bot (server.js:49-50).
RendersBounded == Cardinality({c \in Commands : Rendering(c)}) <= MaxRenders

\* A closeTarget that nobody will answer.
Stuck(c) == req[c].at = "close" /\ (req[c].cut \/ chrome = "hung")

\* Every render ends and gives its slot back, if need be by its timer; only
\* one whose Chrome hangs or has gone may be caught in closing its tab
\* (render-gacha.js:318-321, 365-372).
SlotsReturn == \A c \in Commands : Rendering(c) ~> ~Rendering(c) \/ Stuck(c)

\* "a slow render ends in the renderer's 504 rather than the bot abandoning a
\* render" (renderer_client.go:28-31): every render ends.
EveryRenderEnds == \A c \in Commands : Rendering(c) ~> ~Rendering(c)

\* Whoever gives a command gets its result, as a clip or as text, whatever the
\* renderer does; only when Telegram refuses the last reply, too, it is an error
\* (wheelofnames_command.go:40-66, 91-107).
ResultShown == \A c \in Commands :
  cmd[c] # "idle" ~> (cmd[c] = "done" /\ shown[c]) \/ cmd[c] = "error"

\* Node and the Go client run their timers, ffmpeg and Remotion end, a Chrome
\* that is up answers; nobody promises that a launch succeeds or that Chrome
\* stays up.
RendererFairness == \A c \in Commands : WF_rendererVars(BotStep(c)) /\ WF_rendererVars(ServerStep(c))

RendererSpec == RendererInit /\ [][RendererNext]_rendererVars /\ RendererFairness
=============================================================================
