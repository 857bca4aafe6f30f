----------------------------- MODULE DesktopUI -----------------------------
(***************************************************************************)
(* language/ui.py, LanguageUI: the Tk window on the main thread, and the   *)
(* event loop with LanguageApp and the hub connection on a thread of its   *)
(* own. The threads share `_busy` (touched by Tk only), the queue of Tk's  *)
(* `after` callbacks, the loop's call_soon_threadsafe queue and the        *)
(* publisher. The loop lives as long as hub.run() does.                    *)
(***************************************************************************)
EXTENDS LanguageApp

CONSTANTS Starts,       \* what the publisher's start() may come to
          HubMayFail    \* may an exception escape from hub.run()?

ASSUME UIAssumption == Starts \subseteq StartOutcomes /\ HubMayFail \in BOOLEAN

VARIABLES
    window,             \* "starting", "failed", "open", "closing" or "destroyed"
    busy,               \* _busy
    unbusy,             \* _set_busy(False) is queued in Tk
    loop,               \* the event loop: "none", "running" or "closed"
    cancel              \* _cancel_all is queued in the loop

uiVars == <<window, busy, unbusy, loop, cancel>>
vars == <<pubVars, appVars, uiVars>>

TypeOK ==
    /\ AppTypeOK
    /\ window \in {"starting", "failed", "open", "closing", "destroyed"}
    /\ busy \in BOOLEAN /\ unbusy \in BOOLEAN /\ cancel \in BOOLEAN
    /\ loop \in {"none", "running", "closed"}

Init ==
    /\ AppInit
    /\ window = "starting" /\ busy = FALSE /\ unbusy = FALSE
    /\ loop = "none" /\ cancel = FALSE

-----------------------------------------------------------------------------
(* The Tk thread. It is inside _on_close while the publisher stops.        *)

TkFree == window \in {"open", "closing"} /\ stop_pc = "idle"

\* LanguageUI.__init__: services first, then the loop thread; what start()
\* raises leaves it before there is a window
Open ==
    \E outcome \in Starts :
        /\ window = "starting"
        /\ Start(outcome)
        /\ IF outcome = "fails" THEN window' = "failed" /\ UNCHANGED loop
           ELSE window' = "open" /\ loop' = "running"
        /\ UNCHANGED <<appVars, busy, unbusy, cancel>>

\* if self._busy: return
SubmitIgnored ==
    \E text \in Texts :
        /\ TkFree /\ busy
        /\ Ask(text, "ignored")
        /\ UNCHANGED <<pubVars, uiVars>>

\* Fault: a second request may be sent while one is in progress.
MaySend == TRUE

\* not self._busy
NotBusy == ~busy

\* _on_submit: the coroutine is handed to the loop, or run_coroutine_threadsafe
\* raises because the loop is closed; _busy is set before either
Submit ==
    \E text \in Texts :
        /\ TkFree /\ NotBusy
        /\ busy' = TRUE
        /\ Ask(text, IF loop = "running" THEN "begin" ELSE "stranded")
        /\ UNCHANGED <<pubVars, window, unbusy, loop, cancel>>

\* root.after(0, ...): _set_busy(False)
ClearBusy ==
    /\ TkFree /\ unbusy
    /\ busy' = FALSE /\ unbusy' = FALSE
    /\ UNCHANGED <<pubVars, appVars, window, loop, cancel>>

\* _on_close: cancel the loop's tasks, then stop the publisher; an exception of
\* stop() is logged
Close ==
    /\ TkFree
    /\ window' = "closing"
    /\ cancel' = (cancel \/ loop = "running")
    /\ StopBegin
    /\ UNCHANGED <<appVars, busy, unbusy, loop>>

\* the rest of publisher.stop()
Stop == StopStep /\ UNCHANGED <<appVars, uiVars>>

\* root.after(150, root.destroy); the loop thread is a daemon
Destroy ==
    /\ window = "closing" /\ TkFree
    /\ window' = "destroyed"
    /\ UNCHANGED <<pubVars, appVars, busy, unbusy, loop, cancel>>

-----------------------------------------------------------------------------
(* The loop thread.                                                        *)

LoopRuns == loop = "running" /\ window # "destroyed"

Handle == \E r \in Requests : LoopRuns /\ HandlerStep(r) /\ UNCHANGED uiVars

\* Fault: an exception of the request is not looked at.
ToldIfDone == {"done"}

\* How a coroutine ends for _on_request_done to schedule _set_busy(False)
ToldWhen == Finished

\* _on_request_done, called when the coroutine is over
RequestDone ==
    \E r \in Requests :
        /\ LoopRuns /\ LoopFree
        /\ request[r].pc \in ToldWhen /\ ~request[r].told
        /\ request' = [request EXCEPT ![r].told = TRUE]
        /\ unbusy' = TRUE
        /\ UNCHANGED <<pubVars, asked, window, busy, loop, cancel>>

\* _cancel_all: every task is cancelled, hub.run() with them; a cancelled
\* request's callback raises before it clears _busy
CancelAll ==
    /\ LoopRuns /\ LoopFree /\ cancel
    /\ EndRequests("cancelled")
    /\ loop' = "closed" /\ cancel' = FALSE
    /\ UNCHANGED <<pubVars, asked, window, busy, unbusy>>

\* _run_loop: an exception leaves hub.run(); the loop is closed under the
\* requests that are still waiting
HubFails ==
    /\ HubMayFail
    /\ LoopRuns /\ LoopFree
    /\ EndRequests("stranded")
    /\ loop' = "closed" /\ cancel' = FALSE
    /\ UNCHANGED <<pubVars, asked, window, busy, unbusy>>

\* The process has ended.
Terminated == window \in {"failed", "destroyed"} /\ UNCHANGED vars

TkStep == Open \/ ClearBusy \/ Stop \/ Destroy
LoopStep == Handle \/ RequestDone \/ CancelAll
Next == TkStep \/ LoopStep \/ SubmitIgnored \/ Submit \/ Close \/ HubFails \/ Terminated

Spec == Init /\ [][Next]_vars

\* Both threads run, and the LLM answers or its client gives up; the user owes
\* nothing, and nothing need fail.
FairSpec == Spec /\ WF_vars(TkStep) /\ WF_vars(LoopStep)

-----------------------------------------------------------------------------
\* publish() finds its socket gone only when the window is being closed: the
\* flag and the socket agree at every other time (start, stop, publish).
AssertsOnlyOnClose ==
    (\E r \in Requests : request[r].pc = "asserted") => window \in {"closing", "destroyed"}

\* When the window is gone the publisher has let go of its socket, and its flag
\* is clear unless close() raised in a stop(), which _on_close only logs
\* (_on_close, stop's try and finally).
ReleasedAtEnd == window = "destroyed" => socket = "none" /\ (enabled => raised)

\* The input line comes back after every request, however it ends, unless the
\* window or the event loop is closed (_on_submit, _on_request_done, _set_busy).
BusyClears == busy ~> ~busy \/ window \in {"closing", "destroyed"} \/ loop = "closed"

\* The input line comes back after every request even if the hub connection
\* ends with an exception (_busy: a request is in progress).
InputComesBack == busy ~> ~busy \/ window \in {"closing", "destroyed"}

\* A stop the user asks for is handed to the publisher, unless the window is
\* closed: it does not depend on what the LLM is doing.
StopIsPublished ==
    \A r \in Requests :
        IsStopIntent(request[r].text) ~>
            request[r].kind = "stop" \/ window \in {"closing", "destroyed"}
=============================================================================
