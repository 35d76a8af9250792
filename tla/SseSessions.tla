---------------------------- MODULE SseSessions ----------------------------
(***************************************************************************)
(* The requests of one extension host side by side: the registry that the  *)
(* Stop command goes through, the one response panel they all share, the   *)
(* Stop button's message channel and the cached SSE transcript             *)
(* (runRequest and streamSseResponse in src/extension/extension.ts,        *)
(* src/extension/responseView.ts, src/core/sse/streamControl.ts).          *)
(*                                                                         *)
(* A step is what runs between two awaits.  The transport is abstract      *)
(* here: a live stream delivers events until it is stopped and settles at  *)
(* any time, which is what SseTransport implements.                        *)
(***************************************************************************)
EXTENDS Naturals, FiniteSets

CONSTANTS
  Sessions,     \* the requests a user sends
  Nobody,       \* undefined
  MaxPreviews,  \* bound: gRPC previews shown
  MaxDelivered  \* bound: events one stream delivers

ASSUME SessionsAssumption ==
  /\ Nobody \notin Sessions /\ "plain" \notin Sessions
  /\ MaxPreviews \in Nat /\ MaxDelivered \in Nat

VARIABLES
  phase,        \* where each runRequest call is parked
  aborted,      \* stream.signal.aborted
  active,       \* SseStreamRegistry.active
  events,       \* transcriptRecords.length of each stream
  panel,        \* the shared panel: the turn that created it, 0 for undefined
  enabled,      \* the panel was created with enableScripts
  panelScripts, \* the flag that is meant to say so: ssePanelScripts
  owner,        \* ssePanelOwner
  listener,     \* sseMsgSub
  subscribed,   \* sessions whose message subscription is not disposed
  handle,       \* the panel each session's render handle was made for
  shown,        \* the page in the panel
  turn,         \* history: how many views have taken the panel
  previews,     \* gRPC previews among them
  clicks,       \* Stop messages posted by a page and not yet delivered
  lastTranscript, \* lastSseTranscript, named by its session
  offered,      \* the transcript each save prompt is about
  saved         \* history: the last transcript saved, and whose prompt did

panelVars == <<panel, enabled, panelScripts, owner, listener, subscribed,
               handle, shown, turn, previews>>
cacheVars == <<lastTranscript, offered, saved>>
sessionsVars == <<phase, aborted, active, events, panelVars, clicks, cacheVars>>

Phases == {"idle", "requesting", "reading", "text", "rejected", "headers",
           "streaming", "prompting", "done"}

\* A page: whose view it is, which take of the panel that view made, and
\* whether it has a Stop button.
Page == [by : Sessions \cup {"plain", Nobody}, turn : Nat, button : BOOLEAN]
NoPage == [by |-> Nobody, turn |-> 0, button |-> FALSE]

Handle == [panel : Nat, turn : Nat]

SessionsInit ==
  /\ phase = [s \in Sessions |-> "idle"]
  /\ aborted = [s \in Sessions |-> FALSE]
  /\ active = {}
  /\ events = [s \in Sessions |-> 0]
  /\ panel = 0 /\ enabled = FALSE /\ panelScripts = FALSE
  /\ owner = Nobody /\ listener = Nobody /\ subscribed = {}
  /\ handle = [s \in Sessions |-> [panel |-> 0, turn |-> 0]]
  /\ shown = NoPage /\ turn = 0 /\ previews = 0
  /\ clicks = {}
  /\ lastTranscript = Nobody
  /\ offered = [s \in Sessions |-> Nobody]
  /\ saved = [by |-> Nobody, of |-> Nobody]

----------------------------------------------------------------------------
(* The shared panel.                                                       *)

\* Faulty variant: the flag is not lowered with the panel it describes.
TakePanelKeepsFlag(scripts) ==
  /\ turn' = turn + 1
  /\ panelScripts' = (panelScripts \/ scripts)
  /\ IF panel # 0 /\ panelScripts = scripts
     THEN UNCHANGED <<panel, enabled>>
     ELSE panel' = turn + 1 /\ enabled' = scripts

\* A scripts-enabled panel is never reused for a plain page, nor the other
\* way round: it is replaced by a new one, and messages to it are lost.
TakePanel(scripts) ==
  /\ turn' = turn + 1
  /\ panelScripts' = scripts
  /\ IF panel # 0 /\ panelScripts = scripts
     THEN UNCHANGED <<panel, enabled>>
     ELSE panel' = turn + 1 /\ enabled' = scripts

\* renderResponse and renderGrpcInfo.
RenderPlain ==
  /\ TakePanel(FALSE)
  /\ shown' = [by |-> "plain", turn |-> turn + 1, button |-> FALSE]
  /\ UNCHANGED <<owner, listener, subscribed, handle>>

\* renderSseResponse: the newest session takes the panel over, and the
\* superseded one stops listening at once.
RenderSse(s) ==
  /\ TakePanel(TRUE)
  /\ owner' = s /\ listener' = s
  /\ subscribed' = (subscribed \ {listener}) \cup {s}
  /\ handle' = [handle EXCEPT ![s] = [panel |-> panel', turn |-> turn + 1]]
  /\ shown' = [by |-> s, turn |-> turn + 1, button |-> TRUE]

\* Faulty variant: a session paints as long as its panel is there.
OwnsPanelUnchecked(s) == panel # 0 /\ panel = handle[s].panel

\* A session paints only while its own panel is the current one and no newer
\* session has taken it over.
OwnsPanel(s) == panel # 0 /\ panel = handle[s].panel /\ owner = s

\* SseRenderHandle.update.
Paint(s, streaming) ==
  shown' = IF OwnsPanel(s)
           THEN [by |-> s, turn |-> handle[s].turn, button |-> streaming]
           ELSE shown

\* Faulty variant: the subscription outlives the session.
DisposeKeepsListening(s) ==
  /\ owner' = IF owner = s THEN Nobody ELSE owner
  /\ UNCHANGED <<subscribed, listener>>

\* SseRenderHandle.dispose.
Dispose(s) ==
  /\ subscribed' = subscribed \ {s}
  /\ listener' = IF listener = s THEN Nobody ELSE listener
  /\ owner' = IF owner = s THEN Nobody ELSE owner

\* The user closes the panel: onDidDispose; messages to it are lost.
ClosePanel ==
  /\ panel # 0
  /\ panel' = 0 /\ enabled' = FALSE
  /\ panelScripts' = IF enabled THEN FALSE ELSE panelScripts
  /\ shown' = NoPage
  /\ UNCHANGED <<phase, aborted, active, events, owner, listener, subscribed,
                 handle, turn, previews, clicks, cacheVars>>

\* Send Request on a .grpc file only previews the request.
PreviewGrpc ==
  /\ previews < MaxPreviews
  /\ previews' = previews + 1
  /\ RenderPlain
  /\ UNCHANGED <<phase, aborted, active, events, clicks, cacheVars>>

----------------------------------------------------------------------------
(* runRequest, up to the response.                                         *)

\* The session is registered before the request goes out.
Send(s) ==
  /\ phase[s] = "idle"
  /\ phase' = [phase EXCEPT ![s] = "requesting"]
  /\ active' = active \cup {s}
  /\ UNCHANGED <<aborted, events, panelVars, clicks, cacheVars>>

\* The response headers: an event stream, or a response whose text is read.
HeadersArrive(s) ==
  /\ phase[s] = "requesting" /\ ~aborted[s]
  /\ \E next \in {"headers", "reading"} : phase' = [phase EXCEPT ![s] = next]
  /\ UNCHANGED <<aborted, active, events, panelVars, clicks, cacheVars>>

TextArrives(s) ==
  /\ phase[s] = "reading" /\ ~aborted[s]
  /\ phase' = [phase EXCEPT ![s] = "text"]
  /\ UNCHANGED <<aborted, active, events, panelVars, clicks, cacheVars>>

\* The request or its body fails, by itself or because it was aborted.
RequestFails(s) ==
  /\ phase[s] \in {"requesting", "reading"}
  /\ phase' = [phase EXCEPT ![s] = "rejected"]
  /\ UNCHANGED <<aborted, active, events, panelVars, clicks, cacheVars>>

\* Faulty variant: no finally block releases the registration.
LeaveRegistered(s) ==
  /\ phase' = [phase EXCEPT ![s] = "done"]
  /\ UNCHANGED active

\* stream.release() in the finally block.
Leave(s) ==
  /\ phase' = [phase EXCEPT ![s] = "done"]
  /\ active' = active \ {s}

ShowResponse(s) ==
  /\ phase[s] = "text"
  /\ RenderPlain /\ Leave(s)
  /\ UNCHANGED <<aborted, events, previews, clicks, cacheVars>>

\* The catch block: a failure the user asked for is not shown.
HandleFailure(s) ==
  /\ phase[s] = "rejected"
  /\ IF aborted[s]
     THEN UNCHANGED panelVars
     ELSE RenderPlain /\ UNCHANGED previews
  /\ Leave(s)
  /\ UNCHANGED <<aborted, events, clicks, cacheVars>>

----------------------------------------------------------------------------
(* streamSseResponse.                                                      *)

StartStream(s) ==
  /\ phase[s] = "headers"
  /\ phase' = [phase EXCEPT ![s] = "streaming"]
  /\ RenderSse(s)
  /\ lastTranscript' = Nobody
  /\ UNCHANGED <<aborted, active, events, previews, clicks, offered, saved>>

\* onEvent: the transport calls it for no stream that was stopped.
DeliverEvent(s) ==
  /\ phase[s] = "streaming" /\ ~aborted[s]
  /\ events[s] < MaxDelivered
  /\ events' = [events EXCEPT ![s] = @ + 1]
  /\ Paint(s, TRUE)
  /\ UNCHANGED <<phase, aborted, active, panel, enabled, panelScripts, owner,
                 listener, subscribed, handle, turn, previews, clicks,
                 cacheVars>>

\* buildLastSseTranscript: nothing is cached for a stream without events.
Transcript(s) == IF events[s] = 0 THEN Nobody ELSE s

\* The transport settles: the last paint, the end of the channel and of the
\* registration come before the user is asked about the transcript.
StreamEnds(s) ==
  /\ phase[s] = "streaming"
  /\ Paint(s, FALSE) /\ Dispose(s)
  /\ lastTranscript' = Transcript(s)
  /\ active' = active \ {s}
  /\ IF lastTranscript' = Nobody
     THEN phase' = [phase EXCEPT ![s] = "done"] /\ UNCHANGED offered
     ELSE /\ phase' = [phase EXCEPT ![s] = "prompting"]
          /\ offered' = [offered EXCEPT ![s] = lastTranscript']
  /\ UNCHANGED <<aborted, events, panel, enabled, panelScripts, handle, turn,
                 previews, clicks, saved>>

\* The transport throws: the same, but the user is told and not asked.
StreamFails(s) ==
  /\ phase[s] = "streaming"
  /\ lastTranscript' = Transcript(s)
  /\ Paint(s, FALSE) /\ Dispose(s)
  /\ Leave(s)
  /\ UNCHANGED <<aborted, events, panel, enabled, panelScripts, handle, turn,
                 previews, clicks, offered, saved>>

\* Faulty variant: the prompt's answer saves whatever is cached by then.
AnswerPromptFromCache(s) ==
  /\ phase[s] = "prompting"
  /\ phase' = [phase EXCEPT ![s] = "done"]
  /\ saved' \in {saved, [by |-> s, of |-> lastTranscript]}
  /\ UNCHANGED <<aborted, active, events, panelVars, clicks, lastTranscript,
                 offered>>

\* The user saves the transcript the prompt is about, or dismisses it.
AnswerPrompt(s) ==
  /\ phase[s] = "prompting"
  /\ phase' = [phase EXCEPT ![s] = "done"]
  /\ saved' \in {saved, [by |-> s, of |-> offered[s]]}
  /\ UNCHANGED <<aborted, active, events, panelVars, clicks, lastTranscript,
                 offered>>

----------------------------------------------------------------------------
(* Stopping.                                                               *)

\* The Stop button of the page posts that page's token, and disables itself.
Click ==
  /\ panel # 0 /\ shown.button
  /\ clicks' = clicks \cup {[panel |-> panel, token |-> shown.by]}
  /\ shown' = [shown EXCEPT !.button = FALSE]
  /\ UNCHANGED <<phase, aborted, active, events, panel, enabled, panelScripts,
                 owner, listener, subscribed, handle, turn, previews,
                 cacheVars>>

\* Faulty variant: any stop message stops the session that listens.
HeedsUntokened(s, c) ==
  /\ s \in subscribed /\ panel = c.panel /\ handle[s].panel = panel
  /\ owner = s /\ phase[s] = "streaming"

\* What the listener of a session checks before it acts on a message.
Heeds(s, c) ==
  /\ s \in subscribed /\ panel = c.panel /\ handle[s].panel = panel
  /\ c.token = s
  /\ owner = s /\ phase[s] = "streaming"

\* A posted message reaches every subscription of its panel, if that is
\* still there; abort() is idempotent and only for the registered.
DeliverClick(c) ==
  /\ c \in clicks
  /\ clicks' = clicks \ {c}
  /\ LET hit == {s \in active : Heeds(s, c)}
     IN  /\ aborted' = [s \in Sessions |-> aborted[s] \/ s \in hit]
         /\ active' = active \ hit
  /\ UNCHANGED <<phase, events, panelVars, cacheVars>>

\* The palette command, and deactivate: stopActive().
StopAll ==
  /\ active # {}
  /\ aborted' = [s \in Sessions |-> aborted[s] \/ s \in active]
  /\ active' = {}
  /\ UNCHANGED <<phase, events, panelVars, clicks, cacheVars>>

----------------------------------------------------------------------------
Quiet == (\A s \in Sessions : phase[s] = "done") /\ UNCHANGED sessionsVars

Step(s) ==
  \/ Send(s) \/ HeadersArrive(s) \/ TextArrives(s) \/ RequestFails(s)
  \/ ShowResponse(s) \/ HandleFailure(s) \/ StartStream(s) \/ DeliverEvent(s)
  \/ StreamEnds(s) \/ StreamFails(s) \/ AnswerPrompt(s)

SessionsNext ==
  \/ \E s \in Sessions : Step(s)
  \/ \E c \in clicks : DeliverClick(c)
  \/ Click \/ StopAll \/ ClosePanel \/ PreviewGrpc \/ Quiet

SessionsSpec == SessionsInit /\ [][SessionsNext]_sessionsVars

----------------------------------------------------------------------------
(* Properties.                                                             *)

\* Every variable has its type.
SessionsTypeOK ==
  /\ phase \in [Sessions -> Phases]
  /\ aborted \in [Sessions -> BOOLEAN]
  /\ active \subseteq Sessions
  /\ events \in [Sessions -> Nat]
  /\ panel \in Nat /\ turn \in Nat /\ previews \in Nat
  /\ enabled \in BOOLEAN /\ panelScripts \in BOOLEAN
  /\ owner \in Sessions \cup {Nobody} /\ listener \in Sessions \cup {Nobody}
  /\ subscribed \subseteq Sessions
  /\ handle \in [Sessions -> Handle]
  /\ shown \in Page
  /\ clicks \subseteq [panel : Nat, token : Sessions]
  /\ lastTranscript \in Sessions \cup {Nobody}
  /\ offered \in [Sessions -> Sessions \cup {Nobody}]
  /\ saved \in [by : Sessions \cup {Nobody}, of : Sessions \cup {Nobody}]

Underway(s) == phase[s] \notin {"idle", "prompting", "done"}

\* The Stop command reaches every request under way, whatever it is waiting
\* for, and never one that has ended, such as a stream whose save prompt is
\* still open: the registry holds exactly those not stopped yet.
RegistryIsExact == active = {s \in Sessions : Underway(s) /\ ~aborted[s]}

\* However panels are closed, replaced and handed over, only the session
\* that owns the panel listens to it, and a session that has ended neither
\* owns the panel nor listens.
OneLiveListener ==
  /\ subscribed = IF owner = Nobody THEN {} ELSE {owner}
  /\ owner # Nobody => phase[owner] = "streaming"

\* A page with a Stop button is in a panel that runs its script, and a plain
\* page in one that runs none, although the option cannot be read back.
ScriptsMatchPage ==
  panel # 0 => enabled = (shown.by \in Sessions)

\* Only the newest view paints: once a newer request shows its response, an
\* older stream that is still delivering never draws over it.
NewestViewPaints ==
  [][shown' # shown /\ shown'.by # Nobody => shown'.turn = turn']_sessionsVars

\* A message from a Stop button stops no session but the one whose page the
\* user clicked, even if it arrives after the panel was handed over.
ClickStopsItsSession ==
  [][\A c \in clicks \ clicks' : \A s \in Sessions :
       aborted'[s] # aborted[s] => s = c.token]_sessionsVars

\* A prompt saves the transcript it asked about, although other streams
\* start and end while it is open.
PromptSavesItsOwn == saved.of = saved.by
=============================================================================
