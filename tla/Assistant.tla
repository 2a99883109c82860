------------------------------ MODULE Assistant ------------------------------
(***************************************************************************)
(* The assistant's chats in the browser: AssistantView.tsx over the chats  *)
(* kept on the device (lib/assistant-threads.ts) and the stream of         *)
(* /api/assistant/agent.  A chat is saved whole, from the memory of the    *)
(* view that shows it, each time one of its turns changes; the answer of a *)
(* turn arrives while the user moves between chats, which keeps the view   *)
(* mounted or leaves it behind with its calls still running.               *)
(***************************************************************************)
EXTENDS FiniteSets

CONSTANTS
  Threads, \* chats
  Turns,   \* requests of the user
  Nowhere, \* the empty screen /assistant: no chat yet
  Nothing  \* no turn

ASSUME AssistantAssumption == Nowhere \notin Threads /\ Nothing \notin Turns

VARIABLES
  threads, \* the chats on the device
  stored,  \* [Threads -> [Turns -> the turn's status there, or "absent"]]
  path,    \* the chat in the address bar, or Nowhere
  views,   \* [Views -> what that instance of AssistantView remembers]
  call,    \* [Turns -> the turn's request to the server, and the view that awaits it]
  home,    \* history: [Turns -> the chat it was asked in, or Nowhere]
  dropped, \* history: the turns that were discarded from their chat
  answered,\* history: turns that the agent answered in their own chat
  broken,  \* history: turns whose request then broke off there, or was stopped
  disputed,\* history: turns that changed in a chat that both views would write
  mistaken,\* history: chats that a view entered with the turns of another one
  crossed  \* history: has the mounted view had two calls in flight at once?

told == <<answered, broken>>
vars == <<threads, stored, path, views, call, home, dropped, told, disputed, mistaken, crossed>>

\* The view on the screen, and one left behind whose calls are still running.  Bound: one of those.
Views == {"mounted", "left"}
now == "mounted"

Busy == {"planning", "running"}
Statuses == Busy \union {"absent", "planned", "done", "failed"}

NoTurns == [t \in Turns |-> "absent"]
NoCall == [pc |-> "none", view |-> now]

\* A view: the chat it writes to (currentIdRef), the chat its effect last saw, whether the next
\* change of chat is its own echo (skipNextHydrateRef), its turns (turnsRef), and the turn whose
\* controller Stop would abort (inFlight).
View(c, turns) == [cur |-> c, seen |-> c, skip |-> FALSE, turns |-> turns, inFlight |-> Nothing]
Blank == View(Nowhere, NoTurns)

\* The turns whose requests the view awaits.
Live(v) == {t \in Turns : call[t].pc # "none" /\ call[t].view = v}

\* Each variable has its type, and inFlight never holds the controller of a call that is over.
TypeOK ==
  /\ threads \subseteq Threads
  /\ stored \in [Threads -> [Turns -> Statuses]]
  /\ path \in Threads \union {Nowhere}
  /\ views \in [Views -> [cur : Threads \union {Nowhere}, seen : Threads \union {Nowhere},
                          skip : BOOLEAN, turns : [Turns -> Statuses],
                          inFlight : Turns \union {Nothing}]]
  /\ call \in [Turns -> [pc : {"none", "agent", "settled", "plan", "run"}, view : Views]]
  /\ home \in [Turns -> Threads \union {Nowhere}]
  /\ dropped \subseteq Turns
  /\ answered \subseteq Turns
  /\ broken \subseteq Turns
  /\ disputed \subseteq Turns
  /\ \A v \in Views : views[v].inFlight \in Live(v) \union {Nothing}
  /\ mistaken \subseteq Threads
  /\ crossed \in BOOLEAN

Init ==
  /\ threads = {} /\ stored = [c \in Threads |-> NoTurns]
  /\ path = Nowhere
  /\ views = [v \in Views |-> Blank]
  /\ call = [t \in Turns |-> NoCall]
  /\ home = [t \in Turns |-> Nowhere]
  /\ dropped = {} /\ answered = {} /\ broken = {} /\ disputed = {} /\ mistaken = {} /\ crossed = FALSE

-----------------------------------------------------------------------------
(* What a view remembers, and what it saves.                                *)

BusyTurns(v) == {t \in Turns : views[v].turns[t] \in Busy}

\* Slip: a turn saved in mid-flight is shown as it was saved.
FromStoredAsIs(status) == status

\* A turn saved in mid-flight can never finish here.
FromStored(status) == IF status \in Busy THEN "failed" ELSE status

Hydrate(c) == IF c \in threads THEN [t \in Turns |-> FromStored(stored[c][t])] ELSE NoTurns

\* Both views remember the same chat: each saves it without what the other has changed.
Disputes(v, turns) ==
  disputed' = IF views[now].cur = views["left"].cur
                THEN disputed \union {t \in Turns : turns[t] # views[v].turns[t]} ELSE disputed

\* Slip: the turns are saved to the chat in the address bar.
SaveToPath(v, turns) ==
  /\ stored' = IF path \in threads THEN [stored EXCEPT ![path] = turns] ELSE stored
  /\ Disputes(v, turns)

\* saveThreadTurns(currentIdRef.current, ...): all turns the view has, over whatever is there.
Save(v, turns) ==
  LET c == views[v].cur IN
  /\ stored' = IF c \in threads THEN [stored EXCEPT ![c] = turns] ELSE stored
  /\ Disputes(v, turns)

\* The view's turns once t, if it is one of them, has this status.
Patched(v, t, status) ==
  [u \in Turns |-> IF u = t /\ views[v].turns[t] # "absent" THEN status ELSE views[v].turns[u]]

\* Slip: the screen is updated and the chat is not saved.
ShowOnly(t, status) ==
  LET v == call[t].view IN
  views' = [views EXCEPT ![v].turns = Patched(v, t, status)] /\ UNCHANGED <<stored, disputed>>

\* updateTurn, from the request of turn t.
UpdateTurn(t, status) ==
  LET v == call[t].view IN
  views' = [views EXCEPT ![v].turns = Patched(v, t, status)] /\ Save(v, Patched(v, t, status))

\* Slip: the controller stays in inFlight.
ReleasedInPart(t, turns) ==
  LET v == call[t].view IN
  /\ views' = [views EXCEPT ![v].turns = turns]
  /\ call' = [call EXCEPT ![t] = NoCall]

\* The request is over: inFlight is cleared if it is still this one's, and
\* a view left behind that awaits nothing more is as good as none.
Released(t, turns) ==
  LET v == call[t].view IN
  /\ views' = IF v = "left" /\ Live(v) = {t} THEN [views EXCEPT ![v] = Blank]
              ELSE [views EXCEPT ![v].turns = turns, ![v].inFlight = IF @ = t THEN Nothing ELSE @]
  /\ call' = [call EXCEPT ![t] = NoCall]

\* updateTurn, and the request is over.
End(t, status) ==
  LET v == call[t].view IN
  Released(t, Patched(v, t, status)) /\ Save(v, Patched(v, t, status))

Begin(t, pc) ==
  /\ call' = [call EXCEPT ![t] = [pc |-> pc, view |-> now]]
  /\ crossed' = (crossed \/ Live(now) # {})

-----------------------------------------------------------------------------
(* The user in the mounted view.                                            *)

\* newThreadId and randomUUID: one nobody has had yet.
Fresh(ids, used) == CHOOSE id \in ids \ used : TRUE

\* The first message of a chat creates it, and gives it its address.
SendFirst(t) ==
  LET used == {home[u] : u \in Turns}
      c == Fresh(Threads, used) IN
  /\ views[now].cur = Nowhere /\ ~Threads \subseteq used
  /\ home' = [home EXCEPT ![t] = c]
  /\ threads' = threads \union {c}
  /\ stored' = [stored EXCEPT ![c] = [NoTurns EXCEPT ![t] = "planning"]]
  /\ path' = c
  /\ views' = [views EXCEPT ![now].cur = c, ![now].skip = TRUE,
                            ![now].turns[t] = "planning", ![now].inFlight = t]
  /\ UNCHANGED disputed

\* One list for two: the one that is saved is the last render's, the one that is shown is turnsRef's.
\* They differ only between a setTurns and the render it asks for.
SendNext(t) ==
  LET turns == [views[now].turns EXCEPT ![t] = "planning"] IN
  /\ views[now].cur # Nowhere
  /\ home' = [home EXCEPT ![t] = views[now].cur]
  /\ Save(now, turns)
  /\ views' = [views EXCEPT ![now].turns = turns, ![now].inFlight = t]
  /\ UNCHANGED <<threads, path>>

\* send: the composer is there unless a turn on the screen is busy.
Send(t) ==
  /\ home[t] = Nowhere /\ t = Fresh(Turns, {u \in Turns : home[u] # Nowhere})
  /\ BusyTurns(now) = {}
  /\ SendFirst(t) \/ SendNext(t)
  /\ Begin(t, "agent")
  /\ UNCHANGED <<dropped, told, mistaken>>

\* runTurn: the button stays there while other turns are busy.  Bound: one request of a turn at a
\* time (a turn that a missed echo has put into two chats could be run in both).
Run(t) ==
  LET turns == Patched(now, t, "running") IN
  /\ views[now].turns[t] = "planned" /\ call[t].pc = "none"
  /\ views' = [views EXCEPT ![now].turns = turns, ![now].inFlight = t]
  /\ Save(now, turns)
  /\ Begin(t, "run")
  /\ UNCHANGED <<threads, path, home, dropped, told, mistaken>>

Discard(t) ==
  LET turns == Patched(now, t, "absent") IN
  /\ views[now].turns[t] = "planned"
  /\ views' = [views EXCEPT ![now].turns = turns]
  /\ Save(now, turns)
  /\ dropped' = IF views[now].cur = home[t] THEN dropped \union {t} ELSE dropped
  /\ UNCHANGED <<threads, path, call, home, told, mistaken, crossed>>

\* To another address.  The browser's history may keep the view, whose effect follows; a router
\* navigation leaves it behind, its calls still running, and mounts a new one.
Go(dest) ==
  /\ path' = dest
  /\ \/ UNCHANGED <<views, call, crossed>>
     \/ /\ Live("left") = {}
        /\ views' = [mounted |-> View(dest, Hydrate(dest)), left |-> IF Live(now) = {} THEN Blank ELSE views[now]]
        /\ call' = [t \in Turns |-> IF t \in Live(now) THEN [call[t] EXCEPT !.view = "left"] ELSE call[t]]
        /\ crossed' = FALSE

Navigate(dest) ==
  /\ dest # path /\ dest \in {home[t] : t \in Turns} \union {Nowhere}
  /\ UNCHANGED threads
  /\ Go(dest)
  /\ UNCHANGED <<stored, home, dropped, told, disputed, mistaken>>

\* From the sidebar; the chat on the screen gives way to the empty screen.
DeleteThread(c) ==
  /\ c \in threads
  /\ threads' = threads \ {c}
  /\ stored' = [stored EXCEPT ![c] = NoTurns]
  /\ IF path = c THEN Go(Nowhere) ELSE UNCHANGED <<path, views, call, crossed>>
  /\ UNCHANGED <<home, dropped, told, disputed, mistaken>>

\* The effect on a change of chat: an echo of the view's own pushState keeps the turns, any other
\* change takes them from the device.
Effect ==
  /\ views[now].seen # path
  /\ views' = [views EXCEPT ![now].cur = path, ![now].seen = path, ![now].skip = FALSE,
                            ![now].turns = IF views[now].skip THEN @ ELSE Hydrate(path)]
  /\ mistaken' = IF views[now].skip /\ path # views[now].cur
                   THEN mistaken \union ({path} \cap Threads) ELSE mistaken
  /\ UNCHANGED <<threads, stored, path, call, home, dropped, told, disputed, crossed>>

\* The page is reloaded: every view and call is gone.
Reload ==
  /\ views' = [mounted |-> View(path, Hydrate(path)), left |-> Blank]
  /\ call' = [t \in Turns |-> NoCall]
  /\ crossed' = FALSE
  /\ UNCHANGED <<threads, stored, path, home, dropped, told, disputed, mistaken>>

-----------------------------------------------------------------------------
(* The server's answers.  The stream of a turn is steps, then one "final"   *)
(* or one "error", then its end; it may break off anywhere.                 *)

Rest == <<threads, path, home, dropped, mistaken, crossed>>

Step(t) ==
  /\ call[t].pc = "agent"
  /\ UpdateTurn(t, "planning")
  /\ UNCHANGED <<Rest, call, told>>

\* The answer: the stream is read on to its end.
Final(t) ==
  /\ call[t].pc = "agent"
  /\ UpdateTurn(t, "done")
  /\ call' = [call EXCEPT ![t].pc = "settled"]
  /\ answered' = IF views[call[t].view].cur = home[t] THEN answered \union {t} ELSE answered
  /\ UNCHANGED <<Rest, broken>>

\* No runtime, or one that fails: the planner that needs none is asked instead.
AiError(t) ==
  /\ call[t].pc = "agent"
  /\ UpdateTurn(t, "planning")
  /\ call' = [call EXCEPT ![t].pc = "plan"]
  /\ UNCHANGED <<Rest, told>>

OtherError(t) ==
  /\ call[t].pc = "agent"
  /\ UpdateTurn(t, "failed")
  /\ call' = [call EXCEPT ![t].pc = "settled"]
  /\ UNCHANGED <<Rest, told>>

\* The stream ends: a turn without an answer has failed.
Close(t) ==
  /\ \/ call[t].pc = "agent" /\ End(t, "failed")
     \/ call[t].pc = "settled" /\ Released(t, views[call[t].view].turns) /\ UNCHANGED <<stored, disputed>>
  /\ UNCHANGED <<Rest, told>>

PlanAnswered(t) ==
  /\ call[t].pc = "plan"
  /\ End(t, "planned") \/ End(t, "failed")
  /\ UNCHANGED <<Rest, told>>

RunAnswered(t) ==
  /\ call[t].pc = "run"
  /\ End(t, "done") \/ End(t, "failed")
  /\ UNCHANGED <<Rest, told>>

\* The catch of send and of runTurn: whatever the turn was, it has failed.
Fails(t) ==
  /\ End(t, "failed")
  /\ broken' = IF views[call[t].view].cur = home[t] THEN broken \union {t} ELSE broken
  /\ UNCHANGED <<Rest, answered>>

\* The connection breaks, or a timer fires.
Breaks(t) == call[t].pc # "none" /\ Fails(t)

\* Slip: only the answer of the plan is timed.
PlanTimesOut(t) == call[t].pc = "plan" /\ Fails(t)

\* AGENT_TIMEOUT_MS and PLAN_TIMEOUT_MS; a run has no timer.
TimesOut(t) == call[t].pc \in {"agent", "settled", "plan"} /\ Fails(t)

\* Stop aborts the controller in inFlight; the button is there while a turn is busy.
Stop ==
  /\ BusyTurns(now) # {} /\ views[now].inFlight # Nothing
  /\ Fails(views[now].inFlight)

-----------------------------------------------------------------------------
User(t) == Send(t) \/ Run(t) \/ Discard(t)

Answer(t) ==
  Step(t) \/ Final(t) \/ AiError(t) \/ OtherError(t) \/ Close(t) \/ PlanAnswered(t) \/ RunAnswered(t)
  \/ Breaks(t)

Next ==
  \/ \E t \in Turns : User(t) \/ Answer(t)
  \/ \E dest \in Threads \union {Nowhere} : Navigate(dest)
  \/ \E c \in Threads : DeleteThread(c)
  \/ Effect \/ Reload \/ Stop

Spec == Init /\ [][Next]_vars

\* Timers fire, and a run is answered: the route runs the pipeline, whose calls end.
FairSpec == Spec /\ \A t \in Turns : WF_vars(TimesOut(t)) /\ WF_vars(RunAnswered(t))

-----------------------------------------------------------------------------
(* Properties.                                                              *)

\* The composer is never locked for ever: a turn that the mounted view shows as busy has a call
\* that this view awaits, and Stop reaches it, unless two calls were in flight at once (Run beside
\* a busy turn, or a message sent while another chat's answer was on its way).
BusyTurnsCanBeStopped ==
  \A t \in BusyTurns(now) :
    /\ t \in Live(now)
    /\ views[now].inFlight = t \/ crossed

\* A chat on the device has only turns that were asked in it, and all of them but for the discarded
\* ones.  A view left behind, which saves its older turns over what the mounted view has done since,
\* can lose or bring back nothing but turns that changed while both had the chat.  A chat that a view
\* took for the echo of its own new one is past help; no other chat is.
ChatsKeepTheirTurns ==
  \A c \in threads \ mistaken : \A t \in Turns :
    /\ stored[c][t] # "absent" => home[t] = c
    /\ t \notin disputed => (stored[c][t] # "absent" <=> home[t] = c /\ t \notin dropped)

\* An answer of the agent that arrived in its own chat is kept with the chat, wherever the user has
\* gone since.  When the connection breaks between the answer and the end of the stream, the turn says
\* that it has failed; it is never busy again, planned or gone.  The exceptions are those above.
AnswersAreKept ==
  \A t \in answered \ disputed :
    home[t] \in threads \ mistaken =>
      stored[home[t]][t] = IF t \in broken THEN "failed" ELSE "done"

\* The composer comes back, whatever becomes of the answer.
ComposerComesBack == []<>(BusyTurns(now) = {})
=============================================================================
