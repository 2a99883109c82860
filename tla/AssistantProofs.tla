--------------------------- MODULE AssistantProofs ---------------------------
(***************************************************************************)
(* Proofs about Assistant: for any chats and any requests.                 *)
(***************************************************************************)
EXTENDS Assistant, TLAPS

\* The mounted view is at the chat its effect saw last, or at one it made itself and whose echo is
\* to come; a view of no chat has no turns.
ViewPhase ==
  /\ views[now].skip => views[now].seen = Nowhere /\ views[now].cur # Nowhere
  /\ ~views[now].skip => views[now].seen = views[now].cur
  /\ views[now].cur = Nowhere => views[now].turns = NoTurns

\* A chat that nobody was asked anything in yet is in no address and in no view.
HomePhase ==
  \A c \in Threads : (\A t \in Turns : home[t] # c) => path # c /\ \A v \in Views : views[v].cur # c

\* A call is of a turn that was sent, and once answered it shows its turn as busy no more.
CallPhase ==
  \A t \in Turns :
    /\ call[t].pc # "none" => home[t] # Nowhere
    /\ call[t].pc = "settled" => views[call[t].view].turns[t] \notin Busy

\* Stop reaches the only call of the mounted view, which awaits each turn it shows as busy.
StopPhase ==
  /\ \A t \in Live(now) : views[now].inFlight = t \/ crossed
  /\ BusyTurns(now) \subseteq Live(now)

\* No view and no chat on the device has the turn with this status.
NoCopy(t, status) ==
  /\ \A v \in Views : views[v].turns[t] # status
  /\ \A c \in Threads : stored[c][t] # status

\* A turn is planned only once the agent has given up on it, and done only once somebody answered;
\* only planned turns are discarded.
Stage(t) ==
  /\ home[t] = Nowhere \/ call[t].pc \in {"agent", "settled"} \/ t \in answered => NoCopy(t, "planned")
  /\ home[t] = Nowhere \/ call[t].pc = "agent" => NoCopy(t, "done")
  /\ t \in answered => home[t] # Nowhere /\ call[t].pc \in {"none", "settled"} /\ t \notin dropped
  /\ t \in broken => home[t] # Nowhere /\ call[t].pc \in {"none", "run"}
  /\ t \in dropped => home[t] # Nowhere /\ call[t].pc # "agent"

PlanPhase == \A t \in Turns : Stage(t)

\* A copy of chat c, on the device or in a view, may have turn t with this status.
Fits(status, t, c) ==
  /\ status # "absent" => home[t] = c
  /\ t \notin disputed =>
       /\ status # "absent" <=> home[t] = c /\ t \notin dropped
       /\ t \in answered /\ home[t] = c => status = IF t \in broken THEN "failed" ELSE "done"

\* The views have of their chats what the device has of them, up to what is disputed.
ScreenPhase ==
  \A v \in Views : views[v].cur \in threads \ mistaken =>
    \A t \in Turns : Fits(views[v].turns[t], t, views[v].cur)

ChatPhase == \A c \in threads \ mistaken : \A t \in Turns : Fits(stored[c][t], t, c)

IInv ==
  /\ TypeOK /\ ViewPhase /\ HomePhase /\ CallPhase /\ StopPhase /\ PlanPhase
  /\ ScreenPhase /\ ChatPhase

ViewType == [cur : Threads \union {Nowhere}, seen : Threads \union {Nowhere}, skip : BOOLEAN,
             turns : [Turns -> Statuses], inFlight : Turns \union {Nothing}]

-----------------------------------------------------------------------------
(* Chats, and what is saved over them.                                      *)

\* Fits after the step.
WillFit(status, t, c) ==
  /\ status # "absent" => home'[t] = c
  /\ t \notin disputed' =>
       /\ status # "absent" <=> home'[t] = c /\ t \notin dropped'
       /\ t \in answered' /\ home'[t] = c => status = IF t \in broken' THEN "failed" ELSE "done"

\* The step tells nothing new of turn t.
SameHistory(t) ==
  /\ home'[t] = home[t] /\ (t \in dropped' <=> t \in dropped) /\ (t \in answered' <=> t \in answered)
  /\ t \in answered => (t \in broken' <=> t \in broken)

\* A view saves its chat after a change of one turn: every copy still fits its chat.  A copy in the
\* other view does because the turn is disputed from now on.
LEMMA TurnChanges ==
  ASSUME NEW t \in Turns, NEW v \in Views, NEW turns \in [Turns -> Statuses],
         TypeOK, ScreenPhase, ChatPhase, Save(v, turns), UNCHANGED <<threads, mistaken>>,
         \A u \in Turns : u # t => turns[u] = views[v].turns[u] /\ SameHistory(u),
         \A w \in Views : \/ views'[w].cur = Nowhere
                          \/ /\ views'[w].cur = views[w].cur
                             /\ views'[w].turns = IF w = v THEN turns ELSE views[w].turns,
         home'[t] = home[t] \/ home[t] = Nowhere,
         home'[t] # views[v].cur => SameHistory(t),
         views[v].cur \in threads \ mistaken =>
           /\ WillFit(turns[t], t, views[v].cur)
           /\ t \notin disputed' => SameHistory(t) \/ turns[t] # views[v].turns[t]
  PROVE  ScreenPhase' /\ ChatPhase'
<1> DEFINE cur == views[v].cur
<1>1. /\ \A c \in threads : stored'[c] = IF c = cur THEN turns ELSE stored[c]
      /\ disputed \subseteq disputed' /\ threads \subseteq Threads /\ Nowhere \notin Threads
      /\ \A w \in Views, u \in Turns :
           w # v /\ views[w].cur = cur /\ turns[u] # views[v].turns[u] => u \in disputed'
  BY AssistantAssumption DEF Save, Disputes, TypeOK, Views, now
<1>2. ASSUME cur \in threads \ mistaken, NEW u \in Turns
      PROVE  WillFit(turns[u], u, cur)
  <2>1. CASE u = t
    BY <1>2, <2>1
  <2>2. CASE u # t
    <3>1. Fits(views[v].turns[u], u, cur)
      BY <1>2 DEF ScreenPhase
    <3> QED
      BY <3>1, <2>2, <1>1 DEF Fits, WillFit, SameHistory
  <2> QED
    BY <2>1, <2>2
<1>3. ASSUME NEW c \in threads \ mistaken, c # cur, NEW u \in Turns, NEW x, Fits(x, u, c)
      PROVE  WillFit(x, u, c)
  <2>1. CASE SameHistory(u)
    BY <1>3, <2>1, <1>1 DEF Fits, WillFit, SameHistory
  <2>2. CASE ~SameHistory(u)
    <3>1. u = t /\ home'[t] = cur /\ home[t] \in {cur, Nowhere}
      BY <2>2
    <3> QED
      BY <3>1, <1>3, <1>1 DEF Fits, WillFit
  <2> QED
    BY <2>1, <2>2
<1>4. ASSUME NEW w \in Views, w # v, views[w].cur = cur, cur \in threads \ mistaken, NEW u \in Turns
      PROVE  WillFit(views[w].turns[u], u, cur)
  <2>1. Fits(views[w].turns[u], u, cur)
    BY <1>4 DEF ScreenPhase
  <2>2. CASE SameHistory(u)
    BY <2>1, <2>2, <1>1 DEF Fits, WillFit, SameHistory
  <2>3. CASE ~SameHistory(u)
    <3>1. u = t /\ u \in disputed'
      BY <2>3, <1>4, <1>1
    <3>2. home[u] = cur => home'[u] = cur
      BY <3>1, <1>4, <1>1
    <3> QED
      BY <2>1, <3>1, <3>2 DEF Fits, WillFit
  <2> QED
    BY <2>2, <2>3
<1> HIDE DEF cur
<1>5. ChatPhase'
  <2> SUFFICES ASSUME NEW c \in threads \ mistaken, NEW u \in Turns
               PROVE  WillFit(stored'[c][u], u, c)
    BY DEF ChatPhase, Fits, WillFit
  <2>1. CASE c = cur
    BY <2>1, <1>1, <1>2
  <2>2. CASE c # cur
    <3>1. Fits(stored[c][u], u, c)
      BY DEF ChatPhase
    <3> QED
      BY <3>1, <2>2, <1>1, <1>3
  <2> QED
    BY <2>1, <2>2
<1>6. ScreenPhase'
  <2> SUFFICES ASSUME NEW w \in Views, views'[w].cur \in threads \ mistaken, NEW u \in Turns
               PROVE  WillFit(views'[w].turns[u], u, views'[w].cur)
    BY DEF ScreenPhase, Fits, WillFit
  <2>1. /\ views'[w].cur = views[w].cur
        /\ views'[w].turns = IF w = v THEN turns ELSE views[w].turns
    BY <1>1
  <2>2. CASE w = v
    BY <2>1, <2>2, <1>2 DEF cur
  <2>3. CASE w # v /\ views[w].cur = cur
    BY <2>1, <2>3, <1>4
  <2>4. CASE w # v /\ views[w].cur # cur
    <3>1. Fits(views[w].turns[u], u, views[w].cur)
      BY <2>1 DEF ScreenPhase
    <3> QED
      BY <3>1, <2>1, <2>4, <1>3
  <2> QED
    BY <2>2, <2>3, <2>4
<1> QED
  BY <1>5, <1>6

LEMMA HydrateType ==
  ASSUME NEW c \in Threads \union {Nowhere}, TypeOK
  PROVE  /\ Hydrate(c) \in [Turns -> Statuses]
         /\ \A t \in Turns : Hydrate(c)[t] \notin Busy
         /\ \A t \in Turns : Hydrate(c)[t] \in {"planned", "done"} => c \in Threads /\ stored[c][t] = Hydrate(c)[t]
         /\ Hydrate(Nowhere) = NoTurns
  BY AssistantAssumption DEF TypeOK, Hydrate, FromStored, Busy, Statuses, NoTurns

\* A view that takes its chat from the device has what the device has of it.
LEMMA Hydrated ==
  ASSUME NEW c \in threads \ mistaken, NEW t \in Turns, TypeOK, ChatPhase
  PROVE  Fits(Hydrate(c)[t], t, c)
<1>1. /\ Hydrate(c)[t] = FromStored(stored[c][t]) /\ Fits(stored[c][t], t, c)
      /\ stored[c][t] \in Statuses
  BY DEF Hydrate, ChatPhase, TypeOK
<1> QED
  BY <1>1 DEF FromStored, Fits, Busy, Statuses

LEMMA PatchedType ==
  ASSUME NEW v \in Views, NEW t \in Turns, NEW s \in Statuses, TypeOK
  PROVE  /\ Patched(v, t, s) \in [Turns -> Statuses]
         /\ \A u \in Turns : u # t => Patched(v, t, s)[u] = views[v].turns[u]
         /\ views[v].turns[t] = "absent" => Patched(v, t, s) = views[v].turns
         /\ views[v].turns[t] # "absent" => Patched(v, t, s)[t] = s
  <1>1. views[v].turns \in [Turns -> Statuses]
    BY DEF TypeOK
  <1> QED
    BY <1>1 DEF Patched

-----------------------------------------------------------------------------
(* The request of a turn: its stream goes on, or it ends.                   *)

\* The agent's answer to turn t came to a view of its chat.
AnswerTold(t) ==
  /\ answered' = IF views[call[t].view].cur = home[t] THEN answered \union {t} ELSE answered
  /\ UNCHANGED broken

\* Turn t broke off in a view of its chat.
BreakTold(t) ==
  /\ broken' = IF views[call[t].view].cur = home[t] THEN broken \union {t} ELSE broken
  /\ UNCHANGED answered

\* The stream goes on: the turn is shown as s, and its request is at p.
Streams(t, p, s) ==
  /\ call[t].pc = "agent" /\ UpdateTurn(t, s)
  /\ call' = [call EXCEPT ![t].pc = p]
  /\ UNCHANGED Rest
  /\ \/ p \in {"agent", "plan"} /\ s = "planning" /\ UNCHANGED told
     \/ p = "settled" /\ s = "failed" /\ UNCHANGED told
     \/ p = "settled" /\ s = "done" /\ AnswerTold(t)

\* The request ends: the turn is shown as s.
Ends(t, s) ==
  /\ call[t].pc # "none" /\ End(t, s)
  /\ UNCHANGED Rest
  /\ \/ s = "failed" /\ BreakTold(t)
     \/ s \in {"done", "failed"} /\ call[t].pc # "settled" /\ UNCHANGED told
     \/ s = "planned" /\ call[t].pc = "plan" /\ UNCHANGED told

\* What both have in common, as far as chats and views go.
LEMMA ShownOnDevice ==
  ASSUME NEW t \in Turns, NEW s \in {"planning", "planned", "done", "failed"}, IInv,
         call[t].pc # "none", UNCHANGED Rest,
         Save(call[t].view, Patched(call[t].view, t, s)),
         \A w \in Views : \/ views'[w].cur = Nowhere
                          \/ /\ views'[w].cur = views[w].cur
                             /\ views'[w].turns = IF w = call[t].view THEN Patched(w, t, s) ELSE views[w].turns,
         \/ UNCHANGED told /\ call[t].pc # "settled"
         \/ AnswerTold(t) /\ s = "done" /\ call[t].pc = "agent"
         \/ BreakTold(t) /\ s = "failed"
  PROVE  ScreenPhase' /\ ChatPhase'
<1> DEFINE v == call[t].view
           turns == Patched(v, t, s)
           cur == views[v].cur
<1>1. /\ v \in Views /\ turns \in [Turns -> Statuses]
      /\ \A u \in Turns : u # t => turns[u] = views[v].turns[u]
      /\ turns[t] = IF views[v].turns[t] = "absent" THEN "absent" ELSE s
  <2>1. v \in Views /\ s \in Statuses
    BY DEF IInv, TypeOK, Statuses, Busy
  <2>2. views[v].turns \in [Turns -> Statuses]
    BY <2>1 DEF IInv, TypeOK
  <2> HIDE DEF v
  <2> QED
    BY <2>1, <2>2 DEF Patched
<1>2. UNCHANGED <<threads, mistaken, home, dropped>> /\ disputed \subseteq disputed'
  BY DEF Rest, Save, Disputes
<1>3. \A u \in Turns : u # t => SameHistory(u)
  BY <1>2 DEF told, AnswerTold, BreakTold, SameHistory
<1>4. home[t] # cur => SameHistory(t)
  BY <1>2 DEF told, AnswerTold, BreakTold, SameHistory
<1>5. Stage(t)
  BY DEF IInv, PlanPhase
<1>6. ASSUME cur \in threads \ mistaken
      PROVE  /\ WillFit(turns[t], t, cur)
             /\ t \notin disputed' => SameHistory(t) \/ turns[t] # views[v].turns[t]
  <2>1. Fits(views[v].turns[t], t, cur)
    BY <1>1, <1>6 DEF IInv, ScreenPhase
  <2>2. NoCopy(t, "done") => views[v].turns[t] # "done"
    BY <1>1 DEF NoCopy
  <2> HIDE DEF v, turns, cur
  <2>3. CASE UNCHANGED told /\ call[t].pc # "settled"
    BY <2>1, <2>3, <1>1, <1>2, <1>5 DEF told, Fits, WillFit, SameHistory, Stage
  <2>4. CASE AnswerTold(t) /\ s = "done" /\ call[t].pc = "agent"
    BY <2>1, <2>2, <2>4, <1>1, <1>2, <1>5 DEF AnswerTold, Fits, WillFit, SameHistory, Stage, v, cur
  <2>5. CASE BreakTold(t) /\ s = "failed"
    BY <2>1, <2>5, <1>1, <1>2, <1>5 DEF BreakTold, Fits, WillFit, SameHistory, Stage, v, cur
  <2> QED
    BY <2>3, <2>4, <2>5
<1>7. \A w \in Views : \/ views'[w].cur = Nowhere
                       \/ /\ views'[w].cur = views[w].cur
                          /\ views'[w].turns = IF w = v THEN turns ELSE views[w].turns
  OBVIOUS
<1>8. Save(v, turns)
  OBVIOUS
<1> HIDE DEF v, turns
<1> QED
  BY <1>1, <1>2, <1>3, <1>4, <1>6, <1>7, <1>8, TurnChanges DEF IInv

LEMMA Streaming ==
  ASSUME NEW t \in Turns, NEW p, NEW s, IInv, Streams(t, p, s)
  PROVE  IInv'
<1> DEFINE v == call[t].view
           turns == Patched(v, t, s)
<1>1. /\ p \in {"agent", "plan", "settled"} /\ s \in {"planning", "done", "failed"}
      /\ v \in Views /\ views \in [Views -> ViewType] /\ s \in Statuses
  BY DEF Streams, IInv, TypeOK, Statuses, Busy, ViewType
<1>2. /\ turns \in [Turns -> Statuses]
      /\ \A u \in Turns : u # t => turns[u] = views[v].turns[u]
      /\ turns[t] \in {s, "absent"}
      /\ views[v].turns = NoTurns => turns = NoTurns
  <2>1. views[v].turns \in [Turns -> Statuses]
    BY <1>1 DEF ViewType
  <2> QED
    BY <2>1, <1>1 DEF Patched, NoTurns, Statuses
<1>3. views' = [views EXCEPT ![v].turns = turns] /\ Save(v, turns)
  BY DEF Streams, UpdateTurn
<1>4. /\ views' \in [Views -> ViewType]
      /\ \A w \in Views : /\ views'[w].cur = views[w].cur
                          /\ views'[w].seen = views[w].seen
                          /\ views'[w].skip = views[w].skip
                          /\ views'[w].inFlight = views[w].inFlight
                          /\ views'[w].turns = IF w = v THEN turns ELSE views[w].turns
                          /\ w # v => views'[w] = views[w]
  <2> HIDE DEF turns, v
  <2> QED
    BY <1>1, <1>2, <1>3 DEF ViewType
<1>5. /\ call \in [Turns -> [pc : {"none", "agent", "settled", "plan", "run"}, view : Views]]
      /\ call' \in [Turns -> [pc : {"none", "agent", "settled", "plan", "run"}, view : Views]]
      /\ \A u \in Turns : call'[u].view = call[u].view /\ call'[u].pc = IF u = t THEN p ELSE call[u].pc
      /\ call[t].pc = "agent"
  BY <1>1 DEF Streams, IInv, TypeOK
<1>6. /\ UNCHANGED Rest /\ UNCHANGED broken
      /\ p # "settled" => answered' = answered
      /\ answered' \in {answered, answered \union {t}}
      /\ p = "settled" <=> s # "planning"
  <2>1. UNCHANGED told \/ (AnswerTold(t) /\ p = "settled")
    BY DEF Streams
  <2>2. UNCHANGED broken /\ answered' \in {answered, answered \union {t}}
    BY <2>1 DEF told, AnswerTold
  <2>3. p # "settled" => answered' = answered
    BY <2>1 DEF told
  <2> QED
    BY <2>2, <2>3 DEF Streams
<1>7. /\ stored' \in [Threads -> [Turns -> Statuses]] /\ disputed' \subseteq Turns
      /\ \A c \in Threads : stored'[c] = stored[c] \/ stored'[c] = turns
  <2> HIDE DEF turns, v
  <2> QED
    BY <1>2, <1>3 DEF Save, Disputes, IInv, TypeOK
<1> HIDE DEF turns, v
<1>8. \A w \in Views : Live(w)' = Live(w)
  BY <1>5, <1>1 DEF Live
<1>9. TypeOK'
  <2>1. /\ threads' \subseteq Threads /\ path' \in Threads \union {Nowhere}
        /\ home' \in [Turns -> Threads \union {Nowhere}]
        /\ dropped' \subseteq Turns /\ answered' \subseteq Turns /\ broken' \subseteq Turns
        /\ mistaken' \subseteq Threads /\ crossed' \in BOOLEAN
    BY <1>6 DEF Rest, IInv, TypeOK
  <2>2. \A w \in Views : views'[w].inFlight \in Live(w)' \union {Nothing}
    BY <1>8, <1>4 DEF IInv, TypeOK
  <2> QED
    BY <1>4, <1>5, <1>7, <2>1, <2>2 DEF TypeOK, ViewType, Views
<1>10. ViewPhase'
  BY <1>4, <1>2 DEF IInv, ViewPhase, Views, now
<1>11. CallPhase'
  <2> SUFFICES ASSUME NEW u \in Turns
               PROVE  /\ call'[u].pc # "none" => home'[u] # Nowhere
                      /\ call'[u].pc = "settled" => views'[call'[u].view].turns[u] \notin Busy
    BY DEF CallPhase
  <2>1. call[u].view \in Views /\ call'[u].view = call[u].view /\ home' = home
    BY <1>5, <1>6 DEF Rest
  <2>2. CASE u = t
    BY <2>1, <2>2, <1>1, <1>2, <1>4, <1>5, <1>6 DEF IInv, CallPhase, Busy, v
  <2>3. CASE u # t
    BY <2>1, <2>3, <1>2, <1>4, <1>5 DEF IInv, CallPhase
  <2> QED
    BY <2>2, <2>3
<1>12. StopPhase'
  <2>1. \A u \in Live(now)' : views'[now].inFlight = u \/ crossed'
    BY <1>4, <1>6, <1>8 DEF IInv, StopPhase, Rest, Views, now
  <2>2. BusyTurns(now)' \subseteq Live(now)'
    <3> SUFFICES ASSUME NEW u \in Turns, views'[now].turns[u] \in Busy PROVE u \in Live(now)
      BY <1>8 DEF BusyTurns, Views, now
    <3>1. CASE v = now /\ u = t
      BY <3>1, <1>5 DEF Live, v
    <3>2. CASE ~(v = now /\ u = t)
      BY <3>2, <1>4, <1>2 DEF IInv, StopPhase, BusyTurns, Views, now
    <3> QED
      BY <3>1, <3>2
  <2> QED
    BY <2>1, <2>2 DEF StopPhase
<1>13. PlanPhase'
  <2> SUFFICES ASSUME NEW u \in Turns PROVE Stage(u)'
    BY DEF PlanPhase
  <2>1. \A r : (u # t \/ r # s) /\ r # "absent" /\ NoCopy(u, r) => NoCopy(u, r)'
    BY <1>1, <1>2, <1>4, <1>7 DEF NoCopy
  <2>2. Stage(u) /\ home[t] # Nowhere
    BY <1>5 DEF IInv, PlanPhase, CallPhase
  <2>3. CASE u = t
    BY <2>1, <2>2, <2>3, <1>1, <1>5, <1>6 DEF Rest, Stage
  <2>4. CASE u # t
    BY <2>1, <2>2, <2>4, <1>5, <1>6 DEF Rest, Stage
  <2> QED
    BY <2>3, <2>4
<1>14. ScreenPhase' /\ ChatPhase'
  <2>1. \A w \in Views : /\ views'[w].cur = views[w].cur
                         /\ views'[w].turns = IF w = call[t].view THEN Patched(w, t, s) ELSE views[w].turns
    BY <1>4 DEF v, turns
  <2>2. Save(call[t].view, Patched(call[t].view, t, s))
    BY <1>3 DEF v, turns
  <2>3. /\ s \in {"planning", "planned", "done", "failed"} /\ UNCHANGED Rest
        /\ \/ UNCHANGED told
           \/ AnswerTold(t) /\ s = "done"
    BY <1>1 DEF Streams
  <2> QED
    BY <1>5, <2>1, <2>2, <2>3, ShownOnDevice
<1>15. HomePhase'
  BY <1>4, <1>6 DEF Rest, IInv, HomePhase
<1> QED
  BY <1>9, <1>10, <1>11, <1>12, <1>13, <1>14, <1>15 DEF IInv

CallType == [pc : {"none", "agent", "settled", "plan", "run"}, view : Views]

\* A request is over: its view awaits it no more, and Stop cannot reach it.
LEMMA Releasing ==
  ASSUME NEW t \in Turns, TypeOK, call[t].pc # "none",
         NEW turns \in [Turns -> Statuses], Released(t, turns)
  PROVE  /\ views' \in [Views -> ViewType] /\ call' \in [Turns -> CallType]
         /\ call'[t] = NoCall
         /\ \A u \in Turns : u # t => call'[u] = call[u]
         /\ \A w \in Views : /\ Live(w)' = Live(w) \ {t}
                             /\ views'[w].inFlight \in Live(w)' \union {Nothing}
                             /\ w # call[t].view => views'[w] = views[w]
                             /\ w = call[t].view =>
                                  \/ views'[w].cur = Nowhere /\ views'[w].turns = NoTurns
                                  \/ views'[w].cur = views[w].cur /\ views'[w].turns = turns
         /\ call[t].view = now =>
              /\ views'[now].cur = views[now].cur
              /\ views'[now].seen = views[now].seen
              /\ views'[now].skip = views[now].skip
              /\ views'[now].turns = turns
              /\ views'[now].inFlight = IF views[now].inFlight = t THEN Nothing ELSE views[now].inFlight
<1> DEFINE v == call[t].view
<1>1. /\ views \in [Views -> ViewType] /\ call \in [Turns -> CallType]
      /\ v \in Views /\ Blank \in ViewType /\ Blank.inFlight = Nothing /\ Blank.turns = NoTurns /\ Blank.cur = Nowhere
      /\ NoCall \in CallType /\ NoCall.pc = "none"
  BY DEF TypeOK, ViewType, CallType, Blank, View, NoTurns, NoCall, Statuses, Views, now
<1>2. call' = [call EXCEPT ![t] = NoCall]
  BY DEF Released
<1>3. /\ call' \in [Turns -> CallType] /\ call'[t] = NoCall
      /\ \A u \in Turns : u # t => call'[u] = call[u]
  BY <1>1, <1>2
<1>4. \A w \in Views : Live(w)' = Live(w) \ {t}
  BY <1>1, <1>3 DEF Live
<1>5. CASE v = "left" /\ Live(v) = {t}
  <2>1. views' = [views EXCEPT ![v] = Blank]
    BY <1>5 DEF Released
  <2>2. \A w \in Views : views'[w] = IF w = v THEN Blank ELSE views[w]
    BY <2>1, <1>1
  <2>3. views' \in [Views -> ViewType]
    BY <2>1, <1>1
  <2>4. \A w \in Views : views'[w].inFlight \in Live(w)' \union {Nothing}
    <3> SUFFICES ASSUME NEW w \in Views PROVE views'[w].inFlight \in Live(w)' \union {Nothing}
      OBVIOUS
    <3>1. CASE w = v
      BY <3>1, <2>2, <1>1
    <3>2. CASE w # v
      BY <3>2, <2>2, <1>4, <1>5, <1>1 DEF TypeOK, Live
    <3> QED
      BY <3>1, <3>2
  <2> HIDE DEF v
  <2>5. v # now
    BY <1>5 DEF now
  <2> QED
    BY <2>2, <2>3, <2>4, <2>5, <1>1, <1>3, <1>4 DEF v
<1>6. CASE ~(v = "left" /\ Live(v) = {t})
  <2> DEFINE left == IF views[v].inFlight = t THEN Nothing ELSE views[v].inFlight
  <2>1. views' = [views EXCEPT ![v].turns = turns, ![v].inFlight = left]
    BY <1>6, <1>1 DEF Released, ViewType
  <2>2. left \in Turns \union {Nothing}
    BY <1>1 DEF ViewType
  <2> HIDE DEF v, left
  <2>3. /\ views' \in [Views -> ViewType]
        /\ \A w \in Views : w # v => views'[w] = views[w]
        /\ views'[v].cur = views[v].cur /\ views'[v].seen = views[v].seen
        /\ views'[v].skip = views[v].skip /\ views'[v].turns = turns /\ views'[v].inFlight = left
    BY <2>1, <2>2, <1>1 DEF ViewType
  <2>4. \A w \in Views : views'[w].inFlight \in Live(w)' \union {Nothing}
    <3> SUFFICES ASSUME NEW w \in Views PROVE views'[w].inFlight \in Live(w)' \union {Nothing}
      OBVIOUS
    <3>1. CASE w = v
      BY <3>1, <2>3, <1>4 DEF TypeOK, left
    <3>2. CASE w # v
      BY <3>2, <2>3, <1>4 DEF TypeOK, Live, v
    <3> QED
      BY <3>1, <3>2
  <2> QED
    BY <2>3, <2>4, <1>1, <1>3, <1>4 DEF v, left
<1> QED
  BY <1>5, <1>6

LEMMA Ending ==
  ASSUME NEW t \in Turns, NEW s, IInv, Ends(t, s)
  PROVE  IInv'
<1> DEFINE v == call[t].view
           turns == Patched(v, t, s)
<1>1. /\ s \in {"planned", "done", "failed"} /\ s \in Statuses /\ v \in Views
      /\ views[v].turns \in [Turns -> Statuses] /\ call[t].pc # "none"
  BY DEF Ends, IInv, TypeOK, Statuses, Busy
<1>2. /\ turns \in [Turns -> Statuses]
      /\ \A u \in Turns : u # t => turns[u] = views[v].turns[u]
      /\ turns[t] \in {s, "absent"}
      /\ views[v].turns = NoTurns => turns = NoTurns
  <2> HIDE DEF v
  <2> QED
    BY <1>1 DEF Patched, NoTurns
<1>3. Released(t, turns) /\ Save(v, turns)
  BY DEF Ends, End
<1>4. /\ UNCHANGED <<Rest, answered>>
      /\ broken' = broken \/ broken' = broken \union {t}
      /\ s = "planned" => call[t].pc = "plan"
  BY <1>1 DEF Ends, told, BreakTold
<1>5. /\ stored' \in [Threads -> [Turns -> Statuses]] /\ disputed' \subseteq Turns
      /\ \A c \in Threads : stored'[c] = stored[c] \/ stored'[c] = turns
  <2> HIDE DEF turns, v
  <2> QED
    BY <1>2, <1>3 DEF Save, Disputes, IInv, TypeOK
<1> HIDE DEF turns, v
<1>6. /\ views' \in [Views -> ViewType] /\ call' \in [Turns -> CallType]
      /\ call'[t] = NoCall
      /\ \A u \in Turns : u # t => call'[u] = call[u]
      /\ \A w \in Views : /\ Live(w)' = Live(w) \ {t}
                          /\ views'[w].inFlight \in Live(w)' \union {Nothing}
                          /\ w # v => views'[w] = views[w]
                          /\ w = v => \/ views'[w].cur = Nowhere /\ views'[w].turns = NoTurns
                                      \/ views'[w].cur = views[w].cur /\ views'[w].turns = turns
      /\ v = now =>
           /\ views'[now].cur = views[now].cur
           /\ views'[now].seen = views[now].seen
           /\ views'[now].skip = views[now].skip
           /\ views'[now].turns = turns
           /\ views'[now].inFlight = IF views[now].inFlight = t THEN Nothing ELSE views[now].inFlight
  BY <1>1, <1>2, <1>3, Releasing DEF IInv, v
<1>7. NoCall.pc = "none" /\ now \in Views
  BY DEF NoCall, Views, now
<1>8. TypeOK'
  <2>1. /\ threads' \subseteq Threads /\ path' \in Threads \union {Nowhere}
        /\ home' \in [Turns -> Threads \union {Nowhere}]
        /\ dropped' \subseteq Turns /\ answered' \subseteq Turns /\ broken' \subseteq Turns
        /\ mistaken' \subseteq Threads /\ crossed' \in BOOLEAN
    BY <1>4 DEF Rest, IInv, TypeOK
  <2> QED
    BY <1>5, <1>6, <2>1 DEF TypeOK, ViewType, CallType
<1>9. ViewPhase'
  BY <1>2, <1>6, <1>7 DEF IInv, ViewPhase
<1>10. CallPhase'
  <2> SUFFICES ASSUME NEW u \in Turns
               PROVE  /\ call'[u].pc # "none" => home'[u] # Nowhere
                      /\ call'[u].pc = "settled" => views'[call'[u].view].turns[u] \notin Busy
    BY DEF CallPhase
  <2>1. call[u].view \in Views /\ home' = home /\ NoTurns[u] \notin Busy
    BY <1>4 DEF Rest, IInv, TypeOK, NoTurns, Busy
  <2>2. CASE u = t
    BY <2>2, <1>6, <1>7
  <2>3. CASE u # t
    BY <2>1, <2>3, <1>2, <1>6 DEF IInv, CallPhase
  <2> QED
    BY <2>2, <2>3
<1>11. StopPhase'
  <2>1. \A u \in Live(now)' : views'[now].inFlight = u \/ crossed'
    BY <1>4, <1>6, <1>7 DEF IInv, StopPhase, Rest
  <2>2. BusyTurns(now)' \subseteq Live(now)'
    <3> SUFFICES ASSUME NEW u \in Turns, views'[now].turns[u] \in Busy PROVE u \in Live(now) \ {t}
      BY <1>6, <1>7 DEF BusyTurns, now
    <3>1. v = now => u # t
      BY <1>1, <1>2, <1>6 DEF Busy
    <3>2. views[now].turns[u] \in Busy
      BY <3>1, <1>2, <1>6, <1>7
    <3>3. u \in Live(now)
      BY <3>2 DEF IInv, StopPhase, BusyTurns
    <3> QED
      BY <3>1, <3>3 DEF Live, v
  <2> QED
    BY <2>1, <2>2 DEF StopPhase
<1>12. PlanPhase'
  <2> SUFFICES ASSUME NEW u \in Turns PROVE Stage(u)'
    BY DEF PlanPhase
  <2>1. ASSUME NEW r, u # t \/ r # s, r # "absent", NoCopy(u, r)
        PROVE  NoCopy(u, r)'
    <3>1. turns[u] # r /\ NoTurns[u] # r
      BY <2>1, <1>1, <1>2 DEF NoCopy, NoTurns
    <3> QED
      BY <2>1, <3>1, <1>5, <1>6 DEF NoCopy
  <2>2. Stage(u) /\ home[t] # Nowhere
    BY <1>1 DEF IInv, PlanPhase, CallPhase
  <2>3. CASE u = t
    BY <2>1, <2>2, <2>3, <1>1, <1>4, <1>6, <1>7 DEF Rest, Stage
  <2>4. CASE u # t
    BY <2>1, <2>2, <2>4, <1>4, <1>6 DEF Rest, Stage
  <2> QED
    BY <2>3, <2>4
<1>13. ScreenPhase' /\ ChatPhase'
  <2>1. \A w \in Views : \/ views'[w].cur = Nowhere
                         \/ /\ views'[w].cur = views[w].cur
                            /\ views'[w].turns = IF w = call[t].view THEN Patched(w, t, s) ELSE views[w].turns
    BY <1>6 DEF v, turns
  <2>2. Save(call[t].view, Patched(call[t].view, t, s))
    BY <1>3 DEF v, turns
  <2>3. /\ s \in {"planning", "planned", "done", "failed"} /\ UNCHANGED Rest
        /\ \/ UNCHANGED told /\ call[t].pc # "settled"
           \/ BreakTold(t) /\ s = "failed"
    BY <1>1 DEF Ends
  <2> QED
    BY <1>1, <2>1, <2>2, <2>3, ShownOnDevice
<1>14. HomePhase'
  <2>1. \A w \in Views : views'[w].cur \in {views[w].cur, Nowhere}
    BY <1>6
  <2> QED
    BY <2>1, <1>4, AssistantAssumption DEF Rest, IInv, HomePhase
<1> QED
  BY <1>8, <1>9, <1>10, <1>11, <1>12, <1>13, <1>14 DEF IInv

\* The stream of an answered turn ends.
LEMMA Closing ==
  ASSUME NEW t \in Turns, IInv, call[t].pc = "settled", Released(t, views[call[t].view].turns),
         UNCHANGED <<stored, disputed, Rest, told>>
  PROVE  IInv'
<1> DEFINE v == call[t].view
           turns == views[v].turns
<1>1. v \in Views /\ turns \in [Turns -> Statuses] /\ turns[t] \notin Busy
  BY DEF IInv, TypeOK, CallPhase
<1>2. Released(t, turns)
  OBVIOUS
<1> HIDE DEF turns, v
<1>3. /\ views' \in [Views -> ViewType] /\ call' \in [Turns -> CallType]
      /\ call'[t] = NoCall
      /\ \A u \in Turns : u # t => call'[u] = call[u]
      /\ \A w \in Views : /\ Live(w)' = Live(w) \ {t}
                          /\ views'[w].inFlight \in Live(w)' \union {Nothing}
                          /\ w # v => views'[w] = views[w]
                          /\ w = v => \/ views'[w].cur = Nowhere /\ views'[w].turns = NoTurns
                                      \/ views'[w].cur = views[w].cur /\ views'[w].turns = turns
      /\ v = now =>
           /\ views'[now].cur = views[now].cur
           /\ views'[now].seen = views[now].seen
           /\ views'[now].skip = views[now].skip
           /\ views'[now].turns = turns
           /\ views'[now].inFlight = IF views[now].inFlight = t THEN Nothing ELSE views[now].inFlight
  BY <1>1, <1>2, Releasing DEF IInv, v
<1>4. NoCall.pc = "none" /\ now \in Views
  BY DEF NoCall, Views, now
<1>5. /\ views'[now].cur = views[now].cur /\ views'[now].seen = views[now].seen
      /\ views'[now].skip = views[now].skip /\ views'[now].turns = views[now].turns
  BY <1>3, <1>4 DEF turns
<1>6. TypeOK'
  <2>1. /\ threads' \subseteq Threads /\ path' \in Threads \union {Nowhere}
        /\ home' \in [Turns -> Threads \union {Nowhere}] /\ stored' \in [Threads -> [Turns -> Statuses]]
        /\ mistaken' \subseteq Threads /\ disputed' \subseteq Turns
        /\ dropped' \subseteq Turns /\ answered' \subseteq Turns /\ broken' \subseteq Turns
        /\ crossed' \in BOOLEAN
    BY DEF Rest, told, IInv, TypeOK
  <2> QED
    BY <1>3, <2>1 DEF TypeOK, ViewType, CallType
<1>7. ViewPhase'
  BY <1>5 DEF IInv, ViewPhase
<1>8. CallPhase'
  <2> SUFFICES ASSUME NEW u \in Turns
               PROVE  /\ call'[u].pc # "none" => home'[u] # Nowhere
                      /\ call'[u].pc = "settled" => views'[call'[u].view].turns[u] \notin Busy
    BY DEF CallPhase
  <2>1. call[u].view \in Views /\ home' = home /\ NoTurns[u] \notin Busy
    BY DEF Rest, IInv, TypeOK, NoTurns, Busy
  <2>2. CASE u = t
    BY <2>2, <1>3, <1>4
  <2>3. CASE u # t
    BY <2>1, <2>3, <1>3 DEF IInv, CallPhase, turns
  <2> QED
    BY <2>2, <2>3
<1>9. StopPhase'
  <2>1. \A u \in Live(now)' : views'[now].inFlight = u \/ crossed'
    BY <1>3, <1>4 DEF IInv, StopPhase, Rest
  <2>2. BusyTurns(now)' \subseteq Live(now)'
    <3> SUFFICES ASSUME NEW u \in Turns, views[now].turns[u] \in Busy PROVE u \in Live(now) \ {t}
      BY <1>3, <1>4, <1>5 DEF BusyTurns, now
    <3>1. u \in Live(now)
      BY DEF IInv, StopPhase, BusyTurns
    <3>2. v = now => u # t
      BY <1>1 DEF turns
    <3> QED
      BY <3>1, <3>2 DEF Live, v
  <2> QED
    BY <2>1, <2>2 DEF StopPhase
<1>10. PlanPhase'
  <2> SUFFICES ASSUME NEW u \in Turns PROVE Stage(u)'
    BY DEF PlanPhase
  <2>1. ASSUME NEW r, r # "absent", NoCopy(u, r)
        PROVE  NoCopy(u, r)'
    <3>1. turns[u] # r /\ NoTurns[u] # r
      BY <2>1, <1>1 DEF NoCopy, NoTurns, turns
    <3> QED
      BY <2>1, <3>1, <1>3 DEF NoCopy
  <2>2. call'[u].pc \in {"none", call[u].pc}
    BY <1>3, <1>4
  <2> QED
    BY <2>1, <2>2 DEF Rest, told, IInv, PlanPhase, Stage
<1>11. \A w \in Views : \/ views'[w].cur = Nowhere
                        \/ views'[w].cur = views[w].cur /\ views'[w].turns = views[w].turns
  BY <1>3 DEF turns
<1>12. ScreenPhase' /\ ChatPhase'
  <2>1. \A w \in Views : views'[w].cur \in threads \ mistaken
          => views'[w].cur = views[w].cur /\ views'[w].turns = views[w].turns
    BY <1>11, AssistantAssumption DEF IInv, TypeOK
  <2>2. ScreenPhase'
    BY <2>1 DEF Rest, told, IInv, ScreenPhase, Fits
  <2>3. ChatPhase'
    BY DEF Rest, told, IInv, ChatPhase, Fits
  <2> QED
    BY <2>2, <2>3
<1>13. HomePhase'
  BY <1>11, AssistantAssumption DEF Rest, IInv, HomePhase
<1> QED
  BY <1>6, <1>7, <1>8, <1>9, <1>10, <1>12, <1>13 DEF IInv

-----------------------------------------------------------------------------
(* The user sends, runs and discards.                                       *)

LEMMA Beginning ==
  ASSUME NEW t \in Turns, NEW pc \in {"agent", "run"}, TypeOK, call[t].pc = "none", Begin(t, pc)
  PROVE  /\ call' \in [Turns -> CallType]
         /\ call'[t].pc = pc /\ call'[t].view = now
         /\ \A u \in Turns : u # t => call'[u] = call[u]
         /\ Live(now)' = Live(now) \union {t} /\ Live("left")' = Live("left")
         /\ crossed' \in BOOLEAN
         /\ crossed \/ Live(now) # {} => crossed'
<1>1. call \in [Turns -> CallType] /\ call' = [call EXCEPT ![t] = [pc |-> pc, view |-> now]]
  BY DEF TypeOK, CallType, Begin
<1>2. /\ call' \in [Turns -> CallType] /\ call'[t] = [pc |-> pc, view |-> now]
      /\ \A u \in Turns : u # t => call'[u] = call[u]
  BY <1>1 DEF CallType, Views, now
<1>3. Live(now)' = Live(now) \union {t} /\ Live("left")' = Live("left")
  BY <1>2 DEF Live, now
<1> QED
  BY <1>2, <1>3 DEF Begin, TypeOK

\* Stop reaches the request that has just begun.
LEMMA Stoppable ==
  ASSUME NEW t \in Turns, IInv, Live(now)' = Live(now) \union {t}, views'[now].inFlight = t,
         crossed \/ Live(now) # {} => crossed',
         \A u \in Turns : views'[now].turns[u] \in Busy => u = t \/ views[now].turns[u] \in Busy
  PROVE  StopPhase'
<1>1. \A u \in Live(now)' : views'[now].inFlight = u \/ crossed'
  OBVIOUS
<1>2. BusyTurns(now)' \subseteq Live(now)'
  BY DEF BusyTurns, IInv, StopPhase, now
<1> QED
  BY <1>1, <1>2 DEF StopPhase

LEMMA Sending ==
  ASSUME NEW t \in Turns, IInv, Send(t), SendNext(t)
  PROVE  IInv'
<1> DEFINE turns == [views[now].turns EXCEPT ![t] = "planning"]
           cur == views[now].cur
<1>1. /\ home[t] = Nowhere /\ call[t].pc = "none" /\ NoCopy(t, "planned") /\ NoCopy(t, "done")
      /\ t \notin answered /\ t \notin broken /\ t \notin dropped /\ BusyTurns(now) = {}
  BY DEF Send, IInv, TypeOK, CallPhase, PlanPhase, Stage
<1>2. /\ views \in [Views -> ViewType] /\ now \in Views /\ views[now].turns \in [Turns -> Statuses]
      /\ cur \in Threads
  BY DEF IInv, TypeOK, ViewType, Views, now, SendNext
<1>3. /\ turns \in [Turns -> Statuses] /\ turns[t] = "planning"
      /\ \A u \in Turns : u # t => turns[u] = views[now].turns[u]
  BY <1>2 DEF Statuses, Busy
<1>4. /\ home' = [home EXCEPT ![t] = cur] /\ Save(now, turns)
      /\ views' = [views EXCEPT ![now].turns = turns, ![now].inFlight = t]
      /\ UNCHANGED <<threads, path, dropped, told, mistaken>> /\ Begin(t, "agent")
  BY DEF SendNext, Send
<1> HIDE DEF turns
<1>5. /\ views' \in [Views -> ViewType]
      /\ views'[now].cur = cur /\ views'[now].seen = views[now].seen
      /\ views'[now].skip = views[now].skip
      /\ views'[now].turns = turns /\ views'[now].inFlight = t
      /\ \A w \in Views : w # now => views'[w] = views[w]
  BY <1>2, <1>3, <1>4 DEF ViewType
<1>6. /\ call' \in [Turns -> CallType] /\ call'[t].pc = "agent" /\ call'[t].view = now
      /\ \A u \in Turns : u # t => call'[u] = call[u]
      /\ Live(now)' = Live(now) \union {t} /\ Live("left")' = Live("left")
      /\ crossed' \in BOOLEAN /\ (crossed \/ Live(now) # {} => crossed')
  BY <1>1, <1>4, Beginning DEF IInv
<1>7. /\ stored' \in [Threads -> [Turns -> Statuses]] /\ disputed' \subseteq Turns
      /\ \A c \in Threads : stored'[c] = stored[c] \/ stored'[c] = turns
  BY <1>3, <1>4 DEF Save, Disputes, IInv, TypeOK
<1>8. /\ home' \in [Turns -> Threads \union {Nowhere}] /\ home'[t] = cur
      /\ \A u \in Turns : u # t => home'[u] = home[u]
  BY <1>2, <1>4 DEF IInv, TypeOK
<1>9. TypeOK'
  <2>1. \A w \in Views : views'[w].inFlight \in Live(w)' \union {Nothing}
    BY <1>5, <1>6 DEF IInv, TypeOK, Views, now
  <2>2. /\ threads' \subseteq Threads /\ path' \in Threads \union {Nowhere} /\ mistaken' \subseteq Threads
        /\ dropped' \subseteq Turns /\ answered' \subseteq Turns /\ broken' \subseteq Turns
    BY <1>4 DEF told, IInv, TypeOK
  <2> QED
    BY <1>5, <1>6, <1>7, <1>8, <2>1, <2>2 DEF TypeOK, ViewType, CallType
<1>10. ViewPhase'
  BY <1>2, <1>5, AssistantAssumption DEF IInv, ViewPhase
<1>11. CallPhase'
  <2> SUFFICES ASSUME NEW u \in Turns
               PROVE  /\ call'[u].pc # "none" => home'[u] # Nowhere
                      /\ call'[u].pc = "settled" => views'[call'[u].view].turns[u] \notin Busy
    BY DEF CallPhase
  <2>1. call[u].view \in Views
    BY DEF IInv, TypeOK
  <2>2. CASE u = t
    BY <2>2, <1>2, <1>6, <1>8, AssistantAssumption
  <2>3. CASE u # t
    BY <2>1, <2>3, <1>3, <1>5, <1>6, <1>8 DEF IInv, CallPhase
  <2> QED
    BY <2>2, <2>3
<1>12. StopPhase'
  BY <1>3, <1>5, <1>6, Stoppable
<1>13. PlanPhase'
  <2> SUFFICES ASSUME NEW u \in Turns PROVE Stage(u)'
    BY DEF PlanPhase
  <2>1. \A r \in {"planned", "done"} : NoCopy(u, r) => NoCopy(u, r)'
    BY <1>2, <1>3, <1>5, <1>7 DEF NoCopy
  <2>2. CASE u = t
    BY <2>1, <2>2, <1>1, <1>4, <1>6 DEF Stage, told
  <2>3. CASE u # t
    BY <2>1, <2>3, <1>4, <1>6, <1>8 DEF IInv, PlanPhase, Stage, told
  <2> QED
    BY <2>2, <2>3
<1>14. ScreenPhase' /\ ChatPhase'
  <2>1. \A u \in Turns : u # t => turns[u] = views[now].turns[u] /\ SameHistory(u)
    BY <1>3, <1>4, <1>8 DEF SameHistory, told
  <2>2. ASSUME cur \in threads \ mistaken
        PROVE  WillFit(turns[t], t, cur) /\ turns[t] # views[now].turns[t]
    <3>1. Fits(views[now].turns[t], t, cur)
      BY <2>2, <1>2 DEF IInv, ScreenPhase
    <3>2. views[now].turns[t] = "absent"
      BY <3>1, <1>1, <1>2, AssistantAssumption DEF Fits
    <3> QED
      BY <3>2, <1>1, <1>3, <1>4, <1>8 DEF WillFit, told
  <2>3. \A w \in Views : /\ views'[w].cur = views[w].cur
                         /\ views'[w].turns = IF w = now THEN turns ELSE views[w].turns
    BY <1>5
  <2>4. Save(now, turns) /\ UNCHANGED <<threads, mistaken>> /\ home'[t] = cur
    BY <1>4, <1>8
  <2> HIDE DEF cur
  <2> QED
    BY <1>1, <1>2, <1>3, <2>1, <2>2, <2>3, <2>4, TurnChanges DEF IInv, cur
<1>15. HomePhase'
  <2>1. \A c \in Threads : (\A u \in Turns : home'[u] # c) => \A u \in Turns : home[u] # c
    BY <1>1, <1>8, AssistantAssumption
  <2>2. \A w \in Views : views'[w].cur = views[w].cur
    BY <1>5
  <2> QED
    BY <2>1, <2>2, <1>4 DEF IInv, HomePhase
<1> QED
  BY <1>9, <1>10, <1>11, <1>12, <1>13, <1>14, <1>15 DEF IInv

\* The first message of a chat: nobody was asked anything in it, and no view remembers it.
LEMMA SendingFirst ==
  ASSUME NEW t \in Turns, IInv, Send(t), SendFirst(t)
  PROVE  IInv'
<1> DEFINE used == {home[u] : u \in Turns}
           c == Fresh(Threads, used)
           turns == [NoTurns EXCEPT ![t] = "planning"]
<1>1. /\ home[t] = Nowhere /\ call[t].pc = "none" /\ NoCopy(t, "planned") /\ NoCopy(t, "done")
      /\ t \notin answered /\ t \notin broken /\ t \notin dropped /\ BusyTurns(now) = {}
  BY DEF Send, IInv, TypeOK, CallPhase, PlanPhase, Stage
<1>2. c \in Threads /\ (\A u \in Turns : home[u] # c) /\ c # Nowhere
  <2>1. c \in Threads \ used
    BY DEF SendFirst, Fresh
  <2> QED
    BY <2>1, AssistantAssumption
<1>3. /\ views \in [Views -> ViewType] /\ now \in Views /\ views[now].cur = Nowhere
      /\ views[now].turns = NoTurns /\ ~views[now].skip /\ views[now].seen = Nowhere
  BY DEF IInv, TypeOK, ViewType, ViewPhase, Views, now, SendFirst
<1>4. /\ turns \in [Turns -> Statuses] /\ turns[t] = "planning"
      /\ \A u \in Turns : u # t => turns[u] = "absent"
  BY DEF Statuses, Busy, NoTurns
<1>5. /\ home' = [home EXCEPT ![t] = c] /\ threads' = threads \union {c}
      /\ stored' = [stored EXCEPT ![c] = turns] /\ path' = c
      /\ views' = [views EXCEPT ![now].cur = c, ![now].skip = TRUE,
                                ![now].turns[t] = "planning", ![now].inFlight = t]
      /\ UNCHANGED <<dropped, answered, broken, disputed, mistaken>> /\ Begin(t, "agent")
  BY DEF SendFirst, Send, told
<1> HIDE DEF c, used
<1>6. /\ views' \in [Views -> ViewType]
      /\ views'[now].cur = c /\ views'[now].seen = Nowhere /\ views'[now].skip = TRUE
      /\ views'[now].turns = turns /\ views'[now].inFlight = t
      /\ \A w \in Views : w # now => views'[w] = views[w]
  <2>1. views' = [views EXCEPT ![now] = [cur |-> c, seen |-> Nowhere, skip |-> TRUE, turns |-> turns,
                                         inFlight |-> t]]
    BY <1>3, <1>5 DEF ViewType
  <2> HIDE DEF turns
  <2> QED
    BY <2>1, <1>2, <1>3, <1>4 DEF ViewType
<1> HIDE DEF turns
<1>7. /\ call' \in [Turns -> CallType] /\ call'[t].pc = "agent" /\ call'[t].view = now
      /\ \A u \in Turns : u # t => call'[u] = call[u]
      /\ Live(now)' = Live(now) \union {t} /\ Live("left")' = Live("left")
      /\ crossed' \in BOOLEAN /\ (crossed \/ Live(now) # {} => crossed')
  BY <1>1, <1>5, Beginning DEF IInv
<1>8. /\ stored' \in [Threads -> [Turns -> Statuses]]
      /\ \A d \in Threads : stored'[d] = IF d = c THEN turns ELSE stored[d]
  BY <1>2, <1>4, <1>5 DEF IInv, TypeOK
<1>9. /\ home' \in [Turns -> Threads \union {Nowhere}] /\ home'[t] = c
      /\ \A u \in Turns : u # t => home'[u] = home[u] /\ home[u] # c
  BY <1>2, <1>5 DEF IInv, TypeOK
<1>10. TypeOK'
  <2>1. \A w \in Views : views'[w].inFlight \in Live(w)' \union {Nothing}
    BY <1>6, <1>7 DEF IInv, TypeOK, Views, now
  <2>2. /\ threads' \subseteq Threads /\ path' \in Threads \union {Nowhere} /\ mistaken' \subseteq Threads
        /\ dropped' \subseteq Turns /\ answered' \subseteq Turns /\ broken' \subseteq Turns
        /\ disputed' \subseteq Turns
    BY <1>2, <1>5 DEF IInv, TypeOK
  <2> QED
    BY <1>6, <1>7, <1>8, <1>9, <2>1, <2>2 DEF TypeOK, ViewType, CallType
<1>11. ViewPhase'
  BY <1>2, <1>6 DEF ViewPhase
<1>12. CallPhase'
  <2> SUFFICES ASSUME NEW u \in Turns
               PROVE  /\ call'[u].pc # "none" => home'[u] # Nowhere
                      /\ call'[u].pc = "settled" => views'[call'[u].view].turns[u] \notin Busy
    BY DEF CallPhase
  <2>1. call[u].view \in Views
    BY DEF IInv, TypeOK
  <2>2. CASE u = t
    BY <2>2, <1>2, <1>7, <1>9
  <2>3. CASE u # t
    BY <2>1, <2>3, <1>4, <1>6, <1>7, <1>9 DEF IInv, CallPhase, Busy
  <2> QED
    BY <2>2, <2>3
<1>13. StopPhase'
  BY <1>4, <1>6, <1>7, Stoppable DEF Busy
<1>14. PlanPhase'
  <2> SUFFICES ASSUME NEW u \in Turns PROVE Stage(u)'
    BY DEF PlanPhase
  <2>1. \A r \in {"planned", "done"} : NoCopy(u, r) => NoCopy(u, r)'
    BY <1>4, <1>6, <1>8 DEF NoCopy
  <2>2. CASE u = t
    BY <2>1, <2>2, <1>1, <1>5, <1>7 DEF Stage
  <2>3. CASE u # t
    BY <2>1, <2>3, <1>5, <1>7, <1>9 DEF IInv, PlanPhase, Stage
  <2> QED
    BY <2>2, <2>3
<1>15. \A u \in Turns : WillFit(turns[u], u, c)
  BY <1>1, <1>4, <1>5, <1>9 DEF WillFit, IInv, PlanPhase, Stage
<1>16. ASSUME NEW d \in Threads, d # c, NEW u \in Turns, NEW x, Fits(x, u, d)
       PROVE  WillFit(x, u, d)
  <2>1. home'[u] = d <=> home[u] = d
    BY <1>16, <1>1, <1>9, AssistantAssumption
  <2> QED
    BY <2>1, <1>5, <1>16 DEF Fits, WillFit
<1>17. ChatPhase'
  <2> SUFFICES ASSUME NEW d \in threads' \ mistaken, NEW u \in Turns
               PROVE  WillFit(stored'[d][u], u, d)
    BY <1>5 DEF ChatPhase, Fits, WillFit
  <2>1. d \in Threads /\ (d # c => d \in threads)
    BY <1>2, <1>5 DEF IInv, TypeOK
  <2>2. CASE d = c
    BY <2>1, <2>2, <1>8, <1>15
  <2>3. CASE d # c
    <3>1. Fits(stored[d][u], u, d)
      BY <2>1, <2>3 DEF IInv, ChatPhase
    <3> QED
      BY <3>1, <2>1, <2>3, <1>8, <1>16
  <2> QED
    BY <2>2, <2>3
<1>18. ScreenPhase'
  <2> SUFFICES ASSUME NEW w \in Views, views'[w].cur \in threads' \ mistaken, NEW u \in Turns
               PROVE  WillFit(views'[w].turns[u], u, views'[w].cur)
    BY <1>5 DEF ScreenPhase, Fits, WillFit
  <2>1. CASE w = now
    BY <2>1, <1>6, <1>15
  <2>2. CASE w # now
    <3>1. views'[w] = views[w] /\ views[w].cur # c
      BY <2>2, <1>2, <1>6 DEF IInv, HomePhase
    <3>2. views[w].cur \in threads /\ views[w].cur \in Threads
      BY <3>1, <1>5 DEF IInv, TypeOK
    <3>3. Fits(views[w].turns[u], u, views[w].cur)
      BY <3>1, <3>2 DEF IInv, ScreenPhase
    <3> QED
      BY <3>1, <3>2, <3>3, <1>16
  <2> QED
    BY <2>1, <2>2
<1>19. HomePhase'
  <2> SUFFICES ASSUME NEW d \in Threads, \A u \in Turns : home'[u] # d
               PROVE  path' # d /\ \A w \in Views : views'[w].cur # d
    BY DEF HomePhase
  <2>1. d # c /\ \A u \in Turns : home[u] # d
    BY <1>1, <1>9, AssistantAssumption
  <2> QED
    BY <2>1, <1>5, <1>6 DEF IInv, HomePhase
<1> QED
  BY <1>10, <1>11, <1>12, <1>13, <1>14, <1>17, <1>18, <1>19 DEF IInv

\* Running a plan on the screen or discarding it loses no answer.
LEMMA PlansOnDevice ==
  ASSUME NEW t \in Turns, NEW s \in {"running", "absent"}, IInv, views[now].turns[t] = "planned",
         s = "absent" => dropped' = IF views[now].cur = home[t] THEN dropped \union {t} ELSE dropped,
         s = "running" => dropped' = dropped,
         Save(now, Patched(now, t, s)), UNCHANGED <<threads, home, told, mistaken>>,
         \A w \in Views : /\ views'[w].cur = views[w].cur
                          /\ views'[w].turns = IF w = now THEN Patched(now, t, s) ELSE views[w].turns
  PROVE  ScreenPhase' /\ ChatPhase'
<1> DEFINE turns == Patched(now, t, s)
           cur == views[now].cur
<1>1. s \in Statuses /\ now \in Views /\ t \notin answered
  BY DEF Statuses, Busy, Views, now, IInv, PlanPhase, Stage, NoCopy
<1>2. /\ turns \in [Turns -> Statuses] /\ turns[t] = s
      /\ \A u \in Turns : u # t => turns[u] = views[now].turns[u]
  BY <1>1, PatchedType DEF IInv
<1>3. /\ \A w \in Views : /\ views'[w].cur = views[w].cur
                          /\ views'[w].turns = IF w = now THEN turns ELSE views[w].turns
      /\ Save(now, turns)
  OBVIOUS
<1>4. \A u \in Turns : u # t => turns[u] = views[now].turns[u] /\ SameHistory(u)
  BY <1>2 DEF SameHistory, told
<1>5. home'[t] # cur => SameHistory(t)
  BY DEF SameHistory, told
<1>6. ASSUME cur \in threads \ mistaken
      PROVE  WillFit(turns[t], t, cur) /\ turns[t] # views[now].turns[t]
  <2>1. Fits(views[now].turns[t], t, cur) /\ disputed \subseteq disputed'
    BY <1>1, <1>6 DEF IInv, ScreenPhase, Save, Disputes
  <2> HIDE DEF turns
  <2> QED
    BY <2>1, <1>1, <1>2 DEF Fits, WillFit, told
<1> HIDE DEF turns, cur
<1> QED
  BY <1>1, <1>2, <1>3, <1>4, <1>5, <1>6, TurnChanges DEF IInv, cur

LEMMA Running ==
  ASSUME NEW t \in Turns, IInv, Run(t)
  PROVE  IInv'
<1> DEFINE turns == Patched(now, t, "running")
<1>1. /\ home[t] # Nowhere /\ call[t].pc = "none" /\ t \notin answered
      /\ views[now].turns[t] = "planned"
  BY DEF Run, IInv, PlanPhase, Stage, NoCopy, Views, now
<1>2. views \in [Views -> ViewType] /\ now \in Views /\ "running" \in Statuses
  BY DEF IInv, TypeOK, ViewType, Views, now, Statuses, Busy
<1>3. /\ turns \in [Turns -> Statuses] /\ turns[t] = "running"
      /\ \A u \in Turns : u # t => turns[u] = views[now].turns[u]
  BY <1>1, <1>2, PatchedType DEF IInv
<1>4. /\ Save(now, turns) /\ UNCHANGED <<threads, path, home, dropped, told, mistaken>> /\ Begin(t, "run")
      /\ views' = [views EXCEPT ![now].turns = turns, ![now].inFlight = t]
  BY DEF Run
<1> HIDE DEF turns
<1>5. /\ views' \in [Views -> ViewType]
      /\ views'[now].cur = views[now].cur /\ views'[now].seen = views[now].seen
      /\ views'[now].skip = views[now].skip
      /\ views'[now].turns = turns /\ views'[now].inFlight = t
      /\ \A w \in Views : w # now => views'[w] = views[w]
  BY <1>2, <1>3, <1>4 DEF ViewType
<1>6. /\ call' \in [Turns -> CallType] /\ call'[t].pc = "run" /\ call'[t].view = now
      /\ \A u \in Turns : u # t => call'[u] = call[u]
      /\ Live(now)' = Live(now) \union {t} /\ Live("left")' = Live("left")
      /\ crossed' \in BOOLEAN /\ (crossed \/ Live(now) # {} => crossed')
  BY <1>1, <1>4, Beginning DEF IInv
<1>7. /\ stored' \in [Threads -> [Turns -> Statuses]] /\ disputed' \subseteq Turns
      /\ \A c \in Threads : stored'[c] = stored[c] \/ stored'[c] = turns
  BY <1>3, <1>4 DEF Save, Disputes, IInv, TypeOK
<1>8. TypeOK'
  <2>1. \A w \in Views : views'[w].inFlight \in Live(w)' \union {Nothing}
    BY <1>5, <1>6 DEF IInv, TypeOK, Views, now
  <2>2. /\ threads' \subseteq Threads /\ path' \in Threads \union {Nowhere} /\ mistaken' \subseteq Threads
        /\ dropped' \subseteq Turns /\ answered' \subseteq Turns /\ broken' \subseteq Turns
        /\ home' \in [Turns -> Threads \union {Nowhere}]
    BY <1>4 DEF told, IInv, TypeOK
  <2> QED
    BY <1>5, <1>6, <1>7, <2>1, <2>2 DEF TypeOK, ViewType, CallType
<1>9. ViewPhase'
  <2>1. views[now].cur # Nowhere
    BY <1>1 DEF IInv, ViewPhase, NoTurns
  <2> QED
    BY <2>1, <1>5 DEF IInv, ViewPhase
<1>10. CallPhase'
  <2> SUFFICES ASSUME NEW u \in Turns
               PROVE  /\ call'[u].pc # "none" => home'[u] # Nowhere
                      /\ call'[u].pc = "settled" => views'[call'[u].view].turns[u] \notin Busy
    BY DEF CallPhase
  <2>1. call[u].view \in Views
    BY DEF IInv, TypeOK
  <2>2. CASE u = t
    BY <2>2, <1>1, <1>4, <1>6
  <2>3. CASE u # t
    BY <2>1, <2>3, <1>3, <1>4, <1>5, <1>6 DEF IInv, CallPhase
  <2> QED
    BY <2>2, <2>3
<1>11. StopPhase'
  BY <1>3, <1>5, <1>6, Stoppable
<1>12. PlanPhase'
  <2> SUFFICES ASSUME NEW u \in Turns PROVE Stage(u)'
    BY DEF PlanPhase
  <2>1. \A r \in {"planned", "done"} : NoCopy(u, r) => NoCopy(u, r)'
    BY <1>2, <1>3, <1>5, <1>7 DEF NoCopy
  <2>2. Stage(u)
    BY DEF IInv, PlanPhase
  <2>3. CASE u = t
    BY <2>1, <2>2, <2>3, <1>1, <1>4, <1>6 DEF Stage, told
  <2>4. CASE u # t
    BY <2>1, <2>2, <2>4, <1>4, <1>6 DEF Stage, told
  <2> QED
    BY <2>3, <2>4
<1>13. ScreenPhase' /\ ChatPhase'
  <2>1. /\ \A w \in Views : /\ views'[w].cur = views[w].cur
                            /\ views'[w].turns = IF w = now THEN Patched(now, t, "running") ELSE views[w].turns
        /\ Save(now, Patched(now, t, "running"))
    BY <1>4, <1>5 DEF turns
  <2> QED
    BY <1>1, <1>4, <2>1, PlansOnDevice
<1>14. HomePhase'
  <2>1. \A w \in Views : views'[w].cur = views[w].cur
    BY <1>5
  <2> QED
    BY <2>1, <1>4 DEF IInv, HomePhase
<1> QED
  BY <1>8, <1>9, <1>10, <1>11, <1>12, <1>13, <1>14 DEF IInv

LEMMA Discarding ==
  ASSUME NEW t \in Turns, IInv, Discard(t)
  PROVE  IInv'
<1> DEFINE turns == Patched(now, t, "absent")
<1>1. /\ home[t] # Nowhere /\ call[t].pc \notin {"agent", "settled"} /\ t \notin answered
      /\ views[now].turns[t] = "planned"
  BY DEF Discard, IInv, PlanPhase, Stage, NoCopy, Views, now
<1>2. views \in [Views -> ViewType] /\ now \in Views /\ "absent" \in Statuses
  BY DEF IInv, TypeOK, ViewType, Views, now, Statuses
<1>3. /\ turns \in [Turns -> Statuses] /\ turns[t] = "absent"
      /\ \A u \in Turns : u # t => turns[u] = views[now].turns[u]
  BY <1>1, <1>2, PatchedType DEF IInv
<1>4. /\ Save(now, turns) /\ UNCHANGED <<threads, path, call, home, told, mistaken, crossed>>
      /\ views' = [views EXCEPT ![now].turns = turns]
      /\ dropped' = IF views[now].cur = home[t] THEN dropped \union {t} ELSE dropped
  BY DEF Discard
<1> HIDE DEF turns
<1>5. /\ views' \in [Views -> ViewType]
      /\ views'[now].cur = views[now].cur /\ views'[now].seen = views[now].seen
      /\ views'[now].skip = views[now].skip
      /\ views'[now].turns = turns /\ views'[now].inFlight = views[now].inFlight
      /\ \A w \in Views : w # now => views'[w] = views[w]
  BY <1>2, <1>3, <1>4 DEF ViewType
<1>6. /\ stored' \in [Threads -> [Turns -> Statuses]] /\ disputed' \subseteq Turns
      /\ \A c \in Threads : stored'[c] = stored[c] \/ stored'[c] = turns
  BY <1>3, <1>4 DEF Save, Disputes, IInv, TypeOK
<1>7. \A w \in Views : Live(w)' = Live(w)
  BY <1>4 DEF Live
<1>8. TypeOK'
  <2>1. \A w \in Views : views'[w].inFlight \in Live(w)' \union {Nothing}
    BY <1>5, <1>7 DEF IInv, TypeOK, Views, now
  <2>2. /\ threads' \subseteq Threads /\ path' \in Threads \union {Nowhere} /\ mistaken' \subseteq Threads
        /\ dropped' \subseteq Turns /\ answered' \subseteq Turns /\ broken' \subseteq Turns
        /\ home' \in [Turns -> Threads \union {Nowhere}]
        /\ call' \in [Turns -> CallType] /\ crossed' \in BOOLEAN
    BY <1>4 DEF told, IInv, TypeOK, CallType
  <2> QED
    BY <1>5, <1>6, <2>1, <2>2 DEF TypeOK, ViewType, CallType
<1>9. ViewPhase'
  <2>1. views[now].cur # Nowhere
    BY <1>1 DEF IInv, ViewPhase, NoTurns
  <2> QED
    BY <2>1, <1>5 DEF IInv, ViewPhase
<1>10. CallPhase'
  <2> SUFFICES ASSUME NEW u \in Turns
               PROVE  /\ call'[u].pc # "none" => home'[u] # Nowhere
                      /\ call'[u].pc = "settled" => views'[call'[u].view].turns[u] \notin Busy
    BY DEF CallPhase
  <2>1. call[u].view \in Views
    BY DEF IInv, TypeOK
  <2>2. CASE u = t
    BY <2>2, <1>1, <1>4
  <2>3. CASE u # t
    BY <2>1, <2>3, <1>3, <1>4, <1>5 DEF IInv, CallPhase
  <2> QED
    BY <2>2, <2>3
<1>11. StopPhase'
  <2>1. \A u \in Live(now)' : views'[now].inFlight = u \/ crossed'
    BY <1>2, <1>4, <1>5, <1>7 DEF IInv, StopPhase
  <2>2. BusyTurns(now)' \subseteq Live(now)'
    BY <1>2, <1>3, <1>5, <1>7 DEF IInv, StopPhase, BusyTurns, now, Busy
  <2> QED
    BY <2>1, <2>2 DEF StopPhase
<1>12. PlanPhase'
  <2> SUFFICES ASSUME NEW u \in Turns PROVE Stage(u)'
    BY DEF PlanPhase
  <2>1. \A r \in {"planned", "done"} : NoCopy(u, r) => NoCopy(u, r)'
    BY <1>2, <1>3, <1>5, <1>6 DEF NoCopy
  <2>2. u \in dropped' => u \in dropped \/ u = t
    BY <1>4
  <2> QED
    BY <2>1, <2>2, <1>1, <1>4 DEF IInv, PlanPhase, Stage, told
<1>13. ScreenPhase' /\ ChatPhase'
  <2>1. /\ \A w \in Views : /\ views'[w].cur = views[w].cur
                            /\ views'[w].turns = IF w = now THEN Patched(now, t, "absent") ELSE views[w].turns
        /\ Save(now, Patched(now, t, "absent"))
    BY <1>4, <1>5 DEF turns
  <2> QED
    BY <1>1, <1>4, <2>1, PlansOnDevice
<1>14. HomePhase'
  <2>1. \A w \in Views : views'[w].cur = views[w].cur
    BY <1>5
  <2> QED
    BY <2>1, <1>4 DEF IInv, HomePhase
<1> QED
  BY <1>8, <1>9, <1>10, <1>11, <1>12, <1>13, <1>14 DEF IInv

-----------------------------------------------------------------------------
(* Chats come to the screen, and leave it.                                  *)

\* Nothing is told of any turn, and chats may be deleted: what is left is as it was, and so is what
\* a view shows as before, or takes from the device.
LEMMA NothingTold ==
  ASSUME IInv, threads' \subseteq threads, \A c \in threads' : stored'[c] = stored[c],
         UNCHANGED <<home, dropped, told, disputed>>, mistaken \subseteq mistaken',
         \A v \in Views : views'[v].cur \in threads' \ mistaken' =>
           \/ \E w \in Views : views'[v].cur = views[w].cur /\ views'[v].turns = views[w].turns
           \/ views'[v].turns = Hydrate(views'[v].cur)
  PROVE  ScreenPhase' /\ ChatPhase'
<1>1. ChatPhase'
  BY DEF IInv, ChatPhase, Fits, told
<1>2. ScreenPhase'
  <2> SUFFICES ASSUME NEW v \in Views, views'[v].cur \in threads' \ mistaken', NEW u \in Turns
               PROVE  WillFit(views'[v].turns[u], u, views'[v].cur)
    BY DEF ScreenPhase, Fits, WillFit
  <2>1. PICK c \in threads \ mistaken : c = views'[v].cur
    OBVIOUS
  <2>2. Fits(views'[v].turns[u], u, c)
    <3>1. CASE \E w \in Views : views'[v].cur = views[w].cur /\ views'[v].turns = views[w].turns
      BY <2>1, <3>1 DEF IInv, ScreenPhase
    <3>2. CASE views'[v].turns = Hydrate(views'[v].cur)
      BY <2>1, <3>2, Hydrated DEF IInv
    <3> QED
      BY <2>1, <3>1, <3>2
  <2> QED
    BY <2>1, <2>2 DEF Fits, WillFit, told
<1> QED
  BY <1>1, <1>2

\* A step that shows no turn as planned or done for the first time keeps the stage of each turn.
LEMMA NoNewStages ==
  ASSUME IInv, UNCHANGED <<home, dropped, told>>,
         \A u \in Turns : call'[u].pc \in {"none", call[u].pc},
         \A r \in {"planned", "done"}, v \in Views, u \in Turns : views'[v].turns[u] = r => ~NoCopy(u, r),
         \A r \in {"planned", "done"}, c \in Threads, u \in Turns : stored'[c][u] = r => ~NoCopy(u, r)
  PROVE  PlanPhase'
<1>1. \A r \in {"planned", "done"}, u \in Turns : NoCopy(u, r) => NoCopy(u, r)'
  BY DEF NoCopy
<1> QED
  BY <1>1 DEF IInv, PlanPhase, Stage, told

\* A new mounted view at chat c, whose address it is.
LEMMA Mounting ==
  ASSUME NEW c \in Threads \union {Nowhere}, IInv, views'[now] = View(c, Hydrate(c))
  PROVE  /\ views'[now] \in ViewType /\ views'[now].inFlight = Nothing
         /\ views'[now].cur = c /\ views'[now].turns = Hydrate(c)
         /\ \A u \in Turns : views'[now].turns[u] \notin Busy
         /\ \A r \in {"planned", "done"}, u \in Turns : views'[now].turns[u] = r => ~NoCopy(u, r)
         /\ ViewPhase'
<1>1. /\ Hydrate(c) \in [Turns -> Statuses] /\ \A t \in Turns : Hydrate(c)[t] \notin Busy
      /\ \A t \in Turns : Hydrate(c)[t] \in {"planned", "done"} => c \in Threads /\ stored[c][t] = Hydrate(c)[t]
      /\ Hydrate(Nowhere) = NoTurns
  BY HydrateType DEF IInv
<1> QED
  BY <1>1 DEF View, ViewType, ViewPhase, NoCopy, now

LEMMA Going ==
  ASSUME NEW dest \in Threads \union {Nowhere}, IInv, Go(dest),
         UNCHANGED <<home, dropped, told, disputed, mistaken>>,
         \A c \in Threads : (\A u \in Turns : home[u] # c) => dest # c,
         threads' \subseteq threads, stored' \in [Threads -> [Turns -> Statuses]],
         \A c \in threads' : stored'[c] = stored[c],
         \A r \in {"planned", "done"}, c \in Threads, u \in Turns : stored'[c][u] = r => stored[c][u] = r
  PROVE  IInv'
<1>2. \A r \in {"planned", "done"}, c \in Threads, u \in Turns : stored'[c][u] = r => ~NoCopy(u, r)
  BY DEF NoCopy
<1>3. /\ threads' \subseteq Threads /\ path' \in Threads \union {Nowhere} /\ mistaken' \subseteq Threads
      /\ dropped' \subseteq Turns /\ answered' \subseteq Turns /\ broken' \subseteq Turns
      /\ disputed' \subseteq Turns /\ home' \in [Turns -> Threads \union {Nowhere}]
  BY DEF Go, IInv, TypeOK, told
<1>4. CASE UNCHANGED <<views, call, crossed>>
  <2>1. TypeOK'
    BY <1>3, <1>4 DEF IInv, TypeOK, Live
  <2>2. ViewPhase' /\ CallPhase' /\ StopPhase'
    BY <1>4 DEF IInv, ViewPhase, CallPhase, StopPhase, Live, BusyTurns
  <2>3. PlanPhase'
    BY <1>2, <1>4, NoNewStages DEF NoCopy
  <2>4. ScreenPhase' /\ ChatPhase'
    BY <1>4, NothingTold
  <2>5. HomePhase'
    BY <1>4 DEF IInv, HomePhase, Go
  <2> QED
    BY <2>1, <2>2, <2>3, <2>4, <2>5 DEF IInv
<1>5. CASE ~UNCHANGED <<views, call, crossed>>
  <2>1. /\ Live("left") = {}
        /\ views' = [mounted |-> View(dest, Hydrate(dest)),
                     left |-> IF Live(now) = {} THEN Blank ELSE views[now]]
        /\ call' = [t \in Turns |-> IF t \in Live(now) THEN [call[t] EXCEPT !.view = "left"] ELSE call[t]]
        /\ crossed' = FALSE
    BY <1>5 DEF Go
  <2>2. /\ DOMAIN views' = Views /\ views'[now] = View(dest, Hydrate(dest))
        /\ views'["left"] = IF Live(now) = {} THEN Blank ELSE views[now]
        /\ views' = [v \in Views |-> views'[v]]
    BY <2>1 DEF Views, now
  <2>3. /\ views'[now] \in ViewType /\ views'[now].inFlight = Nothing
        /\ views'[now].cur = dest /\ views'[now].turns = Hydrate(dest)
        /\ \A u \in Turns : views'[now].turns[u] \notin Busy
        /\ \A r \in {"planned", "done"}, u \in Turns : views'[now].turns[u] = r => ~NoCopy(u, r)
        /\ ViewPhase'
    BY <2>2, Mounting
  <2>4. /\ call' \in [Turns -> CallType]
        /\ \A u \in Turns : call'[u].pc = call[u].pc
        /\ \A u \in Turns : call[u].pc # "none" => call[u].view = now /\ call'[u].view = "left"
    <3>1. call \in [Turns -> CallType]
      BY DEF IInv, TypeOK, CallType
    <3>2. \A u \in Turns : call[u].pc # "none" <=> u \in Live(now)
      BY <3>1, <2>1 DEF Live, CallType, Views, now
    <3> QED
      BY <3>1, <3>2, <2>1 DEF CallType, Live, Views, now
  <2>5. Live(now)' = {} /\ Live("left")' = Live(now)
    BY <2>4 DEF Live, now
  <2>6. /\ views'["left"] \in ViewType
        /\ views'["left"].inFlight \in Live("left")' \union {Nothing}
        /\ \A r \in {"planned", "done"}, u \in Turns : views'["left"].turns[u] = r => ~NoCopy(u, r)
        /\ views'["left"].cur = Nowhere \/ views'["left"] = views[now]
    <3>1. CASE Live(now) = {}
      BY <3>1, <2>2 DEF Blank, View, NoTurns, ViewType, Statuses
    <3>2. CASE Live(now) # {}
      BY <3>2, <2>2, <2>5 DEF IInv, TypeOK, ViewType, NoCopy, Views, now
    <3> QED
      BY <3>1, <3>2
  <2>7. TypeOK'
    <3>1. views' \in [Views -> ViewType]
      BY <2>2, <2>3, <2>6 DEF Views, now
    <3>2. \A v \in Views : views'[v].inFlight \in Live(v)' \union {Nothing}
      BY <2>3, <2>6 DEF Views, now
    <3> QED
      BY <1>3, <2>1, <2>4, <3>1, <3>2 DEF TypeOK, ViewType, CallType
  <2>8. CallPhase'
    <3> SUFFICES ASSUME NEW u \in Turns
                 PROVE  /\ call'[u].pc # "none" => home'[u] # Nowhere
                        /\ call'[u].pc = "settled" => views'[call'[u].view].turns[u] \notin Busy
      BY DEF CallPhase
    <3>1. call'[u].pc = "settled" => u \in Live(now) /\ call'[u].view = "left"
      BY <2>4 DEF Live
    <3>2. call'[u].pc = "settled" => views[now].turns[u] \notin Busy
      BY <2>4 DEF IInv, CallPhase
    <3> QED
      BY <3>1, <3>2, <2>2, <2>4 DEF IInv, CallPhase
  <2>9. StopPhase'
    BY <2>3, <2>5 DEF StopPhase, BusyTurns, now
  <2>10. PlanPhase'
    BY <1>2, <2>3, <2>4, <2>6, NoNewStages DEF Views, now
  <2>11. ScreenPhase' /\ ChatPhase'
    <3>1. threads' \subseteq Threads /\ now \in Views
      BY <1>3 DEF Views, now
    <3>2. \A v \in Views : v = now \/ v = "left"
      BY DEF Views, now
    <3>3. \A v \in Views : views'[v].cur \in threads' \ mistaken' =>
            \/ \E w \in Views : views'[v].cur = views[w].cur /\ views'[v].turns = views[w].turns
            \/ views'[v].turns = Hydrate(views'[v].cur)
      BY <2>3, <2>6, <3>1, <3>2, AssistantAssumption
    <3> QED
      BY <3>3, NothingTold
  <2>12. HomePhase'
    <3>1. \A c \in Threads : (\A u \in Turns : home[u] # c) => views'["left"].cur # c
      BY <2>6, AssistantAssumption DEF IInv, HomePhase, Views, now
    <3> QED
      BY <2>3, <3>1 DEF Go, HomePhase, Views, now
  <2> QED
    BY <2>3, <2>7, <2>8, <2>9, <2>10, <2>11, <2>12 DEF IInv
<1> QED
  BY <1>4, <1>5

LEMMA Reloading ==
  ASSUME IInv, Reload
  PROVE  IInv'
<1>1. /\ views' = [mounted |-> View(path, Hydrate(path)), left |-> Blank]
      /\ call' = [t \in Turns |-> NoCall] /\ crossed' = FALSE
      /\ UNCHANGED <<threads, stored, path, home, dropped, told, disputed, mistaken>>
  BY DEF Reload
<1>2. /\ DOMAIN views' = Views /\ views'[now] = View(path, Hydrate(path))
      /\ views'["left"] = Blank /\ views' = [v \in Views |-> views'[v]]
  BY <1>1 DEF Views, now
<1>3. path \in Threads \union {Nowhere}
  BY DEF IInv, TypeOK
<1>4. /\ views'[now] \in ViewType /\ views'[now].inFlight = Nothing
      /\ views'[now].cur = path /\ views'[now].turns = Hydrate(path)
      /\ \A u \in Turns : views'[now].turns[u] \notin Busy
      /\ \A r \in {"planned", "done"}, u \in Turns : views'[now].turns[u] = r => ~NoCopy(u, r)
      /\ ViewPhase'
  BY <1>2, <1>3, Mounting
<1>5. /\ views'["left"] \in ViewType /\ views'["left"].inFlight = Nothing /\ views'["left"].cur = Nowhere
      /\ \A u \in Turns : views'["left"].turns[u] = "absent"
  BY <1>2 DEF Blank, View, NoTurns, ViewType, Statuses
<1>6. call' \in [Turns -> CallType] /\ \A u \in Turns : call'[u].pc = "none"
  BY <1>1 DEF NoCall, CallType, Views, now
<1>7. Live(now)' = {}
  BY <1>6 DEF Live, now
<1>8. TypeOK'
  <2>1. views' \in [Views -> ViewType] /\ \A v \in Views : views'[v].inFlight = Nothing
    BY <1>2, <1>4, <1>5 DEF Views, now
  <2> QED
    BY <1>1, <1>6, <2>1 DEF IInv, TypeOK, ViewType, CallType, told
<1>9. CallPhase'
  BY <1>6 DEF CallPhase
<1>10. StopPhase'
  BY <1>4, <1>7 DEF StopPhase, BusyTurns, now
<1>11. PlanPhase'
  BY <1>1, <1>4, <1>5, <1>6, NoNewStages DEF NoCopy, Views, now
<1>12. ScreenPhase' /\ ChatPhase'
  <2>1. \A v \in Views : v = now \/ v = "left"
    BY DEF Views, now
  <2>2. Nowhere \notin threads'
    BY <1>1, AssistantAssumption DEF IInv, TypeOK
  <2>3. \A v \in Views : views'[v].cur \in threads' \ mistaken' => views'[v].turns = Hydrate(views'[v].cur)
    BY <1>4, <1>5, <2>1, <2>2
  <2> QED
    BY <1>1, <2>3, NothingTold
<1>13. HomePhase'
  BY <1>1, <1>4, <1>5, AssistantAssumption DEF IInv, HomePhase, Views, now
<1> QED
  BY <1>4, <1>8, <1>9, <1>10, <1>11, <1>12, <1>13 DEF IInv

\* The address is another chat's: the view takes its turns from the device, or keeps its own for the
\* echo of its first message.
LEMMA Hydrating ==
  ASSUME IInv, Effect
  PROVE  IInv'
<1> DEFINE turns == IF views[now].skip THEN views[now].turns ELSE Hydrate(path)
<1>1. /\ views \in [Views -> ViewType] /\ now \in Views /\ path \in Threads \union {Nowhere}
      /\ views[now].turns \in [Turns -> Statuses]
  BY DEF IInv, TypeOK, ViewType, Views, now
<1>2. /\ Hydrate(path) \in [Turns -> Statuses]
      /\ \A t \in Turns : Hydrate(path)[t] \notin Busy
      /\ \A t \in Turns : Hydrate(path)[t] \in {"planned", "done"}
                            => path \in Threads /\ stored[path][t] = Hydrate(path)[t]
      /\ Hydrate(Nowhere) = NoTurns
  BY <1>1, HydrateType DEF IInv
<1>3. /\ turns \in [Turns -> Statuses]
      /\ \A u \in Turns : turns[u] \in Busy => turns[u] = views[now].turns[u]
      /\ \A r \in {"planned", "done"}, u \in Turns : turns[u] = r => ~NoCopy(u, r)
  BY <1>1, <1>2 DEF NoCopy
<1>4. views' = [views EXCEPT ![now].cur = path, ![now].seen = path, ![now].skip = FALSE,
                             ![now].turns = turns]
  <2>1. views[now] \in ViewType
    BY <1>1
  <2> QED
    BY <1>1, <2>1 DEF Effect, ViewType
<1>5. /\ UNCHANGED <<threads, stored, path, call, home, dropped, told, disputed, crossed>>
      /\ mistaken' = IF views[now].skip /\ path # views[now].cur
                       THEN mistaken \union ({path} \cap Threads) ELSE mistaken
      /\ views[now].seen # path
  BY DEF Effect
<1>6. /\ views' \in [Views -> ViewType]
      /\ views'[now].cur = path /\ views'[now].seen = path /\ views'[now].skip = FALSE
      /\ views'[now].turns = turns /\ views'[now].inFlight = views[now].inFlight
      /\ \A w \in Views : w # now => views'[w] = views[w]
  <2> HIDE DEF turns
  <2> QED
    BY <1>1, <1>3, <1>4 DEF ViewType
<1>7. \A w \in Views : Live(w)' = Live(w)
  BY <1>5 DEF Live
<1>8. TypeOK'
  <2>1. \A w \in Views : views'[w].inFlight \in Live(w)' \union {Nothing}
    BY <1>6, <1>7 DEF IInv, TypeOK
  <2>2. mistaken' \subseteq Threads
    BY <1>5 DEF IInv, TypeOK
  <2> QED
    BY <1>5, <1>6, <2>1, <2>2 DEF IInv, TypeOK, ViewType, told
<1>9. ViewPhase'
  <2>1. path = Nowhere => ~views[now].skip
    BY <1>5 DEF IInv, ViewPhase
  <2> QED
    BY <2>1, <1>2, <1>6 DEF ViewPhase
<1>10. CallPhase'
  <2> SUFFICES ASSUME NEW u \in Turns
               PROVE  /\ call[u].pc # "none" => home[u] # Nowhere
                      /\ call[u].pc = "settled" => views'[call[u].view].turns[u] \notin Busy
    BY <1>5 DEF CallPhase
  <2>1. call[u].view \in Views
    BY DEF IInv, TypeOK
  <2> QED
    BY <2>1, <1>3, <1>6 DEF IInv, CallPhase
<1>11. StopPhase'
  <2>1. \A u \in Live(now)' : views'[now].inFlight = u \/ crossed'
    BY <1>1, <1>5, <1>6, <1>7 DEF IInv, StopPhase
  <2>2. BusyTurns(now)' \subseteq Live(now)'
    BY <1>1, <1>3, <1>6, <1>7 DEF IInv, StopPhase, BusyTurns, now
  <2> QED
    BY <2>1, <2>2 DEF StopPhase
<1>12. PlanPhase'
  BY <1>3, <1>5, <1>6, NoNewStages DEF NoCopy
<1>13. ScreenPhase' /\ ChatPhase'
  <2>1. path \in threads \ mistaken' => \/ turns = Hydrate(path)
                                        \/ path = views[now].cur /\ turns = views[now].turns
    BY <1>5 DEF IInv, TypeOK
  <2>2. \A v \in Views : views'[v].cur \in threads' \ mistaken' =>
          \/ \E w \in Views : views'[v].cur = views[w].cur /\ views'[v].turns = views[w].turns
          \/ views'[v].turns = Hydrate(views'[v].cur)
    <3> SUFFICES ASSUME NEW v \in Views, views'[v].cur \in threads' \ mistaken'
                 PROVE  \/ \E w \in Views : views'[v].cur = views[w].cur /\ views'[v].turns = views[w].turns
                        \/ views'[v].turns = Hydrate(views'[v].cur)
      OBVIOUS
    <3> HIDE DEF turns
    <3>1. CASE v = now
      BY <2>1, <3>1, <1>1, <1>5, <1>6
    <3>2. CASE v # now
      BY <3>2, <1>6
    <3> QED
      BY <3>1, <3>2
  <2>3. mistaken \subseteq mistaken'
    BY <1>5
  <2> QED
    BY <1>5, <2>2, <2>3, NothingTold
<1>14. HomePhase'
  BY <1>5, <1>6 DEF IInv, HomePhase
<1> QED
  BY <1>8, <1>9, <1>10, <1>11, <1>12, <1>13, <1>14 DEF IInv

-----------------------------------------------------------------------------
(* The theorems.                                                            *)

LEMMA InitIInv ==
  ASSUME Init
  PROVE  IInv
<1>1. /\ views \in [Views -> ViewType] /\ call \in [Turns -> CallType]
      /\ \A v \in Views : views[v] = Blank
      /\ Blank.cur = Nowhere /\ Blank.seen = Nowhere /\ Blank.skip = FALSE
      /\ Blank.turns = NoTurns /\ Blank.inFlight = Nothing
      /\ \A t \in Turns : call[t].pc = "none" /\ NoTurns[t] = "absent"
      /\ now \in Views /\ NoTurns \in [Turns -> Statuses]
  BY DEF Init, Blank, View, NoTurns, NoCall, ViewType, CallType, Statuses, Views, now
<1>2. TypeOK
  BY <1>1 DEF Init, TypeOK, ViewType, CallType
<1>3. ViewPhase /\ CallPhase
  BY <1>1 DEF Init, ViewPhase, CallPhase
<1>4. StopPhase
  BY <1>1 DEF StopPhase, Live, BusyTurns, Busy
<1>5. PlanPhase
  BY <1>1 DEF Init, PlanPhase, Stage, NoCopy
<1>6. ScreenPhase /\ ChatPhase
  BY DEF Init, ScreenPhase, ChatPhase
<1>7. HomePhase
  BY <1>1, AssistantAssumption DEF Init, HomePhase
<1> QED
  BY <1>2, <1>3, <1>4, <1>5, <1>6, <1>7 DEF IInv

LEMMA StutterIInv ==
  ASSUME IInv, UNCHANGED vars
  PROVE  IInv'
<1>1. TypeOK'
  BY DEF IInv, TypeOK, Live, vars, told
<1>2. ViewPhase' /\ HomePhase' /\ CallPhase' /\ StopPhase'
  BY DEF IInv, ViewPhase, HomePhase, CallPhase, StopPhase, Live, BusyTurns, vars
<1>3. PlanPhase' /\ ScreenPhase' /\ ChatPhase'
  BY DEF IInv, PlanPhase, Stage, NoCopy, ScreenPhase, ChatPhase, Fits, vars, told
<1> QED
  BY <1>1, <1>2, <1>3 DEF IInv

\* A connection that breaks, and Stop, which breaks the one in inFlight.
LEMMA Failing ==
  ASSUME NEW t \in Turns, IInv, Breaks(t)
  PROVE  IInv'
<1>1. Ends(t, "failed")
  BY DEF Breaks, Fails, Ends, BreakTold
<1> QED
  BY <1>1, Ending

LEMMA AnswerIInv ==
  ASSUME NEW t \in Turns, IInv, Answer(t)
  PROVE  IInv'
<1>1. CASE Step(t)
  <2>1. call \in [Turns -> CallType]
    BY DEF IInv, TypeOK, CallType
  <2>2. call' = [call EXCEPT ![t].pc = "agent"]
    BY <1>1, <2>1 DEF Step, CallType
  <2>3. Streams(t, "agent", "planning")
    BY <1>1, <2>2 DEF Step, Streams
  <2> QED
    BY <2>3, Streaming
<1>2. CASE Final(t)
  <2>1. Streams(t, "settled", "done")
    BY <1>2 DEF Final, Streams, AnswerTold
  <2> QED
    BY <2>1, Streaming
<1>3. CASE AiError(t)
  <2>1. Streams(t, "plan", "planning")
    BY <1>3 DEF AiError, Streams
  <2> QED
    BY <2>1, Streaming
<1>4. CASE OtherError(t)
  <2>1. Streams(t, "settled", "failed")
    BY <1>4 DEF OtherError, Streams
  <2> QED
    BY <2>1, Streaming
<1>5. CASE Close(t)
  <2>1. CASE call[t].pc = "agent" /\ End(t, "failed")
    <3>1. Ends(t, "failed")
      BY <1>5, <2>1 DEF Close, Ends
    <3> QED
      BY <3>1, Ending
  <2>2. CASE call[t].pc = "settled" /\ Released(t, views[call[t].view].turns) /\ UNCHANGED <<stored, disputed>>
    BY <1>5, <2>2, Closing DEF Close
  <2> QED
    BY <1>5, <2>1, <2>2 DEF Close
<1>6. CASE PlanAnswered(t)
  <2>1. Ends(t, "planned") \/ Ends(t, "failed")
    BY <1>6 DEF PlanAnswered, Ends
  <2> QED
    BY <2>1, Ending
<1>7. CASE RunAnswered(t)
  <2>1. Ends(t, "done") \/ Ends(t, "failed")
    BY <1>7 DEF RunAnswered, Ends
  <2> QED
    BY <2>1, Ending
<1>8. CASE Breaks(t)
  BY <1>8, Failing
<1> QED
  BY <1>1, <1>2, <1>3, <1>4, <1>5, <1>6, <1>7, <1>8 DEF Answer

LEMMA NextIInv ==
  ASSUME IInv, Next
  PROVE  IInv'
<1>1. ASSUME NEW t \in Turns, User(t)
      PROVE  IInv'
  <2>1. CASE Send(t)
    BY <2>1, Sending, SendingFirst DEF Send
  <2> QED
    BY <1>1, <2>1, Running, Discarding DEF User
<1>2. ASSUME NEW t \in Turns, Answer(t)
      PROVE  IInv'
  BY <1>2, AnswerIInv
<1>3. ASSUME NEW dest \in Threads \union {Nowhere}, Navigate(dest)
      PROVE  IInv'
  <2>1. /\ Go(dest) /\ UNCHANGED <<threads, stored, home, dropped, told, disputed, mistaken>>
        /\ stored \in [Threads -> [Turns -> Statuses]]
    BY <1>3 DEF Navigate, IInv, TypeOK
  <2>2. \A c \in Threads : (\A u \in Turns : home[u] # c) => dest # c
    BY <1>3, AssistantAssumption DEF Navigate
  <2> QED
    BY <2>1, <2>2, Going
<1>4. ASSUME NEW c \in Threads, DeleteThread(c)
      PROVE  IInv'
  <2>1. /\ threads' = threads \ {c} /\ stored' = [stored EXCEPT ![c] = NoTurns]
        /\ UNCHANGED <<home, dropped, told, disputed, mistaken>>
    BY <1>4 DEF DeleteThread
  <2>2. /\ stored' \in [Threads -> [Turns -> Statuses]]
        /\ \A d \in threads' : stored'[d] = stored[d]
        /\ \A r \in {"planned", "done"}, d \in Threads, u \in Turns : stored'[d][u] = r => stored[d][u] = r
    BY <2>1 DEF IInv, TypeOK, NoTurns, Statuses
  <2>3. CASE Go(Nowhere)
    BY <2>1, <2>2, <2>3, Going, AssistantAssumption
  <2>4. CASE UNCHANGED <<path, views, call, crossed>>
    <3>1. /\ path \in Threads \union {Nowhere} /\ Go(path)
          /\ \A d \in Threads : (\A u \in Turns : home[u] # d) => path # d
      BY <2>4 DEF Go, IInv, TypeOK, HomePhase
    <3> QED
      BY <2>1, <2>2, <3>1, Going
  <2> QED
    BY <1>4, <2>3, <2>4 DEF DeleteThread
<1>5. CASE Stop
  <2>1. views[now].inFlight \in Live(now)
    BY <1>5 DEF Stop, IInv, TypeOK, Views, now
  <2>2. views[now].inFlight \in Turns /\ Breaks(views[now].inFlight)
    BY <1>5, <2>1 DEF Stop, Breaks, Live
  <2> QED
    BY <2>2, Failing
<1> QED
  BY <1>1, <1>2, <1>3, <1>4, <1>5, Hydrating, Reloading DEF Next

\* The inductive invariant: what each place of a view and of a request implies about the chats on
\* the device and in the views, and that every copy of a chat fits it.
THEOREM Invariance == Spec => []IInv
<1>1. IInv /\ [Next]_vars => IInv'
  BY NextIInv, StutterIInv
<1> QED
  BY <1>1, InitIInv, PTL DEF Spec

\* Each variable keeps its type, and inFlight never holds the controller of a request that is over.
THEOREM TypeCorrect == Spec => []TypeOK
<1>1. IInv => TypeOK
  BY DEF IInv
<1> QED
  BY <1>1, Invariance, PTL

\* A turn that the screen shows as busy has a request that the mounted view awaits, and Stop reaches
\* it unless two were in flight at once.
THEOREM BusyTurnsStayStoppable == Spec => []BusyTurnsCanBeStopped
<1>1. IInv => BusyTurnsCanBeStopped
  BY DEF IInv, StopPhase, BusyTurnsCanBeStopped
<1> QED
  BY <1>1, Invariance, PTL

\* A chat on the device has only turns asked in it, and has them all but for those discarded and
\* those disputed, unless a view once took it for the echo of its own.
THEOREM TurnsStay == Spec => []ChatsKeepTheirTurns
<1>1. IInv => ChatsKeepTheirTurns
  BY DEF IInv, ChatPhase, Fits, ChatsKeepTheirTurns
<1> QED
  BY <1>1, Invariance, PTL

\* An answer that came to its own chat stays with it, as done or, when the connection broke after the
\* answer, as failed; the exceptions are the same.
THEOREM AnswersStay == Spec => []AnswersAreKept
<1>1. IInv => AnswersAreKept
  BY DEF IInv, TypeOK, ChatPhase, Fits, AnswersAreKept
<1> QED
  BY <1>1, Invariance, PTL
=============================================================================
