-------------------------- MODULE ResilientJobsProofs --------------------------
(***************************************************************************)
(* Proofs about ResilientJobs, for any number of runs.                     *)
(*                                                                         *)
(* Runs meet in the window alone, so the inductive invariant speaks of one *)
(* run: how far its row has come in the store that issued its id, given    *)
(* the call it makes next and whether a call of it was ever diverted.      *)
(***************************************************************************)
EXTENDS ResilientJobs, TLAPS

Open == {"pending", "validating", "processing"}

\* Where the row is when the run makes this call or has got this answer, if no call was diverted
\* to the other store.
Reached(call) ==
  CASE call = "validating"      -> {"pending"}
    [] call = "processing"      -> {"validating"}
    [] call = "success"         -> {"processing"}
    [] call = "failed"          -> {"validating", "processing"}
    [] call = "answered ok"     -> {"success"}
    [] call = "answered failed" -> {"failed"}
    [] OTHER                    -> {}

\* The run's row in Postgres and in memory, the store of its id, its next call, its verdict, and
\* whether it was diverted and reunited, taken together.
Fits(p, m, h, call, v, d, u) ==
  /\ call = "create" <=> h = "none"
  /\ call = "create" => p = "none" /\ m = "none" /\ v = "none" /\ ~d
  /\ u => d
  /\ h = "memory" =>
       /\ d /\ p \in {"none", "pending"}
       /\ call \in {"rescue", "threw"} => m \in Open
       /\ call \notin {"rescue", "threw"} => m \in Reached(call)
  /\ h = "postgres" =>
       /\ m = "none" /\ call # "threw"
       /\ p = "success" => call = "answered ok"
       /\ p = "failed" => call = "answered failed"
       /\ p # "none"
       /\ ~d => p \in Reached(call)
  /\ call \in {"rescue", "threw"} => u
  /\ call \in {"success", "answered ok"} => v = "success"
  /\ call \in {"validating", "processing", "failed"} => v # "success"
  /\ call = "answered failed" /\ v = "success" => u

Phase ==
  \A r \in Runs : Fits(rows["postgres"][r], rows["memory"][r], home[r], todo[r], verdict[r], diverted[r], reunited[r])

WiresAreLive == \A r \in Runs : wire[r] => todo[r] \notin Answers

IInv == TypeOK /\ Phase /\ WiresAreLive

-----------------------------------------------------------------------------
LEMMA ReachedIsAStatus ==
  ASSUME NEW call
  PROVE  Reached(call) \subseteq Open \union {"success", "failed"}
BY DEF Reached, Open

\* The order in which a run makes its calls.
LEMMA CallOrder ==
  ASSUME NEW r \in Runs, todo[r] \in Updates, NEW next \in After(r)
  PROVE  /\ Status(todo[r]) \in Reached(next)
         /\ next \notin {"create", "rescue", "threw", "validating"}
         /\ next = "processing" => todo[r] = "validating"
         /\ next = "success" => todo[r] = "processing"
         /\ next = "failed" => todo[r] \in {"validating", "processing"}
         /\ next = "answered ok" => todo[r] = "success"
         /\ next = "answered failed" => todo[r] \in {"failed", "rescue"}
         /\ Status(todo[r]) = "success" => next = "answered ok"
         /\ Status(todo[r]) = "failed" => next = "answered failed"
         /\ Status(todo[r]) # "none"
BY DEF After, Status, Updates, Reached

\* A row that has come as far as it should may make the move that is asked for.
LEMMA NextMoveIsLegal ==
  ASSUME NEW call \in Updates, NEW p \in Reached(call)
  PROVE  CanTransition(p, Status(call))
<1>1. CASE call = "validating"
  BY <1>1 DEF Reached, Status, CanTransition, AllowedTransitions
<1>2. CASE call = "processing"
  BY <1>2 DEF Reached, Status, CanTransition, AllowedTransitions
<1>3. CASE call = "success"
  BY <1>3 DEF Reached, Status, CanTransition, AllowedTransitions
<1>4. CASE call = "failed"
  BY <1>4 DEF Reached, Status, CanTransition, AllowedTransitions
<1>5. CASE call = "rescue"
  BY <1>5 DEF Reached
<1> QED
  BY <1>1, <1>2, <1>3, <1>4, <1>5 DEF Updates

LEMMA InitIInv == Init => IInv
<1> SUFFICES ASSUME Init PROVE IInv
  OBVIOUS
<1>1. TypeOK
  BY DEF Init, TypeOK
<1>2. \A r \in Runs : /\ rows["postgres"][r] = "none" /\ rows["memory"][r] = "none"
                       /\ home[r] = "none" /\ todo[r] = "create" /\ verdict[r] = "none"
                       /\ ~wire[r] /\ ~diverted[r] /\ ~reunited[r]
  BY DEF Init, Stores
<1>3. Phase
  BY <1>2 DEF Phase, Fits
<1>4. WiresAreLive
  BY <1>2 DEF WiresAreLive
<1> QED
  BY <1>1, <1>3, <1>4 DEF IInv

\* What a call may lead to, one run at a time.
LEMMA Others ==
  ASSUME TypeOK, Phase, WiresAreLive, NEW r \in Runs,
         rows' \in [Stores -> [Runs -> Statuses \union {"none"}]],
         home' \in [Runs -> Stores \union {"none"}],
         degraded' \in BOOLEAN,
         wire' \in [Runs -> BOOLEAN],
         todo' \in [Runs -> {"create"} \union Updates \union Answers],
         verdict' \in [Runs -> {"none", "success", "failed"}],
         diverted' \in [Runs -> BOOLEAN],
         reunited' \in [Runs -> BOOLEAN],
         \A q \in Runs \ {r} :
           /\ \A s \in Stores : rows'[s][q] = rows[s][q]
           /\ home'[q] = home[q] /\ wire'[q] = wire[q] /\ todo'[q] = todo[q]
           /\ verdict'[q] = verdict[q] /\ diverted'[q] = diverted[q] /\ reunited'[q] = reunited[q],
         wire'[r] => todo'[r] \notin Answers,
         Fits(rows'["postgres"][r], rows'["memory"][r], home'[r], todo'[r], verdict'[r], diverted'[r], reunited'[r])
  PROVE  IInv'
<1>1. Phase'
  BY DEF Phase, Stores
<1>2. WiresAreLive'
  BY DEF WiresAreLive
<1>3. \A q \in Runs : home'[q] # "none" => rows'[home'[q]][q] # "none"
  <2>1. rows'["memory"][r] # "none" \/ home'[r] # "memory"
    BY ReachedIsAStatus DEF Fits, Open
  <2>2. home'[r] # "none" => rows'[home'[r]][r] # "none"
    <3>1. CASE home'[r] = "memory"
      BY <2>1, <3>1
    <3>2. CASE home'[r] = "postgres"
      BY <3>2 DEF Fits
    <3>3. home'[r] \in Stores \union {"none"}
      OBVIOUS
    <3> QED
      BY <3>1, <3>2, <3>3 DEF Stores
  <2>3. ASSUME NEW q \in Runs \ {r}, home'[q] # "none" PROVE rows'[home'[q]][q] # "none"
    <3>1. home'[q] = home[q] /\ home[q] \in Stores
      BY <2>3 DEF TypeOK
    <3>2. rows[home[q]][q] # "none"
      BY <2>3, <3>1 DEF TypeOK
    <3> QED
      BY <3>1, <3>2
  <2> QED
    BY <2>2, <2>3
<1>4. TypeOK'
  BY <1>3 DEF TypeOK
<1> QED
  BY <1>1, <1>2, <1>4 DEF IInv

\* The run goes on with its next call, its row at home having reached what the call asked for.
LEMMA Proceeds ==
  ASSUME TypeOK, Phase, NEW r \in Runs, todo[r] \notin Answers, Proceed(r)
  PROVE  /\ todo' \in [Runs -> {"create"} \union Updates \union Answers]
         /\ verdict' \in [Runs -> {"none", "success", "failed"}]
         /\ \A q \in Runs \ {r} : todo'[q] = todo[q] /\ verdict'[q] = verdict[q]
         /\ todo'[r] \in After(r)
         /\ verdict'[r] = IF todo[r] = "processing" THEN todo'[r] ELSE verdict[r]
<1>1. PICK next \in After(r) :
        /\ todo' = [todo EXCEPT ![r] = next]
        /\ verdict' = IF todo[r] = "processing" THEN [verdict EXCEPT ![r] = next] ELSE verdict
  BY DEF Proceed
<1>2. next \in {"create"} \union Updates \union Answers
      /\ (todo[r] = "processing" => next \in {"success", "failed"})
  BY <1>1 DEF After, Updates, Answers, TypeOK
<1> QED
  BY <1>1, <1>2 DEF TypeOK

LEMMA Throws ==
  ASSUME TypeOK, NEW r \in Runs, Throw(r)
  PROVE  /\ todo' \in [Runs -> {"create"} \union Updates \union Answers]
         /\ \A q \in Runs \ {r} : todo'[q] = todo[q]
         /\ todo'[r] = IF todo[r] = "rescue" THEN "threw" ELSE "rescue"
         /\ verdict' = verdict
BY DEF Throw, TypeOK, Updates, Answers

\* A query that Postgres carries out, is refused, and one that breaks off or is not sent.
LEMMA PostgresKeeps ==
  ASSUME IInv, NEW r \in Runs, PostgresDoes(r)
  PROVE  IInv'
<1> DEFINE p == rows["postgres"][r]
           m == rows["memory"][r]
<1>1. /\ todo[r] \notin Answers /\ wire[r] /\ Accepts("postgres", r) /\ Proceed(r)
      /\ rows' = [rows EXCEPT !["postgres"][r] = Status(todo[r])]
      /\ home' = IF todo[r] = "create" THEN [home EXCEPT ![r] = "postgres"] ELSE home
      /\ wire' = [wire EXCEPT ![r] = FALSE]
      /\ reunited' = [reunited EXCEPT ![r] = @ \/ diverted[r]]
      /\ degraded' = degraded /\ diverted' = diverted
  BY DEF PostgresDoes, Arrived, Write, IInv, WiresAreLive
<1>2. todo[r] \in {"create"} \union Updates /\ Status(todo[r]) \in Statuses
  BY <1>1 DEF IInv, TypeOK, Updates, Status, Statuses
<1>3. /\ todo' \in [Runs -> {"create"} \union Updates \union Answers]
      /\ verdict' \in [Runs -> {"none", "success", "failed"}]
      /\ \A q \in Runs \ {r} : todo'[q] = todo[q] /\ verdict'[q] = verdict[q]
      /\ todo'[r] \in After(r)
      /\ verdict'[r] = IF todo[r] = "processing" THEN todo'[r] ELSE verdict[r]
  BY <1>1, Proceeds DEF IInv
<1>4. rows' \in [Stores -> [Runs -> Statuses \union {"none"}]]
      /\ rows'["postgres"][r] = Status(todo[r]) /\ rows'["memory"][r] = m
      /\ \A q \in Runs \ {r}, s \in Stores : rows'[s][q] = rows[s][q]
  BY <1>1, <1>2 DEF IInv, TypeOK, Stores
<1>5. /\ home' \in [Runs -> Stores \union {"none"}] /\ wire' \in [Runs -> BOOLEAN]
      /\ reunited' \in [Runs -> BOOLEAN]
      /\ home'[r] = IF todo[r] = "create" THEN "postgres" ELSE home[r]
      /\ ~wire'[r] /\ (reunited'[r] <=> reunited[r] \/ diverted[r])
      /\ \A q \in Runs \ {r} : home'[q] = home[q] /\ wire'[q] = wire[q] /\ reunited'[q] = reunited[q]
  BY <1>1 DEF IInv, TypeOK, Stores
<1>6. Fits(p, m, home[r], todo[r], verdict[r], diverted[r], reunited[r])
  BY DEF IInv, Phase
<1>7. Fits(Status(todo[r]), m, home'[r], todo'[r], verdict'[r], diverted[r], reunited'[r])
  <2>1. todo[r] = "create" \/ (home[r] = "postgres" /\ CanTransition(p, Status(todo[r])))
    BY <1>1 DEF Accepts
  <2>2. CASE todo[r] = "create"
    <3>1. Status(todo[r]) = "pending" /\ todo'[r] = "validating" /\ verdict'[r] = verdict[r]
      BY <2>2, <1>3 DEF Status, After
    <3>2. home'[r] = "postgres" /\ m = "none" /\ verdict[r] = "none" /\ ~diverted[r] /\ ~reunited'[r]
      BY <2>2, <1>5, <1>6 DEF Fits
    <3>3. "pending" \in Reached("validating")
      BY DEF Reached
    <3> HIDE DEF m
    <3> QED
      BY <3>1, <3>2, <3>3 DEF Fits
  <2>3. CASE todo[r] # "create"
    <3>1. home[r] = "postgres" /\ home'[r] = "postgres"
      BY <2>1, <2>3, <1>5
    <3> QED
      BY <2>3, <3>1, <1>2, <1>3, <1>5, <1>6 DEF Fits, After, Status, Reached, Updates
  <2> QED
    BY <2>2, <2>3
<1>8. Fits(rows'["postgres"][r], rows'["memory"][r], home'[r], todo'[r], verdict'[r], diverted'[r], reunited'[r])
  BY <1>1, <1>4, <1>7
<1>9. degraded' \in BOOLEAN /\ diverted' \in [Runs -> BOOLEAN]
      /\ (\A q \in Runs \ {r} : diverted'[q] = diverted[q])
  BY <1>1 DEF IInv, TypeOK
<1>10. TypeOK /\ Phase /\ WiresAreLive
  BY DEF IInv
<1> QED
  BY <1>3, <1>4, <1>5, <1>8, <1>9, <1>10, Others

LEMMA RefusalKeeps ==
  ASSUME IInv, NEW r \in Runs, PostgresRefuses(r)
  PROVE  IInv'
<1> DEFINE p == rows["postgres"][r]
           m == rows["memory"][r]
<1>1. /\ todo[r] \notin Answers /\ wire[r] /\ ~Accepts("postgres", r) /\ Throw(r)
      /\ rows' = rows /\ home' = home
      /\ wire' = [wire EXCEPT ![r] = FALSE]
      /\ reunited' = [reunited EXCEPT ![r] = @ \/ diverted[r]]
      /\ degraded' = degraded /\ diverted' = diverted
  BY DEF PostgresRefuses, Arrived, IInv, WiresAreLive
<1>2. todo[r] \in Updates
  BY <1>1 DEF IInv, TypeOK, Accepts
<1>3. /\ todo' \in [Runs -> {"create"} \union Updates \union Answers]
      /\ \A q \in Runs \ {r} : todo'[q] = todo[q]
      /\ todo'[r] = IF todo[r] = "rescue" THEN "threw" ELSE "rescue"
      /\ verdict' = verdict
  BY <1>1, Throws DEF IInv
<1>4. /\ wire' \in [Runs -> BOOLEAN] /\ reunited' \in [Runs -> BOOLEAN]
      /\ ~wire'[r] /\ (reunited'[r] <=> reunited[r] \/ diverted[r])
      /\ \A q \in Runs \ {r} : wire'[q] = wire[q] /\ reunited'[q] = reunited[q]
  BY <1>1 DEF IInv, TypeOK
<1>5. Fits(p, m, home[r], todo[r], verdict[r], diverted[r], reunited[r])
  BY DEF IInv, Phase
<1>6. home[r] # "postgres" \/ ~CanTransition(p, Status(todo[r]))
  BY <1>1 DEF Accepts
<1>7. Fits(p, m, home[r], todo'[r], verdict[r], diverted[r], reunited'[r])
  <2>1. home[r] \in Stores
    BY <1>2, <1>5 DEF Fits, IInv, TypeOK, Updates
  <2>2. CASE home[r] = "memory"
    BY <2>2, <1>2, <1>3, <1>4, <1>5 DEF Fits, Reached, Updates, Open
  <2>3. CASE home[r] = "postgres"
    <3>1. p \in Open
      BY <2>3, <1>2, <1>5 DEF Fits, Open, Updates, IInv, TypeOK, Stores, Statuses
    <3>2. ~CanTransition(p, Status(todo[r]))
      BY <2>3, <1>6
    <3>3. todo[r] # "rescue"
      BY <3>1, <3>2 DEF Open, CanTransition, AllowedTransitions, Status
    <3>4. ASSUME ~diverted[r] PROVE FALSE
      <4>1. p \in Reached(todo[r])
        BY <3>4, <2>3, <1>5 DEF Fits
      <4> HIDE DEF p
      <4> QED
        BY <4>1, <3>2, <1>2, NextMoveIsLegal
    <3> QED
      <4>1. todo'[r] = "rescue" /\ reunited'[r] /\ diverted[r]
        BY <3>3, <3>4, <1>3, <1>4
      <4>2. m = "none" /\ p # "none" /\ p # "success" /\ p # "failed"
        BY <2>3, <3>1, <1>5 DEF Fits, Open
      <4> HIDE DEF p, m
      <4> QED
        BY <2>3, <4>1, <4>2 DEF Fits
  <2> QED
    BY <2>1, <2>2, <2>3 DEF Stores
<1>8. Fits(rows'["postgres"][r], rows'["memory"][r], home'[r], todo'[r], verdict'[r], diverted'[r], reunited'[r])
  BY <1>1, <1>3, <1>7
<1>9. TypeOK /\ Phase /\ WiresAreLive
  BY DEF IInv
<1>10. /\ rows' \in [Stores -> [Runs -> Statuses \union {"none"}]]
       /\ home' \in [Runs -> Stores \union {"none"}] /\ degraded' \in BOOLEAN
       /\ verdict' \in [Runs -> {"none", "success", "failed"}] /\ diverted' \in [Runs -> BOOLEAN]
       /\ \A q \in Runs \ {r} : /\ \A s \in Stores : rows'[s][q] = rows[s][q]
                                /\ home'[q] = home[q] /\ verdict'[q] = verdict[q] /\ diverted'[q] = diverted[q]
  BY <1>1, <1>3 DEF IInv, TypeOK
<1> QED
  BY <1>3, <1>4, <1>8, <1>9, <1>10, Others

\* A call that the memory store answers, whether or not Postgres has done its part of it.
LEMMA DivertKeeps ==
  ASSUME IInv, NEW r \in Runs, todo[r] \notin Answers, NEW base, Divert(r, base),
         \/ base = rows
         \/ base = [rows EXCEPT !["postgres"][r] = Status(todo[r])] /\ Accepts("postgres", r),
         degraded' \in BOOLEAN, wire' \in [Runs -> BOOLEAN], ~wire'[r],
         \A q \in Runs \ {r} : wire'[q] = wire[q]
  PROVE  IInv'
<1> DEFINE p == rows["postgres"][r]
           m == rows["memory"][r]
           call == todo[r]
<1>1. /\ rows' = IF Accepts("memory", r) THEN [base EXCEPT !["memory"][r] = Status(call)] ELSE base
      /\ Accepts("memory", r) \/ home[r] = "postgres"
      /\ Proceed(r)
      /\ home' = IF call = "create" THEN [home EXCEPT ![r] = "memory"] ELSE home
      /\ diverted' = [diverted EXCEPT ![r] = TRUE]
      /\ reunited' = reunited
  BY DEF Divert, MemoryDoes
<1>2. call \in {"create"} \union Updates /\ Status(call) \in Statuses
  BY DEF IInv, TypeOK, Updates, Status, Statuses
<1>3. /\ todo' \in [Runs -> {"create"} \union Updates \union Answers]
      /\ verdict' \in [Runs -> {"none", "success", "failed"}]
      /\ \A q \in Runs \ {r} : todo'[q] = todo[q] /\ verdict'[q] = verdict[q]
      /\ todo'[r] \in After(r)
      /\ verdict'[r] = IF call = "processing" THEN todo'[r] ELSE verdict[r]
  BY <1>1, Proceeds DEF IInv
<1>4. /\ base \in [Stores -> [Runs -> Statuses \union {"none"}]]
      /\ base["memory"][r] = m
      /\ base["postgres"][r] = p \/ (base["postgres"][r] = Status(call) /\ Accepts("postgres", r))
      /\ \A q \in Runs \ {r}, s \in Stores : base[s][q] = rows[s][q]
  <2>1. CASE base = rows
    BY <2>1 DEF IInv, TypeOK
  <2>2. CASE base = [rows EXCEPT !["postgres"][r] = Status(call)] /\ Accepts("postgres", r)
    <3> HIDE DEF call
    <3> QED
      BY <2>2, <1>2 DEF IInv, TypeOK, Stores
  <2> QED
    BY <2>1, <2>2
<1>5. /\ rows' \in [Stores -> [Runs -> Statuses \union {"none"}]]
      /\ rows'["postgres"][r] = base["postgres"][r]
      /\ rows'["memory"][r] = IF Accepts("memory", r) THEN Status(call) ELSE m
      /\ \A q \in Runs \ {r}, s \in Stores : rows'[s][q] = rows[s][q]
  <2> HIDE DEF call
  <2> QED
    BY <1>1, <1>2, <1>4 DEF Stores
<1>6. /\ home' \in [Runs -> Stores \union {"none"}] /\ diverted' \in [Runs -> BOOLEAN]
      /\ home'[r] = IF call = "create" THEN "memory" ELSE home[r]
      /\ diverted'[r]
      /\ \A q \in Runs \ {r} : home'[q] = home[q] /\ diverted'[q] = diverted[q]
  BY <1>1 DEF IInv, TypeOK, Stores
<1>7. Fits(p, m, home[r], call, verdict[r], diverted[r], reunited[r])
  BY DEF IInv, Phase
<1>8. Fits(rows'["postgres"][r], rows'["memory"][r], home'[r], todo'[r], verdict'[r], diverted'[r], reunited'[r])
  <2>1. CASE call = "create"
    <3>1. Status(call) = "pending" /\ todo'[r] = "validating" /\ verdict'[r] = verdict[r] /\ Accepts("memory", r)
      BY <2>1, <1>3 DEF Status, After, Accepts
    <3>2. home'[r] = "memory" /\ p = "none" /\ verdict[r] = "none" /\ ~reunited[r]
      BY <2>1, <1>6, <1>7 DEF Fits
    <3>3. "pending" \in Reached("validating")
      BY DEF Reached
    <3>4. rows'["memory"][r] = "pending" /\ rows'["postgres"][r] \in {"none", "pending"}
      BY <1>4, <1>5, <3>1, <3>2
    <3> HIDE DEF p, m, call
    <3> QED
      BY <3>1, <3>2, <3>3, <3>4, <1>1, <1>6 DEF Fits
  <2>2. CASE home[r] = "memory"
    <3>1. call \in Updates /\ Accepts("memory", r) /\ ~Accepts("postgres", r)
      BY <2>2, <1>1, <1>2, <1>7 DEF Fits, Accepts
    <3>2. rows'["memory"][r] = Status(call) /\ rows'["postgres"][r] = p /\ home'[r] = "memory"
      BY <2>2, <3>1, <1>4, <1>5, <1>6, <1>7 DEF Fits
    <3>3. p \in {"none", "pending"} /\ diverted'[r] /\ reunited'[r] = reunited[r]
          /\ (call = "rescue" => reunited[r])
      BY <2>2, <1>1, <1>6, <1>7 DEF Fits
    <3>4. verdict'[r] = "success" \/ todo'[r] \notin {"success", "answered ok"}
      BY <3>1, <1>3, <1>7, CallOrder DEF Fits
    <3>5. verdict'[r] # "success" \/ todo'[r] \notin {"validating", "processing", "failed"}
      BY <3>1, <1>3, <1>7, CallOrder DEF Fits
    <3>6. todo'[r] = "answered failed" /\ verdict'[r] = "success" => reunited[r]
      BY <3>1, <1>3, <1>7, CallOrder DEF Fits
    <3>7. Status(call) \in Reached(todo'[r]) /\ todo'[r] \notin {"create", "rescue", "threw"}
      BY <3>1, <1>3, CallOrder
    <3> HIDE DEF p, m, call
    <3> QED
      BY <3>2, <3>3, <3>4, <3>5, <3>6, <3>7 DEF Fits
  <2>3. CASE home[r] = "postgres"
    <3>1. call \in Updates /\ ~Accepts("memory", r)
      BY <2>3, <1>2, <1>7 DEF Fits, Accepts
    <3>2. rows'["memory"][r] = "none" /\ home'[r] = "postgres"
      BY <2>3, <3>1, <1>5, <1>6, <1>7 DEF Fits
    <3>3. rows'["postgres"][r] = p \/ rows'["postgres"][r] = Status(call)
      BY <1>4, <1>5
    <3>4. p \notin {"none", "success", "failed"} /\ diverted'[r] /\ reunited'[r] = reunited[r]
          /\ (call = "rescue" => reunited[r])
      BY <2>3, <3>1, <1>1, <1>6, <1>7 DEF Fits, Updates
    <3>5. verdict'[r] = "success" \/ todo'[r] \notin {"success", "answered ok"}
      BY <3>1, <1>3, <1>7, CallOrder DEF Fits
    <3>6. verdict'[r] # "success" \/ todo'[r] \notin {"validating", "processing", "failed"}
      BY <3>1, <1>3, <1>7, CallOrder DEF Fits
    <3>7. todo'[r] = "answered failed" /\ verdict'[r] = "success" => reunited[r]
      BY <3>1, <1>3, <1>7, CallOrder DEF Fits
    <3>8. /\ todo'[r] \notin {"create", "rescue", "threw"}
          /\ Status(call) = "success" => todo'[r] = "answered ok"
          /\ Status(call) = "failed" => todo'[r] = "answered failed"
          /\ Status(call) # "none"
      BY <3>1, <1>3, CallOrder
    <3> HIDE DEF p, m, call
    <3> QED
      BY <3>2, <3>3, <3>4, <3>5, <3>6, <3>7, <3>8 DEF Fits
  <2> QED
    BY <2>1, <2>2, <2>3, <1>1, <1>7 DEF Fits, Accepts
<1>9. TypeOK /\ Phase /\ WiresAreLive
  BY DEF IInv
<1>10. reunited' \in [Runs -> BOOLEAN] /\ \A q \in Runs \ {r} : reunited'[q] = reunited[q]
  BY <1>1 DEF IInv, TypeOK
<1>11. /\ wire'[r] => todo'[r] \notin Answers
       /\ \A q \in Runs \ {r} :
            /\ \A s \in Stores : rows'[s][q] = rows[s][q]
            /\ home'[q] = home[q] /\ wire'[q] = wire[q] /\ todo'[q] = todo[q]
            /\ verdict'[q] = verdict[q] /\ diverted'[q] = diverted[q] /\ reunited'[q] = reunited[q]
  BY <1>3, <1>5, <1>6, <1>10
<1>12. rows' \in [Stores -> [Runs -> Statuses \union {"none"}]]
  BY <1>5
<1> QED
  BY <1>3, <1>6, <1>8, <1>9, <1>10, <1>11, <1>12, Others

LEMMA StepIInv == IInv /\ [Next]_vars => IInv'
<1> SUFFICES ASSUME IInv, [Next]_vars PROVE IInv'
  OBVIOUS
<1>1. ASSUME UNCHANGED <<rows, home, todo, verdict, diverted, reunited>>, degraded' \in BOOLEAN,
             wire' \in [Runs -> BOOLEAN], \A r \in Runs : wire'[r] => todo[r] \notin Answers
      PROVE  IInv'
  BY <1>1 DEF IInv, TypeOK, Phase, WiresAreLive
<1>2. ASSUME NEW r \in Runs, Send(r) PROVE IInv'
  BY <1>1, <1>2 DEF Send, Live, IInv, TypeOK, WiresAreLive
<1>3. ASSUME NEW r \in Runs, Lost(r) PROVE IInv'
  <2>1. /\ todo[r] \notin Answers /\ degraded' \in BOOLEAN /\ wire' \in [Runs -> BOOLEAN] /\ ~wire'[r]
        /\ \A q \in Runs \ {r} : wire'[q] = wire[q]
    BY <1>3 DEF Lost, IInv, TypeOK, WiresAreLive
  <2>2. CASE Divert(r, rows)
    BY <2>1, <2>2, DivertKeeps
  <2>3. CASE Accepts("postgres", r) /\ Divert(r, [rows EXCEPT !["postgres"][r] = Status(todo[r])])
    BY <2>1, <2>3, DivertKeeps
  <2> QED
    BY <1>3, <2>2, <2>3 DEF Lost
<1>4. ASSUME NEW r \in Runs, Skip(r) PROVE IInv'
  <2>1. /\ todo[r] \notin Answers /\ Divert(r, rows)
        /\ degraded' \in BOOLEAN /\ wire' \in [Runs -> BOOLEAN] /\ ~wire'[r]
        /\ \A q \in Runs \ {r} : wire'[q] = wire[q]
    BY <1>4 DEF Skip, Live, IInv, TypeOK
  <2> QED
    BY <2>1, DivertKeeps
<1>5. CASE RetryWindowEnds
  BY <1>1, <1>5 DEF RetryWindowEnds, IInv, TypeOK, WiresAreLive
<1>6. CASE UNCHANGED vars
  BY <1>1, <1>6 DEF vars, IInv, TypeOK, WiresAreLive
<1> QED
  BY <1>2, <1>3, <1>4, <1>5, <1>6, PostgresKeeps, RefusalKeeps DEF Next, Call

\* IInv holds throughout.
THEOREM Invariance == Spec => []IInv
<1> QED
  BY InitIInv, StepIInv, PTL DEF Spec

-----------------------------------------------------------------------------
(* What the runs check, for any number of runs.                             *)

\* Every variable keeps its type, and the id a run holds names a row of the store that issued it.
THEOREM TypeCorrect == Spec => []TypeOK
<1> QED
  BY Invariance, PTL DEF IInv

\* As long as the database does not come back during the run, createResilientJobStore never turns
\* a tool's success into another answer.
THEOREM OutagesAreHarmless == Spec => []OutageAloneIsHarmless
<1>1. IInv => OutageAloneIsHarmless
  BY DEF IInv, Phase, Fits, OutageAloneIsHarmless
<1> QED
  BY <1>1, Invariance, PTL

\* What makes runPipeline throw is an update, in Postgres, of a row that lives in memory.
THEOREM ThrowsAreForeignRows == Spec => []ThrowsOnlyForeignRows
<1>1. IInv => ThrowsOnlyForeignRows
  <2> SUFFICES ASSUME IInv, NEW r \in Runs, todo[r] = "threw" PROVE home[r] = "memory" /\ reunited[r]
    BY DEF ThrowsOnlyForeignRows
  <2>1. Fits(rows["postgres"][r], rows["memory"][r], home[r], "threw", verdict[r], diverted[r], reunited[r])
    BY DEF IInv, Phase
  <2>2. home[r] \in Stores \union {"none"}
    BY DEF IInv, TypeOK
  <2> QED
    BY <2>1, <2>2 DEF Fits, Stores
<1> QED
  BY <1>1, Invariance, PTL

\* Neither store ever keeps the opposite of what the caller of the tool was told.
THEOREM RecordsAgree == Spec => []NoContradiction
<1>1. IInv => NoContradiction
  <2> SUFFICES ASSUME IInv, NEW r \in Runs
               PROVE  \A s \in Stores : /\ todo[r] = "answered ok" => rows[s][r] # "failed"
                                        /\ todo[r] = "answered failed" => rows[s][r] # "success"
    BY DEF NoContradiction
  <2>1. Fits(rows["postgres"][r], rows["memory"][r], home[r], todo[r], verdict[r], diverted[r], reunited[r])
    BY DEF IInv, Phase
  <2>2. home[r] \in Stores \union {"none"}
    BY DEF IInv, TypeOK
  <2>3. Reached("answered ok") = {"success"} /\ Reached("answered failed") = {"failed"}
    BY DEF Reached
  <2> QED
    BY <2>1, <2>2, <2>3 DEF Fits, Stores
<1> QED
  BY <1>1, Invariance, PTL

\* A run none of whose calls was diverted leaves no open row in the history.
THEOREM OpenRowsHaveReasons == Spec => []OpenRowsTellOfOutages
<1>1. IInv => OpenRowsTellOfOutages
  <2> SUFFICES ASSUME IInv, NEW r \in Runs, todo[r] \in Answers, ~diverted[r]
               PROVE  rows["postgres"][r] \in {"success", "failed"}
    BY DEF OpenRowsTellOfOutages
  <2>1. Fits(rows["postgres"][r], rows["memory"][r], home[r], todo[r], verdict[r], diverted[r], reunited[r])
    BY DEF IInv, Phase
  <2>2. home[r] = "postgres"
    BY <2>1 DEF IInv, TypeOK, Fits, Stores, Answers
  <2>3. Reached("answered ok") = {"success"} /\ Reached("answered failed") = {"failed"}
    BY DEF Reached
  <2> QED
    BY <2>1, <2>2, <2>3 DEF Fits, Answers
<1> QED
  BY <1>1, Invariance, PTL
=============================================================================
