---------------------------- MODULE AccountsProofs ----------------------------
(***************************************************************************)
(* Proofs about Accounts, for any number of handlers, addresses and codes. *)
(*                                                                         *)
(* Guesses: a wrong code that is still to be counted was let through below *)
(* the limit, and there is one per handler at most.                        *)
(*                                                                         *)
(* Moves: a code is on its way to one mailbox, or was delivered to it and  *)
(* never will be again; first codes go to addresses the account has had;   *)
(* and the second code of a row goes where the row says, unless the code   *)
(* whose confirmation wrote it is older than the row.                      *)
(***************************************************************************)
EXTENDS Accounts, FiniteSetTheorems, TLAPS

Handlers == [pc : Pcs, key : Keys, to : Addresses, code : 0..MaxCodes, box : Addresses,
             first : 0..MaxCodes, by : 0..MaxCodes]

\* What a handler has read and made is in keeping with the row and the mailboxes.
Fits(x) ==
  /\ x.pc \in {"checking", "asked", "put", "advance", "taken", "move"} => x.to \in Emails
  /\ x.pc \in {"checking", "asked", "put"} /\ x.key = Change => x.box \in had
  /\ x.pc \in {"mail", "advance", "taken", "move"} => x.code \in 1..issued
  /\ x.pc = "mail" =>
       /\ mailed[x.code] = Nobody
       /\ x.code = row[Change].first => x.box \in had
       /\ x.code = row[Change].second => row[Change].by < row[Change].first \/ x.box = row[Change].to
  /\ x.pc = "advance" =>
       /\ mailed[x.code] \in had
       /\ x.code <= row[Change].first \/ row[Change] = NoRow
       /\ x.code = row[Change].first => x.to = row[Change].to
  /\ x.pc \in {"taken", "move"} /\ x.key = Change =>
       /\ x.by \in 1..issued /\ mailed[x.by] \in had
       /\ x.by < x.first \/ mailed[x.code] = x.to

RowsFit ==
  /\ \A k \in Keys : /\ row[k].first <= issued /\ row[k].second <= issued
                     /\ row[k] # NoRow => row[k].to \in Emails
  /\ LET r == row[Change] IN
     /\ r.first # 0 => mailed[r.first] \in had \union {Nobody}
     /\ r.second # 0 => /\ r.by \in 1..issued /\ mailed[r.by] \in had
                        /\ r.by < r.first \/ mailed[r.second] \in {Nobody, r.to}

MailedOnce ==
  \A c, d \in Callers :
    caller[c].pc = "mail" /\ caller[d].pc = "mail" /\ caller[c].code = caller[d].code => c = d

\* The handlers that have seen a wrong code and not yet counted it.
Counting(k) == {c \in Callers : caller[c].pc = "count" /\ caller[c].key = k}

Guesses == \A k \in Keys : row[k].tries + Cardinality(Counting(k)) <= MaxAttempts - 1 + Cardinality(Callers)

Codings == TypeOK /\ addr \in had /\ (\A c \in Callers : Fits(caller[c])) /\ RowsFit /\ MailedOnce

IInv == Codings /\ Guesses

-----------------------------------------------------------------------------
LEMMA Blanks == Idle \in Handlers /\ NoRow \in Rows /\ Change \in Keys /\ Home \in Emails
                /\ 0 \in 0..MaxCodes /\ Emails \subseteq Addresses /\ Nobody \in Addresses
BY AccountsAssumption DEF AccountsAssumption, Idle, Handlers, NoRow, Rows, Keys, Addresses, Pcs

LEMMA Counts ==
  /\ Cardinality(Callers) \in Nat
  /\ \A S \in SUBSET Callers : IsFiniteSet(S) /\ Cardinality(S) \in Nat /\ Cardinality(S) <= Cardinality(Callers)
BY AccountsAssumption, FS_Subset, FS_CardinalityType DEF AccountsAssumption

LEMMA InitIInv == Init => IInv
<1> SUFFICES ASSUME Init PROVE IInv
  OBVIOUS
<1> USE Blanks
<1>1. TypeOK
  BY DEF Init, TypeOK, Handlers
<1>2. \A c \in Callers : caller[c].pc = "idle"
  BY DEF Init, Idle
<1>3. \A k \in Keys : row[k].first = 0 /\ row[k].second = 0 /\ row[k].tries = 0
  BY DEF Init, NoRow
<1>4. (\A c \in Callers : Fits(caller[c])) /\ MailedOnce
  BY <1>2 DEF Fits, MailedOnce
<1>5. RowsFit
  BY <1>3 DEF Init, RowsFit
<1>a. addr \in had
  BY DEF Init
<1>6. Guesses
  <2>1. MaxAttempts - 1 \in Nat
    BY AccountsAssumption DEF AccountsAssumption
  <2> QED
    BY <1>3, <2>1, Counts DEF Guesses, Counting
<1> QED
  BY <1>1, <1>4, <1>5, <1>a, <1>6 DEF IInv, Codings

-----------------------------------------------------------------------------
(* Codes and mailboxes.                                                     *)

\* One handler goes on, and nothing else changes.
LEMMA HandlerMoves ==
  ASSUME Codings, NEW c \in Callers, NEW x \in Handlers, caller' = [caller EXCEPT ![c] = x],
         Fits(x), x.pc # "mail", addr' \in had', had \subseteq had', had' \subseteq Emails,
         others' \subseteq Emails, UNCHANGED <<row, issued, mailed>>
  PROVE  Codings'
<1>1. caller'[c] = x /\ \A d \in Callers \ {c} : caller'[d] = caller[d]
  BY DEF Codings, TypeOK
<1>2. TypeOK'
  BY DEF Codings, TypeOK, Handlers
<1>3. \A d \in Callers : Fits(caller[d])'
  BY <1>1 DEF Codings, Fits
<1>4. RowsFit'
  BY DEF Codings, RowsFit
<1>5. MailedOnce'
  BY <1>1 DEF Codings, MailedOnce
<1> QED
  BY <1>2, <1>3, <1>4, <1>5 DEF Codings

\* A row goes, expires or counts a try; handlers may become idle.
LEMMA RowFades ==
  ASSUME Codings, NEW k \in Keys, NEW r \in Rows, row' = [row EXCEPT ![k] = r],
         r = NoRow \/ (/\ row[k] # NoRow /\ r.to = row[k].to /\ r.first = row[k].first
                       /\ r.second = row[k].second /\ r.by = row[k].by),
         caller' \in [Callers -> Handlers], \A d \in Callers : caller'[d] \in {caller[d], Idle},
         UNCHANGED <<addr, had, others, issued, mailed>>
  PROVE  Codings'
<1> USE Blanks
<1>1. /\ \A q \in Keys : row'[q] = IF q = k THEN r ELSE row[q]
      /\ \A q \in Keys : row'[q] = NoRow \/ (/\ row[q] # NoRow /\ row'[q].to = row[q].to
                                             /\ row'[q].first = row[q].first
                                             /\ row'[q].second = row[q].second
                                             /\ row'[q].by = row[q].by)
  BY DEF Codings, TypeOK
<1>2. NoRow.first = 0 /\ NoRow.second = 0 /\ issued \in Nat
  BY DEF NoRow, Codings, TypeOK
<1>3. TypeOK'
  BY DEF Codings, TypeOK, Handlers
<1>4. ASSUME NEW d \in Callers PROVE Fits(caller[d])'
  <2>1. CASE caller'[d] = Idle
    BY <2>1 DEF Idle, Fits
  <2>2. CASE caller'[d] = caller[d]
    <3>1. Fits(caller[d])
      BY DEF Codings
    <3>2. CASE row'[Change] = NoRow
      BY <1>2, <2>2, <3>1, <3>2 DEF Fits
    <3>3. CASE row'[Change] # NoRow
      BY <1>1, <2>2, <3>1, <3>3 DEF Fits
    <3> QED
      BY <3>2, <3>3
  <2> QED
    BY <2>1, <2>2
<1>5. RowsFit'
  BY <1>1, <1>2 DEF Codings, RowsFit
<1>6. MailedOnce'
  BY DEF Codings, MailedOnce, Idle
<1> QED
  BY <1>3, <1>4, <1>5, <1>6 DEF Codings

\* A new code, for a row that it makes or completes, on its way to its mailbox.
LEMMA CodeIsMade ==
  ASSUME Codings, NEW c \in Callers, NEW k \in Keys, NEW r \in Rows, NEW x \in Handlers,
         issued < MaxCodes, issued' = issued + 1,
         row' = [row EXCEPT ![k] = r], caller' = [caller EXCEPT ![c] = x],
         x.pc = "mail", x.code = issued + 1, r.to \in Emails,
         \/ r.first = issued + 1 /\ r.second = 0 /\ (k = Change => x.box \in had)
         \/ /\ k = Change /\ row[k] # NoRow /\ r.first = row[k].first /\ r.to = row[k].to /\ r.second = issued + 1
            /\ r.by \in 1..issued /\ mailed[r.by] \in had
            /\ r.by < r.first \/ x.box = r.to,
         UNCHANGED <<addr, had, others, mailed>>
  PROVE  Codings'
<1>1. /\ caller'[c] = x /\ \A d \in Callers \ {c} : caller'[d] = caller[d]
      /\ row'[k] = r /\ \A q \in Keys \ {k} : row'[q] = row[q]
  BY DEF Codings, TypeOK
<1>2. issued \in Nat /\ issued + 1 \in Codes /\ mailed[issued + 1] = Nobody
      /\ \A q \in Keys : row[q].first \in 0..issued /\ row[q].second \in 0..issued
  BY AccountsAssumption DEF AccountsAssumption, Codings, TypeOK, RowsFit, Codes, Rows
<1>3. TypeOK'
  <2>1. \A n \in Codes : mailed'[n] # Nobody => n <= issued'
    BY <1>2, AccountsAssumption DEF AccountsAssumption, Codes, Codings, TypeOK
  <2>2. issued' \in 0..MaxCodes
    BY <1>2, AccountsAssumption DEF AccountsAssumption
  <2> QED
    BY <2>1, <2>2 DEF Codings, TypeOK, Handlers
<1>4. ASSUME NEW d \in Callers PROVE Fits(caller[d])'
  <2>1. CASE d = c
    <3>1. x.code \in 1..issued' /\ mailed'[x.code] = Nobody
      BY <1>2
    <3>2. /\ x.code = row'[Change].second => row'[Change].by < row'[Change].first \/ x.box = row'[Change].to
          /\ x.code = row'[Change].first => x.box \in had
      BY <1>1, <1>2, Blanks
    <3> QED
      BY <1>1, <2>1, <3>1, <3>2 DEF Fits
  <2>2. CASE d # c
    <3>1. Fits(caller[d]) /\ caller'[d] = caller[d]
      BY <1>1, <2>2 DEF Codings
    <3>2. CASE row'[Change] = row[Change]
      BY <1>2, <3>1, <3>2 DEF Fits
    <3>3. CASE row'[Change].first = issued + 1 /\ row'[Change].second = 0
      BY <1>2, <3>1, <3>3 DEF Fits
    <3>4. CASE /\ row[Change] # NoRow /\ row'[Change].first = row[Change].first
               /\ row'[Change].to = row[Change].to /\ row'[Change].second = issued + 1
      <4>1. row[Change].first \in Nat
        BY <1>2, Blanks
      <4> QED
        BY <1>2, <3>1, <3>4, <4>1 DEF Fits
    <3> QED
      BY <1>1, <3>2, <3>3, <3>4, Blanks
  <2> QED
    BY <2>1, <2>2
<1>5. RowsFit'
  <2>1. \A q \in Keys : /\ row'[q].first <= issued' /\ row'[q].second <= issued'
                        /\ row'[q] # NoRow => row'[q].to \in Emails
    BY <1>1, <1>2 DEF Codings, RowsFit
  <2>2. CASE k = Change
    <3>1. CASE r.first = issued + 1 /\ r.second = 0
      BY <1>1, <1>2, <2>1, <2>2, <3>1 DEF RowsFit
    <3>2. CASE /\ r.first = row[k].first /\ r.second = issued + 1 /\ r.by \in 1..issued
               /\ mailed[r.by] \in had
      BY <1>1, <1>2, <2>1, <2>2, <3>2 DEF Codings, RowsFit
    <3> QED
      BY <3>1, <3>2
  <2>3. CASE k # Change
    BY <1>1, <1>2, <2>1, <2>3, Blanks DEF Codings, RowsFit
  <2> QED
    BY <2>2, <2>3
<1>6. MailedOnce'
  <2>1. \A d \in Callers : caller[d].pc = "mail" => caller[d].code # issued + 1
    BY <1>2 DEF Codings, Fits
  <2> QED
    BY <1>1, <2>1 DEF Codings, MailedOnce
<1> QED
  BY <1>3, <1>4, <1>5, <1>6 DEF Codings

\* A code arrives.
LEMMA CodeArrives ==
  ASSUME Codings, NEW c \in Callers, caller[c].pc = "mail",
         mailed' = [mailed EXCEPT ![caller[c].code] = caller[c].box], caller' = [caller EXCEPT ![c] = Idle],
         UNCHANGED <<addr, had, others, row, issued>>
  PROVE  Codings'
<1> DEFINE n == caller[c].code
<1>1. Fits(caller[c]) /\ issued \in 0..MaxCodes /\ caller[c].box \in Addresses
  BY DEF Codings, TypeOK
<1>2. n \in 1..issued /\ n \in Codes /\ mailed[n] = Nobody
  BY <1>1, AccountsAssumption DEF AccountsAssumption, Fits, Codes
<1> HIDE DEF n
<1>3. /\ caller'[c] = Idle /\ \A d \in Callers \ {c} : caller'[d] = caller[d]
      /\ mailed'[n] = caller[c].box /\ \A m \in Codes \ {n} : mailed'[m] = mailed[m]
  BY <1>2 DEF Codings, TypeOK, n
<1>4. TypeOK'
  BY <1>1, <1>2, <1>3, Blanks DEF Codings, TypeOK, Handlers, n
<1>5. ASSUME NEW d \in Callers PROVE Fits(caller[d])'
  <2>1. CASE d = c
    BY <1>3, <2>1 DEF Fits, Idle
  <2>2. CASE d # c
    <3>1. Fits(caller[d]) /\ caller'[d] = caller[d]
      BY <1>3, <2>2 DEF Codings
    <3>2. caller[d].pc = "mail" => caller[d].code # n
      BY <2>2 DEF Codings, MailedOnce, n
    <3>3. /\ caller[d].pc \in {"mail", "advance", "taken", "move"} => caller[d].code \in Codes
          /\ caller[d].by \in 1..issued => caller[d].by \in Codes
      BY <1>1, <3>1, AccountsAssumption DEF AccountsAssumption, Fits, Codes
    <3>4. \A m \in Codes : mailed[m] # Nobody => mailed'[m] = mailed[m]
      BY <1>2, <1>3
    <3>5. Nobody \notin had /\ Nobody \notin Emails
      BY AccountsAssumption DEF AccountsAssumption, Codings, TypeOK
    <3>6. CASE caller[d].pc = "mail"
      BY <1>3, <3>1, <3>2, <3>3, <3>6 DEF Fits
    <3>7. CASE caller[d].pc # "mail"
      BY <3>1, <3>3, <3>4, <3>5, <3>7 DEF Fits
    <3> QED
      BY <3>6, <3>7
  <2> QED
    BY <2>1, <2>2
<1>6. RowsFit'
  <2>1. /\ row[Change].second = n => row[Change].by < row[Change].first \/ caller[c].box = row[Change].to
        /\ row[Change].first = n => caller[c].box \in had
    BY <1>1 DEF Fits, n
  <2>2. row[Change].second \in 0..MaxCodes /\ row[Change].first \in 0..MaxCodes /\ RowsFit
    BY Blanks DEF Codings, TypeOK, Rows
  <2>3. Nobody \notin had
    BY AccountsAssumption DEF AccountsAssumption, Codings, TypeOK
  <2>4. \A m \in Codes : mailed[m] # Nobody => mailed'[m] = mailed[m]
    BY <1>2, <1>3
  <2>5. row[Change].first # 0 => mailed'[row[Change].first] \in had \union {Nobody}
    BY <1>3, <2>1, <2>2 DEF RowsFit, Codes
  <2>6. row[Change].second # 0 =>
          /\ row[Change].by \in 1..issued /\ mailed'[row[Change].by] \in had
          /\ row[Change].by < row[Change].first \/ mailed'[row[Change].second] \in {Nobody, row[Change].to}
    <3>1. 1..issued \subseteq Codes
      BY <1>1, AccountsAssumption DEF AccountsAssumption, Codes
    <3>2. row[Change].second # 0 => mailed'[row[Change].by] \in had
      BY <2>2, <2>3, <2>4, <3>1 DEF RowsFit
    <3> QED
      BY <1>3, <2>1, <2>2, <3>2 DEF RowsFit, Codes
  <2> QED
    BY <2>2, <2>5, <2>6 DEF RowsFit
<1>7. MailedOnce'
  BY <1>3 DEF Codings, MailedOnce, Idle
<1> QED
  BY <1>4, <1>5, <1>6, <1>7 DEF Codings

LEMMA Records ==
  ASSUME TypeOK, NEW c \in Callers
  PROVE  caller[c] \in Handlers
BY DEF TypeOK, Handlers

LEMMA Rejected ==
  ASSUME Codings, NEW c \in Callers, NEW k \in Keys, NEW p \in {"drop", "count", "idle"},
         caller' = [caller EXCEPT ![c] = [Idle EXCEPT !.pc = p, !.key = k]],
         UNCHANGED <<addr, had, others, row, issued, mailed>>
  PROVE  Codings'
<1> DEFINE x == [Idle EXCEPT !.pc = p, !.key = k]
<1>1. x \in Handlers /\ x.pc = p
  BY Blanks DEF Handlers, Pcs, Idle
<1>2. Fits(x)
  BY <1>1 DEF Fits
<1> HIDE DEF x
<1> QED
  BY <1>1, <1>2, HandlerMoves DEF x, Codings, TypeOK

LEMMA Finished ==
  ASSUME Codings, NEW c \in Callers, Done(c), UNCHANGED <<addr, had, others, row, issued, mailed>>
  PROVE  Codings'
<1>1. Idle.pc = "idle" /\ Fits(Idle)
  BY DEF Idle, Fits
<1> QED
  BY <1>1, Blanks, HandlerMoves DEF Done, Codings, TypeOK

\* The right code of a pending row: what follows is the row's own address.
LEMMA Accepted ==
  ASSUME Codings, NEW c \in Callers, NEW k \in Keys, NEW code, NEW next, row[k] # NoRow, code # 0,
         \/ k = Change /\ next = "advance" /\ code = row[k].first /\ mailed[code] # Nobody
         \/ k = Change /\ next = "taken" /\ code = row[k].second /\ mailed[code] # Nobody
         \/ k # Change /\ next = "taken" /\ code = row[k].first,
         caller' = [caller EXCEPT ![c] = [Idle EXCEPT !.pc = next, !.key = k, !.to = row[k].to, !.code = code,
                                                      !.first = row[k].first, !.by = row[k].by]],
         UNCHANGED <<addr, had, others, row, issued, mailed>>
  PROVE  Codings'
<1> DEFINE x == [Idle EXCEPT !.pc = next, !.key = k, !.to = row[k].to, !.code = code,
                             !.first = row[k].first, !.by = row[k].by]
<1>1. row[k] \in Rows /\ row[k].to \in Emails /\ issued \in 0..MaxCodes
  BY DEF Codings, TypeOK, RowsFit
<1>2. code \in 1..issued /\ code \in 0..MaxCodes
  BY <1>1, AccountsAssumption DEF AccountsAssumption, Rows, Codings, RowsFit
<1>3. x \in Handlers /\ x.pc = next /\ x.key = k /\ x.to = row[k].to /\ x.code = code
      /\ x.first = row[k].first /\ x.by = row[k].by
  BY <1>1, <1>2, Blanks DEF Handlers, Rows, Pcs, Idle
<1> HIDE DEF x
<1>4. Fits(x)
  <2>1. CASE k = Change /\ next = "advance" /\ code = row[k].first /\ mailed[code] # Nobody
    <3>1. mailed[code] \in had
      BY <2>1 DEF Codings, RowsFit
    <3> QED
      BY <1>1, <1>2, <1>3, <2>1, <3>1 DEF Fits, Rows
  <2>2. CASE k = Change /\ next = "taken" /\ code = row[k].second /\ mailed[code] # Nobody
    <3>1. /\ row[Change].by \in 1..issued /\ mailed[row[Change].by] \in had
          /\ row[Change].by < row[Change].first \/ mailed[code] = row[Change].to
      BY <2>2 DEF Codings, RowsFit
    <3> QED
      BY <1>1, <1>2, <1>3, <2>2, <3>1 DEF Fits
  <2>3. CASE k # Change /\ next = "taken"
    BY <1>1, <1>2, <1>3, <2>3 DEF Fits
  <2> QED
    BY <2>1, <2>2, <2>3
<1> QED
  BY <1>3, <1>4, HandlerMoves DEF x, Codings, TypeOK

\* A request, a free address checked, or a code judged.
LEMMA JudgeKeeps ==
  ASSUME Codings, NEW c \in Callers, NEW k \in Keys, NEW code, NEW right, NEW next, Judge(c, k, code, right, next),
         \/ k = Change /\ next = "advance" /\ right = row[k].first /\ (code = 0 \/ mailed[code] # Nobody)
         \/ k = Change /\ next = "taken" /\ right = row[k].second /\ (code = 0 \/ mailed[code] # Nobody)
         \/ k # Change /\ next = "taken" /\ right = row[k].first
  PROVE  Codings'
<1>1. row[k] # NoRow /\ right # 0 /\ UNCHANGED <<addr, had, others, row, issued, mailed>>
  BY DEF Judge, Users
<1>2. CASE Only(c, k, "drop") \/ Only(c, k, "count")
  BY <1>1, <1>2, Rejected DEF Only
<1>3. CASE /\ code = right
           /\ caller' = [caller EXCEPT ![c] = [Idle EXCEPT !.pc = next, !.key = k, !.to = row[k].to, !.code = code,
                                                     !.first = row[k].first, !.by = row[k].by]]
  BY <1>1, <1>3, Accepted
<1> QED
  BY <1>2, <1>3 DEF Judge

LEMMA StepCodings == Codings /\ [Next]_vars => Codings'
<1> SUFFICES ASSUME Codings, [Next]_vars PROVE Codings'
  OBVIOUS
<1>0. addr \in Emails /\ addr \in had /\ had \subseteq Emails /\ others \subseteq Emails /\ TypeOK
  BY DEF Codings, TypeOK
<1>1. ASSUME NEW c \in Callers, NEW k \in Keys, NEW e \in Emails, Ask(c, k, e) PROVE Codings'
  <2> DEFINE x == [Idle EXCEPT !.pc = "checking", !.key = k, !.to = e, !.box = IF k = Change THEN addr ELSE e]
  <2>1. x \in Handlers /\ x.pc = "checking" /\ x.to = e /\ x.key = k /\ (k = Change => x.box = addr)
    BY <1>0, Blanks DEF Handlers, Pcs, Idle
  <2>2. Fits(x)
    BY <1>0, <2>1 DEF Fits
  <2>3. caller' = [caller EXCEPT ![c] = x] /\ UNCHANGED <<addr, had, others, row, issued, mailed>>
    BY <1>1 DEF Ask, Users
  <2> HIDE DEF x
  <2> QED
    BY <1>0, <2>1, <2>2, <2>3, HandlerMoves
<1>a. ASSUME NEW c \in Callers, CheckFree(c) PROVE Codings'
  <2>1. UNCHANGED <<addr, had, others, row, issued, mailed>>
    BY <1>a DEF CheckFree, Users
  <2>2. CASE Done(c)
    BY <2>1, <2>2, Finished
  <2>3. CASE To(c, "asked")
    <3> DEFINE x == [caller[c] EXCEPT !.pc = "asked"]
    <3>0. caller[c] \in Handlers /\ caller' = [caller EXCEPT ![c] = x]
      BY <1>0, <2>3, Records DEF To, TypeOK
    <3>1. /\ x \in Handlers /\ x.pc = "asked" /\ x.to = caller[c].to
          /\ x.key = caller[c].key /\ x.box = caller[c].box
      BY <3>0 DEF Pcs, Handlers
    <3>2. Fits(x)
      BY <1>a, <3>1 DEF Codings, Fits, CheckFree
    <3> HIDE DEF x
    <3> QED
      BY <1>0, <2>1, <3>0, <3>1, <3>2, HandlerMoves
  <2> QED
    BY <1>a, <2>2, <2>3 DEF CheckFree
<1>2. ASSUME NEW c \in Callers, Pending(c) PROVE Codings'
  <2>1. UNCHANGED <<addr, had, others, row, issued, mailed>>
    BY <1>2 DEF Pending, Users
  <2>2. CASE Done(c)
    BY <2>1, <2>2, Finished
  <2>3. CASE To(c, "put")
    <3> DEFINE x == [caller[c] EXCEPT !.pc = "put"]
    <3>0. caller[c] \in Handlers /\ caller' = [caller EXCEPT ![c] = x]
      BY <1>0, <2>3, Records DEF To, TypeOK
    <3>1. /\ x \in Handlers /\ x.pc = "put" /\ x.to = caller[c].to
          /\ x.key = caller[c].key /\ x.box = caller[c].box
      BY <3>0 DEF Pcs, Handlers
    <3>2. Fits(x)
      BY <1>2, <3>1 DEF Codings, Fits, Pending
    <3> HIDE DEF x
    <3> QED
      BY <1>0, <2>1, <3>0, <3>1, <3>2, HandlerMoves
  <2> QED
    BY <1>2, <2>2, <2>3 DEF Pending
<1>3. ASSUME NEW c \in Callers, Put(c) PROVE Codings'
  <2> DEFINE x == [caller[c] EXCEPT !.pc = "mail", !.code = issued + 1, !.to = Nobody]
             r == NewRow(caller[c].to, issued + 1)
  <2>1. issued < MaxCodes /\ issued \in Nat /\ issued + 1 \in 0..MaxCodes /\ caller[c] \in Handlers
    BY <1>0, <1>3, AccountsAssumption DEF AccountsAssumption, Put, TypeOK, Handlers
  <2>2. caller[c].to \in Emails /\ caller[c].key \in Keys /\ (caller[c].key = Change => caller[c].box \in had)
    BY <1>3, <2>1 DEF Codings, Fits, Put, Handlers
  <2>3. x \in Handlers /\ x.pc = "mail" /\ x.code = issued + 1 /\ x.box = caller[c].box
    BY <2>1, Blanks DEF Handlers, Pcs
  <2>4. r \in Rows /\ r.first = issued + 1 /\ r.second = 0 /\ r.to = caller[c].to
    BY <2>1, <2>2, Blanks DEF NewRow, NoRow, Rows
  <2>5. /\ row' = [row EXCEPT ![caller[c].key] = r] /\ issued' = issued + 1
        /\ UNCHANGED <<addr, had, others, mailed>>
    BY <1>3 DEF Put, Users
  <2>6. caller' = [caller EXCEPT ![c] = x]
    BY <1>0, <1>3 DEF Put, TypeOK
  <2> HIDE DEF x, r
  <2> QED
    BY <2>1, <2>2, <2>3, <2>4, <2>5, <2>6, CodeIsMade
<1>4. ASSUME NEW c \in Callers, Mail(c) PROVE Codings'
  <2>1. caller[c].pc = "mail" /\ UNCHANGED <<addr, had, others, row, issued>> /\ caller[c].key \in Keys
    BY <1>0, <1>4 DEF Mail, Users, TypeOK
  <2>2. CASE mailed' = [mailed EXCEPT ![caller[c].code] = caller[c].box] /\ Done(c)
    BY <2>1, <2>2, CodeArrives DEF Done
  <2>3. CASE Only(c, caller[c].key, "drop") /\ UNCHANGED mailed
    BY <2>1, <2>3, Rejected DEF Only
  <2> QED
    BY <1>4, <2>2, <2>3 DEF Mail
<1>5. ASSUME NEW k \in Keys, row' = [row EXCEPT ![k] = NoRow], UNCHANGED <<addr, had, others, issued, mailed>>,
             caller' \in [Callers -> Handlers], \A d \in Callers : caller'[d] \in {caller[d], Idle}
      PROVE  Codings'
  BY <1>5, Blanks, RowFades
<1>6. ASSUME NEW c \in Callers, Done(c)
      PROVE  caller' \in [Callers -> Handlers] /\ \A d \in Callers : caller'[d] \in {caller[d], Idle}
  BY <1>0, <1>6, Blanks DEF Done, TypeOK, Handlers
<1>7. ASSUME UNCHANGED caller
      PROVE  caller' \in [Callers -> Handlers] /\ \A d \in Callers : caller'[d] \in {caller[d], Idle}
  BY <1>0, <1>7 DEF TypeOK, Handlers
<1>8. ASSUME NEW c \in Callers, Remove(c) PROVE Codings'
  <2>1. caller[c].key \in Keys
    BY <1>0 DEF TypeOK
  <2> QED
    BY <1>5, <1>6, <1>8, <2>1 DEF Remove, Users
<1>9. ASSUME NEW c \in Callers, Count(c) PROVE Codings'
  <2> DEFINE k == caller[c].key
             r == [row[k] EXCEPT !.tries = IF row[k] = NoRow THEN @ ELSE @ + 1]
  <2>1. k \in Keys /\ row[k] \in Rows
    BY <1>0 DEF TypeOK
  <2>2. /\ r \in Rows /\ r.to = row[k].to /\ r.first = row[k].first
        /\ r.second = row[k].second /\ r.by = row[k].by
        /\ (row[k] = NoRow => r = NoRow)
    BY <2>1 DEF Rows
  <2>3. row' = [row EXCEPT ![k] = r] /\ Done(c) /\ UNCHANGED <<addr, had, others, issued, mailed>>
    BY <1>0, <1>9 DEF Count, Users, TypeOK
  <2> HIDE DEF k, r
  <2> QED
    BY <1>6, <2>1, <2>2, <2>3, RowFades
<1>10. ASSUME NEW c \in Callers, Advance(c) PROVE Codings'
  <2> DEFINE r == [row[Change] EXCEPT !.second = issued + 1, !.tries = 0, !.expired = FALSE,
                                      !.by = caller[c].code]
             x == [Idle EXCEPT !.pc = "mail", !.code = issued + 1, !.box = BoxOfSecond(c)]
  <2>1. UNCHANGED <<addr, had, others, mailed>> /\ caller[c].pc = "advance"
    BY <1>10 DEF Advance, Users
  <2>2. CASE Done(c) /\ UNCHANGED <<row, issued>>
    BY <2>1, <2>2, Finished
  <2>3. CASE /\ row[Change] # NoRow /\ issued < MaxCodes /\ issued' = issued + 1
             /\ row' = [row EXCEPT ![Change] = r] /\ caller' = [caller EXCEPT ![c] = x]
    <3>1. issued \in Nat /\ issued + 1 \in 0..MaxCodes
      BY <1>0, <2>3, AccountsAssumption DEF AccountsAssumption, TypeOK
    <3>2. row[Change] \in Rows /\ row[Change].to \in Emails
      BY <1>0, <2>3, Blanks DEF TypeOK, Codings, RowsFit
    <3>3. /\ caller[c].to \in Emails /\ caller[c].code \in 1..issued /\ mailed[caller[c].code] \in had
          /\ caller[c].code <= row[Change].first
          /\ caller[c].code = row[Change].first => caller[c].to = row[Change].to
      BY <2>1, <2>3 DEF Codings, Fits
    <3>4. /\ r \in Rows /\ r.to = row[Change].to /\ r.first = row[Change].first /\ r.second = issued + 1
          /\ r.by = caller[c].code
      <4>1. caller[c].code \in 0..MaxCodes
        BY <1>0 DEF TypeOK
      <4> QED
        BY <3>1, <3>2, <4>1 DEF Rows
    <3>5. x \in Handlers /\ x.pc = "mail" /\ x.code = issued + 1 /\ x.box = caller[c].to
      BY <3>1, <3>3, Blanks DEF Handlers, Pcs, Idle, BoxOfSecond
    <3>6. r.by \in 1..issued /\ mailed[r.by] \in had /\ (r.by < r.first \/ x.box = r.to)
      BY <3>1, <3>2, <3>3, <3>4, <3>5 DEF Rows
    <3> HIDE DEF r, x
    <3> QED
      BY <2>1, <2>3, <3>2, <3>4, <3>5, <3>6, Blanks, CodeIsMade
  <2> QED
    BY <1>10, <2>2, <2>3 DEF Advance
<1>11. ASSUME NEW c \in Callers, CheckTaken(c) PROVE Codings'
  <2>1. UNCHANGED <<addr, had, others, row, issued, mailed>> /\ caller[c].pc = "taken" /\ caller[c].key \in Keys
    BY <1>0, <1>11 DEF CheckTaken, Users, TypeOK
  <2>2. CASE Only(c, caller[c].key, "drop")
    BY <2>1, <2>2, Rejected DEF Only
  <2>3. CASE To(c, "move")
    <3> DEFINE x == [caller[c] EXCEPT !.pc = "move"]
    <3>0. caller[c] \in Handlers /\ caller' = [caller EXCEPT ![c] = x]
      BY <1>0, <2>3, Records DEF To, TypeOK
    <3>1. /\ x \in Handlers /\ x.pc = "move" /\ x.to = caller[c].to /\ x.key = caller[c].key
          /\ x.code = caller[c].code /\ x.first = caller[c].first /\ x.by = caller[c].by
      BY <3>0 DEF Pcs, Handlers
    <3>2. Fits(x)
      BY <2>1, <3>1 DEF Codings, Fits
    <3> HIDE DEF x
    <3> QED
      BY <1>0, <2>1, <3>0, <3>1, <3>2, HandlerMoves
  <2> QED
    BY <1>11, <2>2, <2>3 DEF CheckTaken
<1>12. ASSUME NEW c \in Callers, Move(c) PROVE Codings'
  <2>1. /\ UNCHANGED <<row, issued, mailed>> /\ caller[c].key \in Keys /\ caller[c].to \in Emails
    BY <1>0, <1>12 DEF Move, TypeOK, Codings, Fits
  <2>2. CASE Done(c) /\ UNCHANGED Users
    BY <2>1, <2>2, Finished DEF Users
  <2>3. CASE /\ Only(c, caller[c].key, "drop") /\ addr' \in had' /\ had \subseteq had'
             /\ had' \subseteq Emails /\ others' \subseteq Emails
    <3> DEFINE x == [Idle EXCEPT !.pc = "drop", !.key = caller[c].key]
    <3>1. x \in Handlers /\ x.pc = "drop" /\ caller' = [caller EXCEPT ![c] = x]
      BY <2>1, <2>3, Blanks DEF Handlers, Pcs, Idle, Only
    <3>2. Fits(x)
      BY <3>1 DEF Fits
    <3> HIDE DEF x
    <3> QED
      BY <2>1, <2>3, <3>1, <3>2, HandlerMoves
  <2> QED
    BY <1>0, <1>12, <2>1, <2>2, <2>3 DEF Move
<1>13. ASSUME NEW c \in Callers, Stop(c) PROVE Codings'
  BY <1>13, Finished DEF Stop, Users
<1>14. ASSUME NEW c \in Callers, NEW code \in Typed,
              ConfirmCurrent(c, code) \/ ConfirmNew(c, code) \/ \E k \in SignUps : VerifySignup(c, k, code)
       PROVE  Codings'
  <2>1. code = 0 \/ mailed[code] # Nobody
    BY DEF Typed
  <2>2. Change \in Keys /\ \A k \in SignUps : k \in Keys /\ k # Change
    BY AccountsAssumption DEF AccountsAssumption, Keys
  <2>3. CASE ConfirmCurrent(c, code)
    BY <2>1, <2>2, <2>3, JudgeKeeps DEF ConfirmCurrent
  <2>4. CASE ConfirmNew(c, code)
    BY <2>1, <2>2, <2>4, JudgeKeeps DEF ConfirmNew
  <2>5. ASSUME NEW k \in SignUps, VerifySignup(c, k, code) PROVE Codings'
    BY <2>2, <2>5, JudgeKeeps DEF VerifySignup
  <2> QED
    BY <1>14, <2>3, <2>4, <2>5
<1>15. CASE Cancel
  BY <1>5, <1>7, <1>15, Blanks DEF Cancel, Users
<1>16. ASSUME NEW k \in Keys, Prune(k) PROVE Codings'
  BY <1>5, <1>7, <1>16 DEF Prune, Users
<1>17. ASSUME NEW k \in Keys, Expire(k) PROVE Codings'
  <2> DEFINE r == [row[k] EXCEPT !.expired = TRUE]
  <2>1. row[k] # NoRow /\ row' = [row EXCEPT ![k] = r] /\ UNCHANGED <<addr, had, others, issued, mailed, caller>>
    BY <1>0, <1>17 DEF Expire, Users, TypeOK
  <2>2. /\ r \in Rows /\ r.to = row[k].to /\ r.first = row[k].first
        /\ r.second = row[k].second /\ r.by = row[k].by
    BY <1>0 DEF TypeOK, Rows
  <2> HIDE DEF r
  <2> QED
    BY <1>7, <2>1, <2>2, RowFades
<1>18. ASSUME NEW e \in SignUps, GoogleSignIn(e) PROVE Codings'
  <2>1. e \in Emails /\ others' \subseteq Emails /\ UNCHANGED <<addr, had, row, issued, mailed, caller>>
    BY <1>0, <1>18, AccountsAssumption DEF AccountsAssumption, GoogleSignIn
  <2> QED
    BY <2>1 DEF Codings, TypeOK, Fits, RowsFit, MailedOnce
<1>19. CASE UNCHANGED vars
  BY <1>19 DEF vars, Codings, TypeOK, Fits, RowsFit, MailedOnce
<1> QED
  BY <1>1, <1>a, <1>2, <1>3, <1>4, <1>8, <1>9, <1>10, <1>11, <1>12, <1>13, <1>14, <1>15, <1>16, <1>17, <1>18, <1>19
     DEF Next, Handler

-----------------------------------------------------------------------------
(* Guesses.                                                                 *)

\* No more handlers have a wrong code of k in hand, and no more of them are on record.
LEMMA GuessesFade ==
  ASSUME Codings, Codings', NEW k \in Keys, row[k].tries + Cardinality(Counting(k)) <= MaxAttempts - 1 + Cardinality(Callers),
         Counting(k)' \subseteq Counting(k), row'[k].tries <= row[k].tries
  PROVE  row'[k].tries + Cardinality(Counting(k)') <= MaxAttempts - 1 + Cardinality(Callers)
<1>1. Counting(k) \in SUBSET Callers /\ Counting(k)' \in SUBSET Callers
  BY DEF Counting
<1>2. /\ Cardinality(Counting(k)) \in Nat /\ Cardinality(Counting(k)') \in Nat
      /\ Cardinality(Counting(k)') <= Cardinality(Counting(k))
  BY <1>1, Counts, FS_Subset
<1>3. row[k].tries \in Nat /\ row'[k].tries \in Nat /\ MaxAttempts \in Nat
  BY AccountsAssumption DEF AccountsAssumption, Codings, TypeOK, Rows
<1> QED
  BY <1>2, <1>3, Counts

\* Below the limit there is room for a wrong code from every handler.
LEMMA GuessesFit ==
  ASSUME Codings', NEW k \in Keys, row'[k].tries <= MaxAttempts - 1
  PROVE  row'[k].tries + Cardinality(Counting(k)') <= MaxAttempts - 1 + Cardinality(Callers)
<1>1. Counting(k)' \in SUBSET Callers
  BY DEF Counting
<1>2. row'[k].tries \in Nat /\ MaxAttempts \in Nat
  BY AccountsAssumption DEF AccountsAssumption, Codings, TypeOK, Rows
<1> QED
  BY <1>1, <1>2, Counts

\* A wrong code that was in hand is counted.
LEMMA GuessCounted ==
  ASSUME Codings, Codings', NEW k \in Keys, NEW c \in Callers,
         row[k].tries + Cardinality(Counting(k)) <= MaxAttempts - 1 + Cardinality(Callers),
         c \in Counting(k), Counting(k)' \subseteq Counting(k) \ {c}, row'[k].tries <= row[k].tries + 1
  PROVE  row'[k].tries + Cardinality(Counting(k)') <= MaxAttempts - 1 + Cardinality(Callers)
<1>1. Counting(k) \in SUBSET Callers /\ Counting(k)' \in SUBSET Callers /\ Counting(k) \ {c} \in SUBSET Callers
  BY DEF Counting
<1>2. /\ Cardinality(Counting(k)) \in Nat /\ Cardinality(Counting(k)') \in Nat
      /\ Cardinality(Counting(k)') <= Cardinality(Counting(k)) - 1
  BY <1>1, Counts, FS_Subset, FS_RemoveElement
<1>3. row[k].tries \in Nat /\ row'[k].tries \in Nat /\ MaxAttempts \in Nat
  BY AccountsAssumption DEF AccountsAssumption, Codings, TypeOK, Rows
<1> QED
  BY <1>2, <1>3, Counts

LEMMA StepGuesses == IInv /\ [Next]_vars => Guesses'
<1> SUFFICES ASSUME IInv, [Next]_vars, NEW k \in Keys
             PROVE  row'[k].tries + Cardinality(Counting(k)') <= MaxAttempts - 1 + Cardinality(Callers)
  BY DEF Guesses
<1> DEFINE Bounded == row'[k].tries + Cardinality(Counting(k)') <= MaxAttempts - 1 + Cardinality(Callers)
<1>0. /\ Codings /\ Codings' /\ TypeOK /\ TypeOK'
      /\ row[k].tries + Cardinality(Counting(k)) <= MaxAttempts - 1 + Cardinality(Callers)
      /\ row[k].tries \in Nat /\ 0 <= MaxAttempts - 1
  BY StepCodings, AccountsAssumption DEF IInv, Guesses, Codings, AccountsAssumption, TypeOK, Rows
<1>a. NoRow.tries = 0 /\ Idle.pc = "idle"
  BY DEF NoRow, Idle
<1>1. ASSUME \A d \in Callers : caller'[d].pc = "count" => caller'[d] = caller[d],
             row'[k].tries <= row[k].tries \/ row'[k].tries = 0
      PROVE  Bounded
  <2>1. Counting(k)' \subseteq Counting(k)
    BY <1>1 DEF Counting
  <2> QED
    BY <1>0, <1>1, <2>1, GuessesFade, GuessesFit
<1>2. ASSUME UNCHANGED <<row, caller>> PROVE Bounded
  BY <1>0, <1>1, <1>2
<1>b. ASSUME NEW c \in Callers, NEW x, caller' = [caller EXCEPT ![c] = x], x.pc # "count"
      PROVE  \A d \in Callers : caller'[d].pc = "count" => caller'[d] = caller[d]
  BY <1>0, <1>b DEF TypeOK
<1>c. ASSUME NEW c \in Callers, NEW q,
             Done(c) \/ To(c, "asked") \/ To(c, "put") \/ To(c, "move") \/ Only(c, q, "drop")
      PROVE  \A d \in Callers : caller'[d].pc = "count" => caller'[d] = caller[d]
  <2>1. CASE Done(c)
    BY <1>a, <1>b, <2>1 DEF Done
  <2>2. CASE To(c, "asked") \/ To(c, "put") \/ To(c, "move")
    BY <1>0, <2>2 DEF To, TypeOK
  <2>3. CASE Only(c, q, "drop")
    <3>1. [Idle EXCEPT !.pc = "drop", !.key = q].pc = "drop"
      BY DEF Idle
    <3> QED
      BY <1>b, <2>3, <3>1 DEF Only
  <2> QED
    BY <1>c, <2>1, <2>2, <2>3
<1>3. ASSUME NEW c \in Callers, NEW q \in Keys, NEW e \in Emails, Ask(c, q, e) PROVE Bounded
  BY <1>0, <1>1, <1>3 DEF Ask, TypeOK, Idle
<1>4. ASSUME NEW c \in Callers, CheckFree(c) \/ Pending(c) \/ CheckTaken(c) \/ Move(c) \/ Stop(c) PROVE Bounded
  <2>1. UNCHANGED row /\ \A d \in Callers : caller'[d].pc = "count" => caller'[d] = caller[d]
    BY <1>4, <1>c DEF CheckFree, Pending, CheckTaken, Move, Stop
  <2> QED
    BY <1>0, <1>1, <2>1
<1>5. ASSUME NEW c \in Callers, Put(c) PROVE Bounded
  <2>1. row'[k].tries = row[k].tries \/ row'[k].tries = 0
    BY <1>0, <1>5 DEF Put, NewRow, NoRow, TypeOK
  <2>2. \A d \in Callers : caller'[d].pc = "count" => caller'[d] = caller[d]
    BY <1>0, <1>5 DEF Put, TypeOK
  <2> QED
    BY <1>0, <1>1, <2>1, <2>2
<1>6. ASSUME NEW c \in Callers, Mail(c) PROVE Bounded
  BY <1>0, <1>1, <1>6, <1>c DEF Mail
<1>7. ASSUME NEW c \in Callers, Remove(c) PROVE Bounded
  BY <1>0, <1>1, <1>7, <1>a DEF Remove, Done, TypeOK
<1>8. ASSUME NEW c \in Callers, Count(c) PROVE Bounded
  <2>1. caller' = [caller EXCEPT ![c] = Idle] /\ caller[c].pc = "count"
    BY <1>8 DEF Count, Done
  <2>2. CASE caller[c].key = k
    <3>1. c \in Counting(k) /\ Counting(k)' \subseteq Counting(k) \ {c}
      BY <1>0, <1>a, <2>1, <2>2 DEF Counting, TypeOK
    <3>2. row'[k].tries <= row[k].tries + 1
      BY <1>0, <1>8, <2>2 DEF Count, TypeOK, Rows
    <3> QED
      BY <1>0, <3>1, <3>2, GuessCounted
  <2>3. CASE caller[c].key # k
    <3>1. row'[k] = row[k] /\ \A d \in Callers : caller'[d].pc = "count" => caller'[d] = caller[d]
      BY <1>0, <1>8, <1>a, <2>1, <2>3 DEF Count, TypeOK
    <3> QED
      BY <1>0, <1>1, <3>1
  <2> QED
    BY <2>2, <2>3
<1>9. ASSUME NEW c \in Callers, Advance(c) PROVE Bounded
  <2> DEFINE r == [row[Change] EXCEPT !.second = issued + 1, !.tries = 0, !.expired = FALSE,
                                      !.by = caller[c].code]
             x == [Idle EXCEPT !.pc = "mail", !.code = issued + 1, !.box = BoxOfSecond(c)]
  <2>1. CASE Done(c) /\ UNCHANGED row
    BY <1>0, <1>1, <1>c, <2>1
  <2>2. CASE row' = [row EXCEPT ![Change] = r] /\ caller' = [caller EXCEPT ![c] = x]
    <3>1. row[Change] \in Rows /\ x.pc = "mail"
      BY <1>0, Blanks DEF TypeOK, Idle
    <3>2. r.tries = 0
      BY <3>1 DEF Rows
    <3> HIDE DEF r, x
    <3>3. row'[k].tries = row[k].tries \/ row'[k].tries = 0
      BY <1>0, <2>2, <3>2 DEF TypeOK
    <3>4. \A d \in Callers : caller'[d].pc = "count" => caller'[d] = caller[d]
      BY <1>b, <2>2, <3>1
    <3> QED
      BY <1>0, <1>1, <3>3, <3>4
  <2> QED
    BY <1>9, <2>1, <2>2 DEF Advance
<1>10. ASSUME NEW c \in Callers, NEW q \in Keys, NEW code, NEW right, NEW next \in {"advance", "taken"},
              Judge(c, q, code, right, next)
       PROVE  Bounded
  <2>1. UNCHANGED row
    BY <1>10 DEF Judge
  <2>2. CASE Only(c, q, "count") /\ ~row[q].expired
    <3>1. CASE q = k
      <4>1. row'[k].tries <= MaxAttempts - 1
        BY <1>0, <1>10, <2>1, <2>2, <3>1, AccountsAssumption DEF AccountsAssumption, Judge, TooMany
      <4> QED
        BY <1>0, <4>1, GuessesFit
    <3>2. CASE q # k
      <4>1. Counting(k)' \subseteq Counting(k)
        BY <1>0, <2>2, <3>2 DEF Counting, Only, TypeOK, Idle
      <4> QED
        BY <1>0, <2>1, <4>1, GuessesFade
    <3> QED
      BY <3>1, <3>2
  <2>3. CASE \A d \in Callers : caller'[d].pc = "count" => caller'[d] = caller[d]
    BY <1>0, <1>1, <2>1, <2>3
  <2>4. CASE Only(c, q, "drop")
    BY <1>0, <2>3, <2>4 DEF Only, TypeOK, Idle
  <2>5. CASE caller' = [caller EXCEPT ![c] = [Idle EXCEPT !.pc = next, !.key = q, !.to = row[q].to, !.code = code,
                                                          !.first = row[q].first, !.by = row[q].by]]
    BY <1>0, <2>3, <2>5 DEF TypeOK, Idle
  <2> QED
    BY <1>10, <2>2, <2>4, <2>5 DEF Judge
<1>11. ASSUME NEW c \in Callers, NEW code \in Typed,
              ConfirmCurrent(c, code) \/ ConfirmNew(c, code) \/ \E q \in SignUps : VerifySignup(c, q, code)
       PROVE  Bounded
  BY <1>10, <1>11, Blanks DEF ConfirmCurrent, ConfirmNew, VerifySignup, Keys
<1>12. ASSUME NEW q \in Keys, Prune(q) \/ Expire(q) PROVE Bounded
  <2>1. UNCHANGED caller /\ (row'[k].tries = row[k].tries \/ row'[k].tries = 0)
    BY <1>0, <1>12, <1>a DEF Prune, Expire, TypeOK, Rows
  <2> QED
    BY <1>0, <1>1, <2>1
<1>13. CASE Cancel
  BY <1>0, <1>1, <1>13, <1>a, Blanks DEF Cancel, TypeOK
<1>14. ASSUME NEW e \in SignUps, GoogleSignIn(e) PROVE Bounded
  BY <1>2, <1>14 DEF GoogleSignIn
<1>15. CASE UNCHANGED vars
  BY <1>2, <1>15 DEF vars
<1> QED
  BY <1>3, <1>4, <1>5, <1>6, <1>7, <1>8, <1>9, <1>11, <1>12, <1>13, <1>14, <1>15 DEF Next, Handler

\* IInv holds throughout.
THEOREM Invariance == Spec => []IInv
<1>1. IInv /\ [Next]_vars => IInv'
  BY StepCodings, StepGuesses DEF IInv
<1> QED
  BY <1>1, InitIInv, PTL DEF Spec

-----------------------------------------------------------------------------
(* What the run checks, for any instance.                                   *)

\* Every variable keeps its type, and no mailbox holds a code that was not stored.
THEOREM TypeCorrect == Spec => []TypeOK
<1> QED
  BY Invariance, PTL DEF IInv, Codings

\* The limit on wrong codes, read in one query and counted in another, is overrun by no more than
\* the handlers running at once.
THEOREM GuessesStayFew == Spec => []GuessesAreBounded
<1>1. IInv => GuessesAreBounded
  <2> SUFFICES ASSUME IInv, NEW k \in Keys PROVE row[k].tries <= MaxAttempts - 1 + Cardinality(Callers)
    BY DEF GuessesAreBounded
  <2>1. Cardinality(Counting(k)) \in Nat
    BY Counts DEF Counting
  <2>2. row[k].tries \in Nat /\ MaxAttempts \in Nat
    BY AccountsAssumption DEF AccountsAssumption, IInv, Codings, TypeOK, Rows
  <2> QED
    BY <2>1, <2>2, Counts DEF IInv, Guesses
<1> QED
  BY <1>1, Invariance, PTL

LEMMA StepMoves ==
  ASSUME Codings, Next, addr' # addr
  PROVE  \E c \in Callers :
           /\ MovesAfterFirst(c, addr')
           /\ mailed[caller[c].code] = addr' \/ caller[c].by < caller[c].first
<1>1. PICK c \in Callers : Move(c)
  BY DEF Next, Handler, Stop, CheckFree, Pending, Put, Mail, Remove, Count, Advance, CheckTaken, Ask,
         ConfirmCurrent, ConfirmNew, VerifySignup, Judge, Cancel, GoogleSignIn, Expire, Prune, Users
<1>2. caller[c].pc = "move" /\ caller[c].key = Change /\ addr' = caller[c].to
  BY <1>1 DEF Move, Users
<1>3. /\ caller[c].by \in 1..issued /\ mailed[caller[c].by] \in had
      /\ caller[c].by < caller[c].first \/ mailed[caller[c].code] = addr'
  BY <1>2 DEF Codings, Fits
<1>4. caller[c].by # 0
  BY <1>3 DEF Codings, TypeOK
<1> QED
  BY <1>2, <1>3, <1>4 DEF MovesAfterFirst

\* The account moves only after a first code that went to an address it had and a second one that went
\* to the address it moves to, unless that address was asked for after the first code was made: for any
\* number of handlers that interleave between the queries of email-change.ts.
THEOREM MovesStayProved == Spec => MovesAreProved
<1>1. IInv /\ [Next]_vars =>
        [addr' # addr =>
           \E c \in Callers :
             /\ MovesAfterFirst(c, addr')
             /\ mailed[caller[c].code] = addr' \/ caller[c].by < caller[c].first]_vars
  BY StepMoves DEF IInv
<1> QED
  BY <1>1, Invariance, PTL DEF Spec, MovesAreProved
=============================================================================
