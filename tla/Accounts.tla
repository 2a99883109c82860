------------------------------ MODULE Accounts ------------------------------
(***************************************************************************)
(* Codes sent by mail: the change of an account's address                  *)
(* (auth/email-change.ts) and sign-ups (auth/signup-otp.ts), as the routes *)
(* under /api/account/email and /api/auth/signup call them, with the       *)
(* pruning of what has expired (automation/maintenance.ts).                *)
(*                                                                         *)
(* Both keep one pending row per account or address.  Each query is a      *)
(* step: the handlers of several requests interleave, and may stop.        *)
(***************************************************************************)
EXTENDS Naturals, FiniteSets

CONSTANTS
  Callers,     \* handlers running at once
  Emails,      \* addresses
  Home,        \* the account's first address
  Change,      \* the key of the account's pending change of address
  SignUps,     \* the addresses that sign up
  Nobody,      \* no address
  MaxAttempts, \* EMAIL_CHANGE_MAX_ATTEMPTS and SIGNUP_MAX_ATTEMPTS, 5 in the code
  MaxCodes     \* bound: codes made

ASSUME AccountsAssumption ==
  /\ IsFiniteSet(Callers)
  /\ Home \in Emails /\ SignUps \subseteq Emails \ {Home}
  /\ Change \notin Emails /\ Nobody \notin Emails
  /\ MaxAttempts \in Nat \ {0} /\ MaxCodes \in Nat

VARIABLES
  addr,    \* the account's address
  had,     \* history: the addresses the account has had
  others,  \* the addresses of the other accounts
  row,     \* [Keys -> the pending row, or NoRow]
  issued,  \* how many codes were made and stored
  mailed,  \* [codes -> the mailbox the code was delivered to, or Nobody]
  caller   \* [Callers -> where the handler is, and what it has read]

vars == <<addr, had, others, row, issued, mailed, caller>>

Keys == {Change} \union SignUps
Codes == 1..MaxCodes

\* A row: the address it is for, its first and second code, wrong codes so far, whether it has
\* expired; and, for the properties, `by`, the first code whose confirmation wrote the second.
NoRow == [to |-> Nobody, first |-> 0, second |-> 0, tries |-> 0, expired |-> FALSE, by |-> 0]
NewRow(e, code) == [NoRow EXCEPT !.to = e, !.first = code]

\* A handler: its key, the address it works for, the code it made or was given, the mailbox it
\* writes to; and, for the properties, `first` and `by` of the row it read.
Idle == [pc |-> "idle", key |-> Change, to |-> Nobody, code |-> 0, box |-> Nobody, first |-> 0, by |-> 0]

Addresses == Emails \union {Nobody}
Rows == [to : Addresses, first : 0..MaxCodes, second : 0..MaxCodes, tries : Nat,
         expired : BOOLEAN, by : 0..MaxCodes]
Pcs == {"idle", "checking", "asked", "put", "mail", "count", "advance", "taken", "move", "drop"}

\* Each variable has its type, and a mailbox holds only codes that were stored.
TypeOK ==
  /\ addr \in Emails /\ had \subseteq Emails /\ others \subseteq Emails
  /\ row \in [Keys -> Rows]
  /\ issued \in 0..MaxCodes
  /\ mailed \in [Codes -> Addresses]
  /\ \A n \in Codes : mailed[n] # Nobody => n <= issued
  /\ caller \in [Callers -> [pc : Pcs, key : Keys, to : Addresses, code : 0..MaxCodes,
                             box : Addresses, first : 0..MaxCodes, by : 0..MaxCodes]]

Init ==
  /\ addr = Home /\ had = {Home} /\ others = {}
  /\ row = [k \in Keys |-> NoRow]
  /\ issued = 0 /\ mailed = [n \in Codes |-> Nobody]
  /\ caller = [c \in Callers |-> Idle]

-----------------------------------------------------------------------------
Done(c) == caller' = [caller EXCEPT ![c] = Idle]
To(c, pc) == caller' = [caller EXCEPT ![c].pc = pc]
\* All that is left to know is the key.
Only(c, k, pc) == caller' = [caller EXCEPT ![c] = [Idle EXCEPT !.pc = pc, !.key = k]]
Users == <<addr, had, others>>
\* Handlers differ by name alone: the next request is taken by this one.
Free(c) == caller[c].pc = "idle" /\ c = CHOOSE d \in Callers : caller[d].pc = "idle"
Taken(e) == e = addr \/ e \in others

\* requestEmailChange and requestSignupCode.  A code for a change goes to the address that the account
\* has as the request is read, one for a sign-up to the address that signs up.
Ask(c, k, e) ==
  /\ Free(c) /\ issued < MaxCodes
  /\ IF k = Change THEN e # addr ELSE e = k
  /\ caller' = [caller EXCEPT ![c] = [Idle EXCEPT !.pc = "checking", !.key = k, !.to = e,
                                                  !.box = IF k = Change THEN addr ELSE e]]
  /\ UNCHANGED <<Users, row, issued, mailed>>

\* The address must have no account yet.
CheckFree(c) ==
  /\ caller[c].pc = "checking"
  /\ IF Taken(caller[c].to) THEN Done(c) ELSE To(c, "asked")
  /\ UNCHANGED <<Users, row, issued, mailed>>

\* A pending row younger than RESEND_SECONDS refuses the request; its age is not kept.
Pending(c) ==
  /\ caller[c].pc = "asked"
  /\ \/ row[caller[c].key] # NoRow /\ Done(c)
     \/ To(c, "put")
  /\ UNCHANGED <<Users, row, issued, mailed>>

\* Slip: the code is mailed and never stored.
PutNothing(c) ==
  /\ caller[c].pc = "put" /\ issued < MaxCodes
  /\ caller' = [caller EXCEPT ![c].pc = "mail", ![c].code = issued + 1, ![c].to = Nobody]
  /\ UNCHANGED <<Users, row, issued, mailed>>

\* The upsert; the code is mailed next.
Put(c) ==
  /\ caller[c].pc = "put" /\ issued < MaxCodes
  /\ issued' = issued + 1
  /\ row' = [row EXCEPT ![caller[c].key] = NewRow(caller[c].to, issued + 1)]
  /\ caller' = [caller EXCEPT ![c].pc = "mail", ![c].code = issued + 1, ![c].to = Nobody]
  /\ UNCHANGED <<Users, mailed>>

\* The route's sendMail: what is not delivered is discarded.
Mail(c) ==
  /\ caller[c].pc = "mail"
  /\ \/ mailed' = [mailed EXCEPT ![caller[c].code] = caller[c].box] /\ Done(c)
     \/ Only(c, caller[c].key, "drop") /\ UNCHANGED mailed
  /\ UNCHANGED <<Users, row, issued>>

\* Deleting the row of the key, whichever it is by now: after a mail that failed, an expired row,
\* a taken address, and at the end.
Remove(c) ==
  /\ caller[c].pc = "drop"
  /\ row' = [row EXCEPT ![caller[c].key] = NoRow]
  /\ Done(c)
  /\ UNCHANGED <<Users, issued, mailed>>

\* Slip: no limit on wrong codes.
NoLimit(r) == FALSE

TooMany(r) == r.tries >= MaxAttempts

\* The first query of a confirmation, and what it makes of the code it was given: "next" is what
\* follows the right one.
Judge(c, k, code, right, next) ==
  LET r == row[k] IN
  /\ Free(c) /\ r # NoRow /\ right # 0
  /\ r.expired \/ ~TooMany(r)
  /\ \/ r.expired /\ Only(c, k, "drop")
     \/ ~r.expired /\ code # right /\ Only(c, k, "count")
     \/ /\ ~r.expired /\ code = right
        /\ caller' = [caller EXCEPT ![c] = [Idle EXCEPT !.pc = next, !.key = k, !.to = r.to, !.code = code,
                                                     !.first = r.first, !.by = r.by]]
  /\ UNCHANGED <<Users, row, issued, mailed>>

\* A person types a code from one of their mailboxes, or a wrong one.
Typed == {0} \union {n \in Codes : mailed[n] # Nobody}

ConfirmCurrent(c, code) == Judge(c, Change, code, row[Change].first, "advance")

ConfirmNew(c, code) == Judge(c, Change, code, row[Change].second, "taken")

VerifySignup(c, k, code) == Judge(c, k, code, row[k].first, "taken")

\* One more wrong code; without the row the update throws.
Count(c) ==
  /\ caller[c].pc = "count"
  /\ row' = [row EXCEPT ![caller[c].key].tries = IF row[caller[c].key] = NoRow THEN @ ELSE @ + 1]
  /\ Done(c)
  /\ UNCHANGED <<Users, issued, mailed>>

\* Slip: the second code goes to the account's address again.
BoxOfFirst(c) == addr

\* The second code goes to the address of the row that was read.
BoxOfSecond(c) == caller[c].to

\* The second code is written to the row there is now; without one the update throws.
Advance(c) ==
  LET r == row[Change] IN
  /\ caller[c].pc = "advance"
  /\ \/ /\ r = NoRow /\ Done(c) /\ UNCHANGED <<row, issued>>
     \/ /\ r # NoRow /\ issued < MaxCodes
        /\ issued' = issued + 1
        /\ row' = [row EXCEPT ![Change] = [r EXCEPT !.second = issued + 1, !.tries = 0, !.expired = FALSE,
                                            !.by = caller[c].code]]
        /\ caller' = [caller EXCEPT ![c] = [Idle EXCEPT !.pc = "mail", !.code = issued + 1, !.box = BoxOfSecond(c)]]
  /\ UNCHANGED <<Users, mailed>>

\* The last look before the account is written.
CheckTaken(c) ==
  /\ caller[c].pc = "taken"
  /\ IF Taken(caller[c].to) THEN Only(c, caller[c].key, "drop") ELSE To(c, "move")
  /\ UNCHANGED <<Users, row, issued, mailed>>

\* user.update or user.create: an address that another account got meanwhile makes it throw.
Move(c) ==
  LET e == caller[c].to
      change == caller[c].key = Change IN
  /\ caller[c].pc = "move"
  /\ IF e \in others \/ (~change /\ e = addr)
       THEN Done(c) /\ UNCHANGED Users
       ELSE /\ Only(c, caller[c].key, "drop")
            /\ addr' = IF change THEN e ELSE addr
            /\ had' = IF change THEN had \union {e} ELSE had
            /\ others' = IF change THEN others ELSE others \union {e}
  /\ UNCHANGED <<row, issued, mailed>>

Handler(c) ==
  CheckFree(c) \/ Pending(c) \/ Put(c) \/ Mail(c) \/ Remove(c) \/ Count(c) \/ Advance(c) \/ CheckTaken(c) \/ Move(c)

\* The handler's process stops.
Stop(c) ==
  /\ caller[c].pc # "idle" /\ Done(c)
  /\ UNCHANGED <<Users, row, issued, mailed>>

\* DELETE /api/account/email.
Cancel ==
  /\ row[Change] # NoRow /\ row' = [row EXCEPT ![Change] = NoRow]
  /\ UNCHANGED <<Users, issued, mailed, caller>>

\* A first sign-in with Google makes an account.
GoogleSignIn(e) ==
  /\ ~Taken(e) /\ others' = others \union {e}
  /\ UNCHANGED <<addr, had, row, issued, mailed, caller>>

\* Its CODE_TTL_MINUTES are over.
Expire(k) ==
  /\ row[k] # NoRow /\ ~row[k].expired
  /\ row' = [row EXCEPT ![k].expired = TRUE]
  /\ UNCHANGED <<Users, issued, mailed, caller>>

\* pruneExpired.
Prune(k) ==
  /\ row[k].expired
  /\ row' = [row EXCEPT ![k] = NoRow]
  /\ UNCHANGED <<Users, issued, mailed, caller>>

Next ==
  \/ \E c \in Callers : Handler(c) \/ Stop(c)
  \/ \E c \in Callers, k \in Keys, e \in Emails : Ask(c, k, e)
  \/ \E c \in Callers, code \in Typed :
       ConfirmCurrent(c, code) \/ ConfirmNew(c, code) \/ \E k \in SignUps : VerifySignup(c, k, code)
  \/ Cancel
  \/ \E e \in SignUps : GoogleSignIn(e)
  \/ \E k \in Keys : Expire(k) \/ Prune(k)

Spec == Init /\ [][Next]_vars

-----------------------------------------------------------------------------
(* Properties.                                                              *)

\* Handler c writes the address e of the account, and a first code that was mailed to an address the
\* account had was entered.
MovesAfterFirst(c, e) ==
  /\ caller[c].pc = "move" /\ caller[c].key = Change /\ caller[c].to = e
  /\ caller[c].by # 0 /\ mailed[caller[c].by] \in had

\* The account moves only after a first code was entered that went to an address it had, and a second
\* one that went to the address it moves to.  The second may have gone elsewhere only if the request
\* for that address is younger than the first code that was entered: it replaced the row between the
\* read and the write of a confirmation (confirmCurrentEmail).
MovesAreProved ==
  [][addr' # addr =>
       \E c \in Callers :
         /\ MovesAfterFirst(c, addr')
         /\ mailed[caller[c].code] = addr' \/ caller[c].by < caller[c].first]_vars

\* What the header of email-change.ts says, without that exception: the first code proves the current
\* mailbox, the second the new one, and "the address only changes once both have been entered".
BothCodesEntered ==
  [][addr' # addr =>
       \E c \in Callers : MovesAfterFirst(c, addr') /\ mailed[caller[c].code] = addr']_vars

\* Wrong codes in flight all pass the limit that one of them reaches, and no more than those.
GuessesAreBounded == \A k \in Keys : row[k].tries <= MaxAttempts - 1 + Cardinality(Callers)
=============================================================================
