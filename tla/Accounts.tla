------------------------------ MODULE Accounts ------------------------------
(***************************************************************************)
(* One email address: the codes mailed to it                               *)
(* (services/auth/email-verification.service.ts), and the registration and *)
(* the password resets that spend them (services/auth/auth.service.ts).    *)
(*                                                                         *)
(* An action is the code from one await to the next; the lookup of the     *)
(* default role, which is a constant, is left out.  A tick is a second or  *)
(* more: the tables keep times to the second, so that rows of one tick     *)
(* come in either order.  A code is the row that holds its hash.  An       *)
(* account that is disabled is in Administration.                          *)
(***************************************************************************)
EXTENDS Integers, Sequences, FiniteSets

CONSTANTS
    Requests,   \* calls that may be in progress at once
    Passwords,
    NoAccount,
    CodeTtl,    \* CODE_TTL_MS
    Cooldown,   \* SEND_COOLDOWN_MS
    MaxCodes,   \* bound on the codes sent
    MaxTime     \* bound on the clock

VARIABLES
    now,
    codes,      \* t_email_verification, in the order of insertion
    account,    \* the password in t_user, or NoAccount
    history,    \* t_user_password_history, in the order of insertion
    unsure,     \* history of the model: the newest row may not be the current password
    requests    \* calls in progress

vars == <<now, codes, account, history, unsure, requests>>

Purposes == {"register", "reset"}

Time == 0..MaxTime

CodeIds == 1..MaxCodes

\* alone: no other code of the purpose was valid or being sent when this one was stored.
\* used tells the two writers of f_used apart.
Code == [purpose : Purposes, created : Time, expires : CodeTtl..(MaxTime + CodeTtl),
         used : {"no", "replaced", "entered"}, mailed : BOOLEAN, alone : BOOLEAN]

\* since and at: the clock a query compares with, read before its answer.
\* overlapped: another password was being stored when this reset looked, or has been since.
Request ==
    [pc : {"idle"}]
    \cup [pc : {"recent"}, purpose : Purposes, since : (0 - Cooldown)..MaxTime]
    \cup [pc : {"replace", "store"}, purpose : Purposes, expires : CodeTtl..(MaxTime + CodeTtl)]
    \cup [pc : {"mail"}, code : CodeIds]
    \cup [pc : {"verify"}, purpose : Purposes, code : CodeIds, password : Passwords, at : Time]
    \cup [pc : {"consume"}, purpose : Purposes, code : CodeIds, password : Passwords]
    \cup [pc : {"find", "insert", "link", "last", "record"}, password : Passwords]
    \cup [pc : {"save"}, password : Passwords, overlapped : BOOLEAN]

Idle == [pc |-> "idle"]

\* Before the registration, or after it.
Init ==
    /\ now = 0
    /\ codes = <<>>
    /\ account \in Passwords \cup {NoAccount}
    /\ history = IF account = NoAccount THEN <<>> ELSE <<[password |-> account, at |-> 0]>>
    /\ unsure = FALSE
    /\ requests = [r \in Requests |-> Idle]

SetRequest(r, q) == requests' = [requests EXCEPT ![r] = q]

End(r) == SetRequest(r, Idle)

\* The codes that a search for the newest one valid at a time may return.
NewestValid(purpose, at) ==
    LET Valid == {i \in DOMAIN codes : codes[i].purpose = purpose /\ codes[i].used = "no"
                                       /\ codes[i].expires > at}
    IN {i \in Valid : \A j \in Valid : codes[j].created <= codes[i].created}

(***************************************************************************)
(* sendCode.                                                               *)
(***************************************************************************)

SendBegin(r) ==
    /\ requests[r].pc = "idle"
    /\ LET sending == {p \in Requests : requests[p].pc \in {"recent", "replace", "store"}} IN
       Len(codes) + Cardinality(sending) < MaxCodes
    /\ SetRequest(r, [pc |-> "recent", since |-> now - Cooldown,
                      purpose |-> IF account = NoAccount THEN "register" ELSE "reset"])
    /\ UNCHANGED <<now, codes, account, history, unsure>>

\* MUTANT: codes are sent without a cooldown.
RecentNone(purpose, since) == {}

\* findOne of a code that is still within the cooldown.
Recent(purpose, since) ==
    {i \in DOMAIN codes : codes[i].purpose = purpose /\ codes[i].created >= since}

\* MUTANT: a code lives from the end of the cooldown on.
ExpiryAfterCooldown == now + Cooldown + CodeTtl

Expiry == now + CodeTtl

SendRecent(r) ==
    /\ requests[r].pc = "recent"
    /\ IF Recent(requests[r].purpose, requests[r].since) # {} THEN End(r)
       ELSE SetRequest(r, [pc |-> "replace", purpose |-> requests[r].purpose,
                           expires |-> Expiry])
    /\ UNCHANGED <<now, codes, account, history, unsure>>

SendReplace(r) ==
    LET q == requests[r] IN
    /\ q.pc = "replace"
    /\ codes' = [i \in DOMAIN codes |->
            IF codes[i].purpose = q.purpose /\ codes[i].used = "no"
            THEN [codes[i] EXCEPT !.used = "replaced"] ELSE codes[i]]
    /\ requests' = [requests EXCEPT ![r].pc = "store"]
    /\ UNCHANGED <<now, account, history, unsure>>

IsSending(p, purpose) ==
    requests[p].pc \in {"replace", "store"} /\ requests[p].purpose = purpose

\* The time of creation is taken here, the time of expiry was before.
SendStore(r) ==
    LET q == requests[r] IN
    /\ q.pc = "store"
    /\ codes' = Append(codes,
            [purpose |-> q.purpose, created |-> now, expires |-> q.expires, used |-> "no",
             mailed |-> FALSE,
             alone |-> /\ NewestValid(q.purpose, now) = {}
                       /\ \A p \in Requests \ {r} : ~IsSending(p, q.purpose)])
    /\ SetRequest(r, [pc |-> "mail", code |-> Len(codes) + 1])
    /\ UNCHANGED <<now, account, history, unsure>>

SendMail(r) ==
    /\ requests[r].pc = "mail"
    /\ codes' = [codes EXCEPT ![requests[r].code].mailed = TRUE]
    /\ End(r)
    /\ UNCHANGED <<now, account, history, unsure>>

(***************************************************************************)
(* verifyAndConsume, with a code that was mailed; any other is refused.    *)
(***************************************************************************)

\* register looks at the code first, resetPassword at the account.
EnterCode(r) ==
    /\ requests[r].pc = "idle"
    /\ \E purpose \in Purposes, i \in DOMAIN codes, password \in Passwords :
        /\ codes[i].mailed
        /\ purpose = "reset" => account # NoAccount
        /\ SetRequest(r, [pc |-> "verify", purpose |-> purpose, code |-> i,
                          password |-> password, at |-> now])
    /\ UNCHANGED <<now, codes, account, history, unsure>>

VerifyFind(r) ==
    LET q == requests[r] IN
    /\ q.pc = "verify"
    /\ \/ /\ q.code \in NewestValid(q.purpose, q.at)
          /\ SetRequest(r, [pc |-> "consume", purpose |-> q.purpose, code |-> q.code,
                            password |-> q.password])
       \/ /\ NewestValid(q.purpose, q.at) # {q.code}
          /\ End(r)
    /\ UNCHANGED <<now, codes, account, history, unsure>>

VerifyConsume(r) ==
    LET q == requests[r] IN
    /\ q.pc = "consume"
    /\ codes' = [codes EXCEPT ![q.code].used = "entered"]
    /\ SetRequest(r, [pc |-> IF q.purpose = "register" THEN "find" ELSE "last",
                      password |-> q.password])
    /\ UNCHANGED <<now, account, history, unsure>>

(***************************************************************************)
(* register and resetPassword, once the code is spent.                     *)
(***************************************************************************)

IsStoring(p) == requests[p].pc \in {"link", "record"}

Overlaps(r) == \E p \in Requests \ {r} : IsStoring(p)

\* r stores its password in t_user.
Stored(r, pc) ==
    /\ account' = requests[r].password
    /\ unsure' = (unsure \/ Overlaps(r))
    /\ requests' = [p \in Requests |->
            IF p = r THEN [pc |-> pc, password |-> requests[r].password]
            ELSE IF requests[p].pc = "save" THEN [requests[p] EXCEPT !.overlapped = TRUE]
            ELSE requests[p]]

RegisterFind(r) ==
    /\ requests[r].pc = "find"
    /\ IF account # NoAccount THEN End(r) ELSE requests' = [requests EXCEPT ![r].pc = "insert"]
    /\ UNCHANGED <<now, codes, account, history, unsure>>

\* The unique email refuses an account registered meanwhile.
RegisterInsert(r) ==
    /\ requests[r].pc = "insert"
    /\ IF account # NoAccount THEN End(r) /\ UNCHANGED <<account, unsure>> ELSE Stored(r, "link")
    /\ UNCHANGED <<now, codes, history>>

\* The row in t_user_role.
RegisterLink(r) ==
    /\ requests[r].pc = "link"
    /\ requests' = [requests EXCEPT ![r].pc = "record"]
    /\ UNCHANGED <<now, codes, account, history, unsure>>

\* MUTANT: the oldest password is compared.
OldestRows == {i \in DOMAIN history : \A j \in DOMAIN history : history[i].at <= history[j].at}

\* The rows that a search for the newest one may return.
NewestRows == {i \in DOMAIN history : \A j \in DOMAIN history : history[j].at <= history[i].at}

\* A password equal to the last one is refused; its code is spent all the same.
ResetLast(r) ==
    LET password == requests[r].password
        Seen == {history[i].password : i \in NewestRows}
    IN /\ requests[r].pc = "last"
       /\ \/ password \in Seen /\ End(r)
          \/ /\ Seen # {password}
             /\ SetRequest(r, [pc |-> "save", password |-> password, overlapped |-> Overlaps(r)])
       /\ UNCHANGED <<now, codes, account, history, unsure>>

ResetSave(r) ==
    /\ requests[r].pc = "save"
    /\ Stored(r, "record")
    /\ UNCHANGED <<now, codes, history>>

\* A record made by itself, in a second of its own, settles what went before.
Record(r) ==
    /\ requests[r].pc = "record"
    /\ history' = Append(history, [password |-> requests[r].password, at |-> now])
    /\ unsure' = \/ \E i \in DOMAIN history : history[i].at = now
                 \/ unsure /\ (Overlaps(r) \/ account # requests[r].password)
    /\ End(r)
    /\ UNCHANGED <<now, codes, account>>

(***************************************************************************)
(* Failures, and the clock.                                                *)
(***************************************************************************)

\* A statement fails, the mail is not sent, or the process dies.
RequestFails(r) ==
    /\ requests[r].pc # "idle"
    /\ unsure' = (unsure \/ IsStoring(r))
    /\ End(r)
    /\ UNCHANGED <<now, codes, account, history>>

Tick ==
    /\ now < MaxTime
    /\ now' = now + 1
    /\ UNCHANGED <<codes, account, history, unsure, requests>>

SendStep(r) ==
    SendBegin(r) \/ SendRecent(r) \/ SendReplace(r) \/ SendStore(r) \/ SendMail(r)

SpendStep(r) ==
    \/ EnterCode(r)
    \/ VerifyFind(r)
    \/ VerifyConsume(r)
    \/ RegisterFind(r)
    \/ RegisterInsert(r)
    \/ RegisterLink(r)
    \/ ResetLast(r)
    \/ ResetSave(r)
    \/ Record(r)

Next ==
    \/ \E r \in Requests : SendStep(r) \/ SpendStep(r) \/ RequestFails(r)
    \/ Tick

Spec == Init /\ [][Next]_vars

(***************************************************************************)
(* Properties.                                                             *)
(***************************************************************************)

TypeOK ==
    /\ now \in Time
    /\ codes \in Seq(Code) /\ Len(codes) <= MaxCodes
    /\ \A i \in DOMAIN codes : codes[i].expires <= codes[i].created + CodeTtl
    /\ account \in Passwords \cup {NoAccount}
    /\ history \in Seq([password : Passwords, at : Time])
    /\ unsure \in BOOLEAN
    /\ requests \in [Requests -> Request]

\* A code stored while no other was valid or being sent is accepted until it expires or is
\* entered: the cooldown keeps the next code from replacing it, or preceding it, while it
\* lives.
LoneCodeLives ==
    \A i \in DOMAIN codes :
        codes[i].alone /\ codes[i].used # "entered" /\ codes[i].expires > now
            => NewestValid(codes[i].purpose, now) = {i}

\* A step as ReuseExplained has it.
ReuseExplainedStep ==
    \A r \in Requests :
        requests[r].pc = "save" /\ requests'[r].pc = "record" /\ requests[r].password = account
            => unsure \/ requests[r].overlapped

\* A reset to the current password passes only beside another one, or after a record of
\* the current password was lost, overtaken, or made in one second with another.
ReuseExplained == [][ReuseExplainedStep]_vars
=============================================================================
