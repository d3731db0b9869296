------------------------------- MODULE SignIn -------------------------------
(***************************************************************************)
(* Accounts: signing in, the session of a browser tab, and the wizard that *)
(* resets a forgotten password.  The wizard and the session live in tabs   *)
(* (ForgotPassword, AuthProvider); PasswordResetService, AuthService and   *)
(* UsersService answer them in steps, between which other calls run.       *)
(*                                                                         *)
(* A code is known by its number, in the order of the clock that the       *)
(* requests read.  What a wizard holds for a code that it has verified is  *)
(* the session [code, tab, user]: the code's document keeps the hash of    *)
(* the last one only.                                                      *)
(***************************************************************************)
EXTENDS Integers, FiniteSets, Functions

CONSTANTS
    Tabs,
    Wizards,          \* the tabs that show the wizard
    Users,
    Registered,       \* the users who have an account where there are newcomers
    OldPassword, NewPassword,
    SignInScenarios,  \* sets of what may happen, one of which is given
    RateLimit,        \* RESET_REQUEST_RATE_LIMIT
    MaxAttempts,      \* RESET_TOKEN_MAX_ATTEMPTS
    MaxCodes,         \* bound on the requests that pass the limits
    MaxLapses,        \* bound on the codes and sessions that get too old
    NoUser

SignInAssumption ==
    /\ {RateLimit, MaxAttempts, MaxCodes} \subseteq Nat \ {0} /\ MaxLapses \in Nat
    /\ Registered \subseteq Users /\ Wizards \subseteq Tabs
    /\ NoUser \notin Users \cup Tabs \cup {OldPassword, NewPassword}
    /\ OldPassword # NewPassword

VARIABLES
    signInScenario,  \* the scenario
    account,   \* the password of a user's row, NoUser where there is no row
    codes,     \* the documents of codes
    expired,   \* codes that are too old, and sessions that are
    made,      \* how many requests have passed the limits
    posted,    \* the codes that were delivered
    throttle,  \* the requests of an email within the window
    wizard,    \* the wizard of a tab
    asking,    \* its calls
    resets,    \* the resets that were carried out
    session,   \* the AuthProvider of a tab, and its token and socket
    localToken, \* the token in localStorage
    asked,     \* the requests of a tab that are not answered yet
    login      \* its call of login or register

reset == <<codes, expired, made, posted, throttle, wizard, asking, resets>>
tabs == <<session, localToken, asked, login>>
signInVars == <<signInScenario, account, reset, tabs>>

-----------------------------------------------------------------------------
Slots == {"submit", "resend"}
NoAsk == [op |-> "none", at |-> "idle", user |-> NoUser, code |-> 0, holds |-> NoUser, heard |-> TRUE]
EmptyWizard == [step |-> "email", email |-> NoUser, holds |-> NoUser, counts |-> 0, cools |-> FALSE]
Signed(u) == [token |-> u, user |-> u, initializing |-> FALSE, socket |-> NoUser]

InitSignIn ==
    /\ signInScenario \in SignInScenarios
    /\ account = [u \in Users |-> IF u \in Registered \/ "newcomer" \notin signInScenario
                                THEN OldPassword ELSE NoUser]
    /\ codes = <<>>
    /\ expired = [codes |-> {}, sessions |-> {}]
    /\ made = 0
    /\ posted = {}
    /\ throttle = [u \in Users |-> [count |-> 0, cooling |-> FALSE]]
    /\ wizard = [t \in Wizards |-> EmptyWizard]
    /\ asking = [t \in Wizards |-> [s \in Slots |-> NoAsk]]
    /\ resets = {}
    /\ session = [t \in Tabs |-> Signed(NoUser)]
    /\ localToken = NoUser
    /\ asked = [t \in Tabs |-> {}]
    /\ login = [t \in Tabs |-> [at |-> "idle", user |-> NoUser, password |-> NoUser]]

-----------------------------------------------------------------------------
(* ForgotPassword.  What is under way is not cancelled by a change of email *)
(* or a page that is loaded again, and a new call waits for the old one.    *)

StartsCall(t, s, op, user, code, holds) ==
    /\ "wizard" \in signInScenario
    /\ asking[t][s] = NoAsk
    /\ asking' = [asking EXCEPT ![t][s] = [op |-> op, at |-> "sent", user |-> user, code |-> code,
                                       holds |-> holds, heard |-> TRUE]]
    /\ UNCHANGED <<signInScenario, account, codes, expired, made, posted, throttle, wizard, resets, tabs>>

(* The form of each step *)
Shows(t, step) == wizard[t].step = step

TypeEmail(t, u) ==
    /\ "wizard" \in signInScenario
    /\ Shows(t, "email") /\ wizard[t].email # u
    /\ wizard' = [wizard EXCEPT ![t].email = u]
    /\ UNCHANGED <<signInScenario, account, codes, expired, made, posted, throttle, asking, resets, tabs>>

handleSendCode(t) ==
    /\ Shows(t, "email") /\ wizard[t].email # NoUser
    /\ StartsCall(t, "submit", "request", wizard[t].email, 0, NoUser)

handleResend(t) ==
    /\ Shows(t, "code") /\ ~wizard[t].cools
    /\ StartsCall(t, "resend", "request", wizard[t].email, 0, NoUser)

isCodeExpired(t) == wizard[t].counts \in expired.codes

(* The holder of the email enters a code that was delivered, or mistypes it. *)
handleVerifyCode(t, code) ==
    /\ Shows(t, "code") /\ ~isCodeExpired(t)
    /\ StartsCall(t, "submit", "verify", wizard[t].email, code, NoUser)

handleResetPassword(t) ==
    /\ Shows(t, "password") /\ wizard[t].email # NoUser
    /\ StartsCall(t, "submit", "reset", wizard[t].email, 0, wizard[t].holds)

changeEmail(t) ==
    /\ Shows(t, "code")
    /\ wizard' = [wizard EXCEPT ![t] = EmptyWizard]
    /\ UNCHANGED <<signInScenario, account, codes, expired, made, posted, throttle, asking, resets, tabs>>

(* loadStoredState: only the step of the code is resumed. *)
LoadWizard(t) ==
    /\ wizard[t] # EmptyWizard
    /\ wizard' = [wizard EXCEPT ![t] = IF @.step = "code" THEN [@ EXCEPT !.holds = NoUser]
                                       ELSE EmptyWizard]
    /\ asking' = [asking EXCEPT ![t] = [s \in Slots |-> IF @[s] = NoAsk THEN NoAsk
                                                    ELSE [@[s] EXCEPT !.heard = FALSE]]]
    /\ UNCHANGED <<signInScenario, account, codes, expired, made, posted, throttle, resets, tabs>>

(* The call is answered, unless its answer gets lost or nobody waits for it. *)
Answers(t, s, w) ==
    /\ asking' = [asking EXCEPT ![t][s] = NoAsk]
    /\ \/ wizard' = [wizard EXCEPT ![t] = IF asking[t][s].heard THEN w ELSE @]
       \/ "lossy" \in signInScenario /\ UNCHANGED wizard

GoesOn(t, s, at) == asking' = [asking EXCEPT ![t][s].at = at] /\ UNCHANGED wizard
Refuses(t, s) == asking' = [asking EXCEPT ![t][s] = NoAsk] /\ UNCHANGED wizard

-----------------------------------------------------------------------------
(* PasswordResetService.requestReset *)

At(t, s, op, at) == asking[t][s].op = op /\ asking[t][s].at = at
Throttled(u) == throttle[u].cooling \/ throttle[u].count >= RateLimit
CodesOf(u) == {c \in DOMAIN codes : codes[c].user = u}

RequestChecked(t, s) ==
    /\ At(t, s, "request", "sent")
    /\ IF Throttled(asking[t][s].user)
       THEN Refuses(t, s) /\ UNCHANGED made
       ELSE /\ made < MaxCodes
            /\ made' = made + 1
            /\ asking' = [asking EXCEPT ![t][s].at = "record", ![t][s].code = made + 1]
            /\ UNCHANGED wizard
    /\ UNCHANGED <<signInScenario, account, codes, expired, posted, throttle, resets, tabs>>

Accepted(t, s) ==
    [wizard[t] EXCEPT !.counts = asking[t][s].code, !.cools = TRUE,
                      !.step = IF s = "submit" THEN "code" ELSE @]

(* recordRequestAttempt; an email without an account gets the same answer. *)
RequestRecorded(t, s) ==
    LET u == asking[t][s].user IN
        /\ At(t, s, "request", "record")
        /\ throttle' = [throttle EXCEPT ![u] = [count |-> @.count + 1, cooling |-> TRUE]]
        /\ IF account[u] = NoUser THEN Answers(t, s, Accepted(t, s)) ELSE GoesOn(t, s, "delete")
        /\ UNCHANGED <<signInScenario, account, codes, expired, made, posted, resets, tabs>>

Without(cs) == Restrict(codes, DOMAIN codes \ cs)

RequestDeletes(t, s) ==
    /\ At(t, s, "request", "delete")
    /\ codes' = Without(CodesOf(asking[t][s].user))
    /\ GoesOn(t, s, "create")
    /\ UNCHANGED <<signInScenario, account, expired, made, posted, throttle, resets, tabs>>

RequestCreates(t, s) ==
    /\ At(t, s, "request", "create")
    /\ LET c == asking[t][s].code IN
         codes' = [d \in DOMAIN codes \cup {c} |->
                     IF d = c THEN [user |-> asking[t][s].user, attempts |-> 0, session |-> NoUser]
                     ELSE codes[d]]
    /\ GoesOn(t, s, "send")
    /\ UNCHANGED <<signInScenario, account, expired, made, posted, throttle, resets, tabs>>

(* selectEmailProvider *)
ByGmail == "gmail" \in signInScenario

(* GoogleMailProvider.send: up to MAX_SEND_ATTEMPTS, while the failures pass. *)
(* A call that has timed out may have been carried out, so that a message may *)
(* arrive although the provider says that it failed.                          *)
MAX_SEND_ATTEMPTS == 3
isTransientError == {"timedOut", "timedOutDelivered"}

sends ==
    {a \in UNION {[1..n -> isTransientError \cup {"sent", "refused"}] : n \in 1..MAX_SEND_ATTEMPTS} :
        \A k \in DOMAIN a :
            /\ k + 1 \in DOMAIN a => a[k] \in isTransientError
            /\ a[k] \in isTransientError => k + 1 \in DOMAIN a \/ k = MAX_SEND_ATTEMPTS}

RequestSends(t, s) ==
    /\ At(t, s, "request", "send")
    /\ \E a \in IF ByGmail THEN sends ELSE {<<"sent">>} :
         /\ posted' = IF {"sent", "timedOutDelivered"} \cap Range(a) # {}
                      THEN posted \cup {asking[t][s].code} ELSE posted
         /\ IF "sent" \in Range(a) THEN Answers(t, s, Accepted(t, s)) ELSE Refuses(t, s)
    /\ UNCHANGED <<signInScenario, account, codes, expired, made, throttle, resets, tabs>>

-----------------------------------------------------------------------------
(* PasswordResetService.verifyCode *)

Newest(cs) == CHOOSE c \in cs : \A d \in cs : d <= c

(* findLatestUnusedByUserId, and the checks of what it found *)
VerifyFinds(t, s) ==
    LET cs == CodesOf(asking[t][s].user)
        c == Newest(cs)
    IN
        /\ At(t, s, "verify", "sent")
        /\ IF account[asking[t][s].user] = NoUser \/ cs = {} \/ c \in expired.codes
                \/ codes[c].attempts >= MaxAttempts \/ codes[c].session # NoUser
           THEN Refuses(t, s)
           ELSE /\ asking' = [asking EXCEPT ![t][s].at = IF asking[t][s].code = c THEN "mark" ELSE "miss",
                                        ![t][s].code = c]
                /\ UNCHANGED wizard
        /\ UNCHANGED <<signInScenario, account, codes, expired, made, posted, throttle, resets, tabs>>

(* incrementAttempts *)
VerifyMisses(t, s) ==
    /\ At(t, s, "verify", "miss")
    /\ codes' = [c \in DOMAIN codes |->
                   IF c = asking[t][s].code THEN [codes[c] EXCEPT !.attempts = @ + 1] ELSE codes[c]]
    /\ Refuses(t, s)
    /\ UNCHANGED <<signInScenario, account, expired, made, posted, throttle, resets, tabs>>

(* markVerified: of a document that was deleted meanwhile, nothing *)
VerifyMarks(t, s) ==
    LET c == asking[t][s].code IN
        /\ At(t, s, "verify", "mark")
        /\ codes' = [d \in DOMAIN codes |-> IF d = c THEN [codes[d] EXCEPT !.session = t] ELSE codes[d]]
        /\ expired' = [expired EXCEPT !.sessions = @ \ {c}]
        /\ Answers(t, s, [wizard[t] EXCEPT !.step = "password", 
                                         !.holds = [code |-> c, tab |-> t, user |-> asking[t][s].user]])
        /\ UNCHANGED <<signInScenario, account, made, posted, throttle, resets, tabs>>

-----------------------------------------------------------------------------
(* PasswordResetService.resetPassword *)

VerifiedCodes(u) == {c \in CodesOf(u) : codes[c].session # NoUser}

Mutant_HoldsUnchecked(holds, c) == c \notin expired.sessions

(* The session is the one of the code that was verified last. *)
Holds(holds, c) == c \notin expired.sessions /\ holds.code = c /\ holds.tab = codes[c].session

ResetFinds(t, s) ==
    LET u == asking[t][s].user IN
        /\ At(t, s, "reset", "sent")
        /\ IF VerifiedCodes(u) # {} /\ Holds(asking[t][s].holds, Newest(VerifiedCodes(u)))
           THEN GoesOn(t, s, "save") ELSE Refuses(t, s)
        /\ UNCHANGED <<signInScenario, account, codes, expired, made, posted, throttle, resets, tabs>>

(* updatePassword, after the new password was hashed *)
ResetSaves(t, s) ==
    LET u == asking[t][s].user IN
        /\ At(t, s, "reset", "save")
        /\ account' = [account EXCEPT ![u] = NewPassword]
        /\ resets' = resets \cup {[user |-> u, by |-> asking[t][s].holds, left |-> CodesOf(u), closed |-> FALSE]}
        /\ GoesOn(t, s, "close")
        /\ UNCHANGED <<signInScenario, codes, expired, made, posted, throttle, tabs>>

(* invalidateAllForUser *)
ClosedCodes(u, holds) == CodesOf(u)

ResetCloses(t, s) ==
    LET u == asking[t][s].user IN
        /\ At(t, s, "reset", "close")
        /\ codes' = Without(ClosedCodes(u, asking[t][s].holds))
        /\ resets' = {IF r.user = u /\ r.by = asking[t][s].holds THEN [r EXCEPT !.closed = TRUE] ELSE r :
                         r \in resets}
        /\ Answers(t, s, [wizard[t] EXCEPT !.step = "done", !.holds = NoUser])
        /\ UNCHANGED <<signInScenario, account, expired, made, posted, throttle, tabs>>

-----------------------------------------------------------------------------
(* The clock *)

Lapses == Cardinality(expired.codes) + Cardinality(expired.sessions)

CodeExpires(c) ==
    /\ Lapses < MaxLapses
    /\ c \in 1..made \ expired.codes
    /\ expired' = [expired EXCEPT !.codes = @ \cup {c}]
    /\ UNCHANGED <<signInScenario, account, codes, made, posted, throttle, wizard, asking, resets, tabs>>

SessionExpires(c) ==
    /\ Lapses < MaxLapses
    /\ c \in DOMAIN codes /\ codes[c].session # NoUser /\ c \notin expired.sessions
    /\ expired' = [expired EXCEPT !.sessions = @ \cup {c}]
    /\ UNCHANGED <<signInScenario, account, codes, made, posted, throttle, wizard, asking, resets, tabs>>

(* RESEND_COOLDOWN_SECONDS, then RESET_REQUEST_RATE_LIMIT_WINDOW_MINUTES *)
Cooled(w, u) == IF w.email = u THEN [w EXCEPT !.cools = FALSE] ELSE w

ThrottleEases(u) ==
    /\ \/ /\ throttle[u].cooling \/ \E t \in Wizards : wizard[t].email = u /\ wizard[t].cools
          /\ throttle' = [throttle EXCEPT ![u].cooling = FALSE]
          /\ wizard' = [t \in Wizards |-> Cooled(wizard[t], u)]
       \/ /\ ~throttle[u].cooling /\ throttle[u].count > 0
          /\ throttle' = [throttle EXCEPT ![u].count = @ - 1]
          /\ UNCHANGED wizard
    /\ UNCHANGED <<signInScenario, account, codes, expired, made, posted, asking, resets, tabs>>

-----------------------------------------------------------------------------
(* AuthProvider and AuthService.  A login checks the password, reads the row *)
(* again, and saves all of it.                                               *)

LoginSubmit(t, u, password) ==
    /\ "login" \in signInScenario
    /\ session[t].initializing => "impatient" \in signInScenario
    /\ session[t].user # NoUser => "switch" \in signInScenario
    /\ login[t].at = "idle"
    /\ login' = [login EXCEPT ![t] = [at |-> IF password = NoUser THEN "register" ELSE "check",
                                      user |-> u, password |-> password]]
    /\ UNCHANGED <<signInScenario, account, reset, session, localToken, asked>>

LoginChecks(t) ==
    /\ login[t].at = "check"
    /\ login' = [login EXCEPT ![t].at =
                   IF account[login[t].user] = login[t].password THEN "read" ELSE "idle"]
    /\ UNCHANGED <<signInScenario, account, reset, session, localToken, asked>>

LoginReads(t) ==
    /\ login[t].at = "read"
    /\ login' = [login EXCEPT ![t].at = "save", ![t].password = account[login[t].user]]
    /\ UNCHANGED <<signInScenario, account, reset, session, localToken, asked>>

(* setToken, setUser: a socket that is open stays open. *)
SignsIn(t, u) ==
    /\ session' = [session EXCEPT ![t] = [Signed(u) EXCEPT !.socket = session[t].socket]]
    /\ localToken' = u
    /\ login' = [login EXCEPT ![t].at = "idle"]

LoginSaves(t) ==
    /\ login[t].at = "save"
    /\ account' = [account EXCEPT ![login[t].user] = login[t].password]
    /\ SignsIn(t, login[t].user)
    /\ UNCHANGED <<signInScenario, reset, asked>>

(* register: the index on the email refuses what the lookup has missed. *)
Registers(t) ==
    /\ login[t].at = "register"
    /\ IF account[login[t].user] = NoUser
       THEN /\ account' = [account EXCEPT ![login[t].user] = OldPassword]
            /\ SignsIn(t, login[t].user)
       ELSE /\ login' = [login EXCEPT ![t].at = "idle"]
            /\ UNCHANGED <<account, session, localToken>>
    /\ UNCHANGED <<signInScenario, reset, asked>>

(* hydrate *)
LoadPage(t) ==
    /\ "session" \in signInScenario
    /\ login[t].at = "idle"
    /\ session' = [session EXCEPT ![t] = [token |-> localToken, user |-> NoUser,
                                          initializing |-> localToken # NoUser, socket |-> NoUser]]
    /\ asked' = [asked EXCEPT ![t] = IF localToken = NoUser THEN {} ELSE {[what |-> "me", user |-> localToken]}]
    /\ UNCHANGED <<signInScenario, account, reset, localToken, login>>

Asks(t) ==
    /\ "session" \in signInScenario
    /\ session[t].user # NoUser
    /\ asked' = [asked EXCEPT ![t] = @ \cup {[what |-> "query", user |-> session[t].token]}]
    /\ UNCHANGED <<signInScenario, account, reset, session, localToken, login>>

Mutant_LoggedOut(t) == [Signed(NoUser) EXCEPT !.socket = session[t].socket]

TabLoggedOut(t) == Signed(NoUser)

logout(t) ==
    /\ session[t].user # NoUser
    /\ session' = [session EXCEPT ![t] = TabLoggedOut(t)]
    /\ localToken' = NoUser
    /\ UNCHANGED <<signInScenario, account, reset, asked, login>>

(* apiFetch: "me" tells who the user is; the network fails, or the token was *)
(* refused, which logs out whoever is signed in by now.                      *)
Answered(t, q, answer) ==
    /\ q \in asked[t]
    /\ asked' = [asked EXCEPT ![t] = @ \ {q}]
    /\ CASE answer = "unauthorized" ->
              session' = [session EXCEPT ![t] = TabLoggedOut(t)] /\ localToken' = NoUser
         [] q.what = "me" /\ answer # "unauthorized" ->
              /\ session' = [session EXCEPT ![t].initializing = FALSE,
                                            ![t].user = IF answer = "ok" THEN q.user ELSE @]
              /\ UNCHANGED localToken
         [] OTHER -> UNCHANGED <<session, localToken>>
    /\ UNCHANGED <<signInScenario, account, reset, login>>

getSocket(t) ==
    /\ "session" \in signInScenario
    /\ session[t].user # NoUser /\ session[t].socket = NoUser
    /\ session' = [session EXCEPT ![t].socket = session[t].token]
    /\ UNCHANGED <<signInScenario, account, reset, localToken, asked, login>>

-----------------------------------------------------------------------------
NextSignIn ==
    \/ \E t \in Wizards :
         \/ handleSendCode(t) \/ handleResend(t) \/ handleResetPassword(t)
         \/ changeEmail(t) \/ LoadWizard(t)
         \/ \E u \in Users : TypeEmail(t, u)
         \/ \E c \in posted \cup {0} : handleVerifyCode(t, c)
         \/ \E s \in Slots :
              \/ RequestChecked(t, s) \/ RequestRecorded(t, s) \/ RequestDeletes(t, s)
              \/ RequestCreates(t, s) \/ RequestSends(t, s)
              \/ VerifyFinds(t, s) \/ VerifyMisses(t, s) \/ VerifyMarks(t, s)
              \/ ResetFinds(t, s) \/ ResetSaves(t, s) \/ ResetCloses(t, s)
    \/ \E c \in 1..made : CodeExpires(c) \/ SessionExpires(c)
    \/ \E u \in Users : ThrottleEases(u)
    \/ \E t \in Tabs :
         \/ LoginChecks(t) \/ LoginReads(t) \/ LoginSaves(t) \/ Registers(t)
         \/ LoadPage(t) \/ Asks(t) \/ logout(t) \/ getSocket(t)
         \/ \E u \in Users, p \in {OldPassword, NewPassword, NoUser} : LoginSubmit(t, u, p)
         \/ \E q \in asked[t], answer \in {"ok", "unauthorized", "failed"} : Answered(t, q, answer)

SignInSpec == InitSignIn /\ [][NextSignIn]_signInVars

-----------------------------------------------------------------------------
(* Properties *)

(* A password is only ever set for the user whose code was verified, however *)
(* the wizard's email, its other calls and other tabs change meanwhile       *)
(* (resetPassword: "requires a valid, unexpired, unused session token").     *)
ResetIsTheOwners == \A r \in resets : r.by.user = r.user

(* A successful reset always fully closes the loop: no code or session that  *)
(* was pending when the password was saved is left when the reset is over    *)
(* (resetPassword's invalidateAllForUser), two requests at a time included.  *)
ResetClosesTheLoop ==
    \A r \in resets : r.closed => r.left \cap DOMAIN codes = {}

(* A reset changes one account, and ends all that could change it again.     *)
ResetIsSafe == ResetIsTheOwners /\ ResetClosesTheLoop

(* The socket of a tab speaks for the user who is signed in, whoever was     *)
(* before, was logged out by a late answer, or loaded the page again.  Not   *)
(* so where somebody signs in over a user who is signed in already, or while *)
(* the answer to "me" is awaited: the pages of signing in are open to both,  *)
(* and a socket that is open stays open.                                     *)
SocketIsTheUsers ==
    signInScenario \cap {"switch", "impatient"} = {} =>
        \A t \in Tabs : session[t].user # NoUser => session[t].socket \in {NoUser, session[t].user}
=============================================================================
