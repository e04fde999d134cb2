------------------------------- MODULE Accounts -------------------------------
(***************************************************************************)
(* One person's mail address: the accounts it has had, the password and    *)
(* the Google identity that open them, the links mailed to it and the      *)
(* sessions.  The requests of the account pages are answered before their  *)
(* work is done: the service runs it after the response.  A transaction is *)
(* one step where its row locks make it so, and is split where they do not.*)
(***************************************************************************)
EXTENDS Naturals, FiniteSets

CONSTANTS
    ACCOUNTS,   \* bound: accounts the address can have had
    LINKS,      \* bound: unused links of one account and kind told apart
    SESSIONS,   \* bound: sessions at once
    LOSSES      \* bound: mails that fail and restarts of the server, together

ASSUME AccountsAssumption == ACCOUNTS \in Nat \ {0} /\ LINKS \in Nat \ {0} /\ SESSIONS \in Nat /\ LOSSES \in Nat

VARIABLES
    user,       \* rows of users
    cred,       \* rows of password_credentials
    google,     \* the account oauth_identities gives the person's Google subject
    links,      \* unused rows of account_action_tokens, with the fate of their mail
    sessions,   \* rows of auth_sessions
    jobs,       \* work scheduled after a response
    joining,    \* the account a registration has found and is about to join
    signIn,     \* a password sign-in between its read and its session
    visit,      \* a Google sign-in under way
    dialog,     \* AccountDialog
    losses      \* mails and restarts lost so far

storeVars == <<user, cred, google, links, sessions>>
serverVars == <<jobs, joining, signIn, visit>>
accountVars == <<storeVars, serverVars, dialog, losses>>

-----------------------------------------------------------------------------
Ids == 1 .. ACCOUNTS
Nobody == 0
Hashes == {1, 2}    \* the passwords the person has used
ByGoogle == 0       \* what a session holds instead

NoUser == [state |-> "none", verified |-> FALSE]
NoCred == [hash |-> 0, verified |-> FALSE]
NoSignIn == [user |-> Nobody, hash |-> 0, late |-> FALSE]
NoVisit == [at |-> "none", user |-> Nobody]
Closed == [view |-> "closed", wait |-> "no"]

Open(a) == user[a].state = "open"
HasPassword(a) == cred[a] # NoCred
Begin(a, how, late) ==
    /\ sessions' = sessions \cup {[user |-> a, by |-> how, late |-> late]}
    /\ Cardinality(sessions') <= SESSIONS
LinksOf(a, kind) == {l \in links : l.user = a /\ l.kind = kind}

\* The account that has the address: users_email_lower_uidx allows one.
Holders == {a \in Ids : Open(a)}

\* A new user gets an id nothing refers to.
Unused == {a \in Ids : user[a].state = "none" /\ visit.user # a}
Fresh(a) == a \in Unused /\ \A b \in Unused : a <= b

\* insertVerificationToken, and the insert of createOrRotateActionToken.
NewLink(a, kind, kept) ==
    LET used == {l.n : l \in {k \in kept : k.user = a /\ k.kind = kind}}
    IN  \E n \in (1 .. LINKS) \ used :
        /\ \A m \in 1 .. n - 1 : m \in used
        /\ links' = kept \cup {[user |-> a, kind |-> kind, n |-> n, mail |-> "due"]}

-----------------------------------------------------------------------------
(* The dialog.  A view that is left, or a dialog that is closed, forgets the *)
(* request it waits for; the server does the work all the same.              *)
Views == {"sign-in", "create-account", "forgot-password", "pending-verification", "pending-reset"}

Show(v) == dialog' = [view |-> v, wait |-> "no"]
PageOnly == UNCHANGED <<storeVars, serverVars, losses>>

OpenDialog == dialog = Closed /\ Show("sign-in") /\ PageOnly

CloseDialog == dialog # Closed /\ dialog' = Closed /\ PageOnly

ChangeView(v) ==
    /\ dialog.view \in Views /\ PageOnly
    /\ \/ v = "sign-in"
       \/ dialog.view = "sign-in" /\ v \in {"create-account", "forgot-password"}
    /\ Show(v)

Answer ==
    /\ dialog.wait = "answer" /\ PageOnly
    /\ Show(IF dialog.view = "create-account" THEN "pending-verification" ELSE "pending-reset")

\* The service schedules the work whatever the database holds, and answers alike.  A
\* rate limit refuses, and changes nothing.
Accepts(job) == job \notin jobs /\ jobs' = jobs \cup {job} /\ UNCHANGED <<joining, signIn, visit>>
Register == Accepts("register")
ResendVerification == Accepts("verify_email")
RequestPasswordReset == Accepts("reset_password")

Idle(view) == dialog = [view |-> view, wait |-> "no"] /\ UNCHANGED <<storeVars, losses>>
Waits(for) == dialog' = [dialog EXCEPT !.wait = for]

SubmitRegister == Idle("create-account") /\ Register /\ Waits("answer")
SubmitForgot == Idle("forgot-password") /\ RequestPasswordReset /\ Waits("answer")
SubmitResend == Idle("pending-verification") /\ ResendVerification /\ UNCHANGED dialog

-----------------------------------------------------------------------------
(* The work behind the response.                                             *)
JobDone(job) == jobs' = jobs \ {job}

\* registerPendingAccount for an address nobody has: all its rows, in one transaction.
RegisterNew ==
    /\ "register" \in jobs /\ joining = Nobody /\ Holders = {}
    /\ \E a \in Ids :
        /\ Fresh(a)
        /\ user' = [user EXCEPT ![a] = [state |-> "open", verified |-> FALSE]]
        /\ cred' = [cred EXCEPT ![a] = [hash |-> 1, verified |-> FALSE]]
        /\ NewLink(a, "verify_email", links)
    /\ JobDone("register")
    /\ UNCHANGED <<google, sessions, joining, signIn, visit, dialog, losses>>

\* For an address in use: only a Google account without a password goes on, and
\* nothing locks it until the insert.
MayJoin(a) == ~HasPassword(a) /\ google = a

RegisterFindsUser ==
    /\ "register" \in jobs /\ joining = Nobody
    /\ \E a \in Holders :
        IF MayJoin(a) THEN joining' = a /\ UNCHANGED jobs
                      ELSE JobDone("register") /\ UNCHANGED joining
    /\ UNCHANGED <<storeVars, signIn, visit, dialog, losses>>

RegisterJoins ==
    /\ joining # Nobody
    /\ IF HasPassword(joining) THEN UNCHANGED <<cred, links>>
       ELSE /\ cred' = [cred EXCEPT ![joining] = [hash |-> 1, verified |-> FALSE]]
            /\ NewLink(joining, "verify_email", links)
    /\ joining' = Nobody /\ JobDone("register")
    /\ UNCHANGED <<user, google, sessions, signIn, visit, dialog, losses>>

\* createOrRotateActionToken: FOR UPDATE on the user and the credential.
MutantAnyStage(a, kind) == Open(a) /\ HasPassword(a)
MutantVerifiedUser(a, kind) ==
    /\ Open(a) /\ HasPassword(a) /\ user[a].verified
    /\ cred[a].verified <=> kind = "reset_password"

Eligible(a, kind) ==
    /\ Open(a) /\ HasPassword(a)
    /\ IF kind = "verify_email" THEN ~cred[a].verified ELSE cred[a].verified /\ user[a].verified

Rotate(kind) ==
    /\ kind \in jobs /\ JobDone(kind)
    /\ \/ \E a \in Ids : Eligible(a, kind) /\ NewLink(a, kind, links \ LinksOf(a, kind))
       \/ ~(\E a \in Ids : Eligible(a, kind)) /\ UNCHANGED links
    /\ UNCHANGED <<user, cred, google, sessions, joining, signIn, visit, dialog, losses>>

MailLeaves(l) ==
    /\ l.mail = "due"
    /\ links' = (links \ {l}) \cup {[l EXCEPT !.mail = "sent"]}
    /\ UNCHANGED <<user, cred, google, sessions, serverVars, dialog, losses>>

Fail == losses < LOSSES /\ losses' = losses + 1

MailFails(l) ==
    /\ l.mail = "due" /\ Fail
    /\ links' = (links \ {l}) \cup {[l EXCEPT !.mail = "lost"]}
    /\ UNCHANGED <<user, cred, google, sessions, serverVars, dialog>>

\* The server restarts: what ran after a response, or between two transactions, is gone.
Restart ==
    /\ Fail
    /\ links' = {IF l.mail = "due" THEN [l EXCEPT !.mail = "lost"] ELSE l : l \in links}
    /\ jobs' = {} /\ joining' = Nobody /\ signIn' = NoSignIn /\ visit' = NoVisit
    /\ dialog' = IF dialog.wait = "session" THEN [dialog EXCEPT !.wait = "no"] ELSE dialog
    /\ UNCHANGED <<user, cred, google, sessions>>

-----------------------------------------------------------------------------
(* The links, and their end.                                                 *)
\* The pages a link opens take its token out of the address and post it once.
OpensVerifyLink(l) == l.mail = "sent" /\ l.kind = "verify_email"
OpensResetLink(l) == l.mail = "sent" /\ l.kind = "reset_password"

\* consumeActionToken: a disabled user or a verified credential rolls it back.
VerifyEmail(l) ==
    /\ OpensVerifyLink(l)
    /\ Open(l.user) /\ HasPassword(l.user) /\ ~cred[l.user].verified
    /\ links' = links \ {l}
    /\ user' = [user EXCEPT ![l.user].verified = TRUE]
    /\ cred' = [cred EXCEPT ![l.user].verified = TRUE]
    /\ UNCHANGED <<google, sessions, serverVars, dialog, losses>>

\* replacePasswordAndRevokeSessions.
MutantRevoked(a) == {s \in sessions : s.user = a /\ s.by = ByGoogle}
Revoked(a) == {s \in sessions : s.user = a}

ResetPassword(l) ==
    /\ OpensResetLink(l)
    /\ Open(l.user) /\ cred[l.user].verified
    /\ cred' = [cred EXCEPT ![l.user].hash = 3 - @]
    /\ sessions' = sessions \ Revoked(l.user)
    /\ links' = links \ LinksOf(l.user, "reset_password")
    /\ signIn' = IF signIn.user = l.user THEN [signIn EXCEPT !.late = TRUE] ELSE signIn
    /\ UNCHANGED <<user, google, jobs, joining, visit, dialog, losses>>

\* A link expires, half an hour after its mail was due or later, and the sweep deletes it.
Expires(l) ==
    /\ l.mail # "due"
    /\ links' = links \ {l}
    /\ UNCHANGED <<user, cred, google, sessions, serverVars, dialog, losses>>

\* cleanupExpiredAccountData: never verified within seven days, and no Google identity.
Stale(a) == Open(a) /\ ~user[a].verified /\ HasPassword(a) /\ ~cred[a].verified /\ google # a

Cleanup(a) ==
    /\ Stale(a)
    /\ user' = [user EXCEPT ![a] = NoUser]
    /\ cred' = [cred EXCEPT ![a] = NoCred]
    /\ links' = {l \in links : l.user # a}
    /\ sessions' = sessions \ Revoked(a)
    /\ UNCHANGED <<google, serverVars, dialog, losses>>

-----------------------------------------------------------------------------
(* Signing in with the password: the hash is read and checked first, and the *)
(* session inserted in a transaction of its own.                             *)
MaySignIn(a, hash) == Open(a) /\ cred[a] = [hash |-> hash, verified |-> TRUE]

SubmitSignIn(hash) ==
    /\ Idle("sign-in") /\ signIn = NoSignIn
    /\ \E a \in Ids : MaySignIn(a, hash) /\ signIn' = [user |-> a, hash |-> hash, late |-> FALSE]
    /\ Waits("session") /\ UNCHANGED <<jobs, joining, visit>>

CreateSession ==
    /\ signIn # NoSignIn
    /\ Begin(signIn.user, signIn.hash, signIn.late)
    /\ signIn' = NoSignIn
    /\ dialog' = IF dialog.wait = "session" THEN Closed ELSE dialog
    /\ UNCHANGED <<user, cred, google, links, jobs, joining, visit, losses>>

\* Signed out, expired, or refused by getSessionAndUser because its user is disabled.
SessionEnds(s) ==
    /\ sessions' = sessions \ {s}
    /\ UNCHANGED <<user, cred, google, links, serverVars, dialog, losses>>

\* DELETE /api/account/delete, by a session that getSessionAndUser lets through.
MayDelete(a) == Open(a) /\ \E s \in sessions : s.user = a

\* deleteOwnAccount.
DeleteAccount(a) ==
    /\ MayDelete(a)
    /\ user' = [user EXCEPT ![a] = [state |-> "deleted", verified |-> FALSE]]
    /\ cred' = [cred EXCEPT ![a] = NoCred]
    /\ links' = {l \in links : l.user # a}
    /\ google' = IF google = a THEN Nobody ELSE google
    /\ sessions' = sessions \ Revoked(a)
    /\ UNCHANGED <<serverVars, dialog, losses>>

-----------------------------------------------------------------------------
(* Signing in with Google: Auth.js calls the adapter, one transaction a call. *)
VisitOnly == UNCHANGED <<links, cred, jobs, joining, signIn, dialog, losses>>
At(step, a) == visit' = [at |-> step, user |-> a]

\* By identity, then by address; a disabled user counts as none.
GoogleLooksUp ==
    /\ visit = NoVisit
    /\ IF google \in Holders THEN At("session", google)
       ELSE \/ \E a \in Holders : At("link", a)
            \/ Holders = {} /\ At("create", Nobody)
    /\ VisitOnly /\ UNCHANGED <<user, google, sessions>>

GoogleCreates ==
    /\ visit.at = "create"
    /\ IF Holders # {} THEN visit' = NoVisit /\ UNCHANGED user
       ELSE \E a \in Ids :
            /\ Fresh(a) /\ At("link", a)
            /\ user' = [user EXCEPT ![a] = [state |-> "open", verified |-> TRUE]]
    /\ VisitOnly /\ UNCHANGED <<google, sessions>>

\* linkIdentity: refused if the subject is another user's, or the user row is gone.
GoogleLinks ==
    /\ visit.at = "link"
    /\ IF google \in {Nobody, visit.user} /\ user[visit.user] # NoUser
       THEN google' = visit.user /\ At("session", visit.user)
       ELSE visit' = NoVisit /\ UNCHANGED google
    /\ VisitOnly /\ UNCHANGED <<user, sessions>>

GoogleSession ==
    /\ visit.at = "session"
    /\ Begin(visit.user, ByGoogle, FALSE)
    /\ visit' = NoVisit
    /\ VisitOnly /\ UNCHANGED <<user, google>>

-----------------------------------------------------------------------------
AccountsInit ==
    /\ user = [a \in Ids |-> NoUser] /\ cred = [a \in Ids |-> NoCred] /\ google = Nobody
    /\ links = {} /\ sessions = {} /\ jobs = {} /\ joining = Nobody
    /\ signIn = NoSignIn /\ visit = NoVisit /\ dialog = Closed /\ losses = 0

AccountsNext ==
    \/ OpenDialog \/ CloseDialog \/ Answer \/ (\E v \in Views : ChangeView(v))
    \/ SubmitRegister \/ SubmitResend \/ SubmitForgot
    \/ RegisterNew \/ RegisterFindsUser \/ RegisterJoins
    \/ Rotate("verify_email") \/ Rotate("reset_password")
    \/ \E l \in links : MailLeaves(l) \/ MailFails(l) \/ VerifyEmail(l) \/ ResetPassword(l) \/ Expires(l)
    \/ Restart
    \/ (\E h \in Hashes : SubmitSignIn(h)) \/ CreateSession
    \/ (\E s \in sessions : SessionEnds(s))
    \/ \E a \in Ids : Cleanup(a) \/ DeleteAccount(a)
    \/ GoogleLooksUp \/ GoogleCreates \/ GoogleLinks \/ GoogleSession

\* The server carries on with what it has begun.  The person keeps coming back to
\* the dialog, is not rate limited for ever, and does not let every link expire.
AccountsFairness ==
    /\ WF_accountVars(RegisterNew \/ RegisterFindsUser \/ RegisterJoins)
    /\ WF_accountVars(Rotate("verify_email"))
    /\ WF_accountVars(\E l \in links : MailLeaves(l))
    /\ WF_accountVars(OpenDialog)
    /\ SF_accountVars(dialog.view = "create-account" /\ Answer)
    /\ SF_accountVars(ChangeView("sign-in"))
    /\ SF_accountVars(ChangeView("create-account"))
    /\ SF_accountVars(SubmitRegister)
    /\ SF_accountVars(SubmitResend)
    /\ SF_accountVars(\E l \in links : VerifyEmail(l))

AccountsSpec == AccountsInit /\ [][AccountsNext]_accountVars /\ AccountsFairness

-----------------------------------------------------------------------------
\* An unused link is the only one of its account and kind, and fits the credential
\* it is for: a verification link an unverified one, a reset link a verified one,
\* however registrations, resends, verifications and deletions overlap
\* (postgres-account-store.ts, createOrRotateActionToken and consumeActionToken).
LinksFitCredential ==
    \A l \in links :
        /\ LinksOf(l.user, l.kind) = {l}
        /\ HasPassword(l.user)
        /\ cred[l.user].verified <=> l.kind = "reset_password"

\* A reset signs every browser out: a session opened with a replaced password is one
\* whose sign-in had read the credential before the reset (account-service.ts:290).
ResetSignsOut ==
    \A s \in sessions :
        Open(s.user) /\ s.by # ByGoogle => s.late \/ s.by = cred[s.user].hash

\* Nobody stays half registered: through lost mails, expired links and restarts, and
\* with registration answering alike whatever the database holds, the dialog leads an
\* unverified password to its verification, unless the account goes first.
Pending(a) == Open(a) /\ HasPassword(a) /\ ~cred[a].verified
RegistrantGetsIn == \A a \in Ids : Pending(a) ~> ~Pending(a)

\* The deletion "removes password credentials, verification/reset tokens, and OAuth
\* identities" (docs/superpowers/specs/2026-08-24-account-profile-privacy-design.md:134).
DeletedKeepsNothing ==
    \A a \in Ids : user[a].state = "deleted" =>
        ~HasPassword(a) /\ google # a /\ \A l \in links : l.user # a
=============================================================================
