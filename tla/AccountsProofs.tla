---------------------------- MODULE AccountsProofs ----------------------------
(***************************************************************************)
(* The accounts of an address, however many it can have had and however    *)
(* much is under way: the links fit the credential they are for, and a     *)
(* reset leaves no browser signed in with the password it replaced.  And   *)
(* the driver's own name goes with the account, for any names, any limit   *)
(* on changes and any number of requests under way.                        *)
(***************************************************************************)
EXTENDS Accounts, Profile, TLAPS

Kinds == {"verify_email", "reset_password"}
Users == [state: {"none", "open", "deleted"}, verified: BOOLEAN]
Creds == [hash: Hashes \cup {0}, verified: BOOLEAN]
Links == [user: Ids, kind: Kinds, n: 1 .. LINKS, mail: {"due", "sent", "lost"}]

AccountTypes ==
    /\ user \in [Ids -> Users] /\ cred \in [Ids -> Creds]
    /\ links \subseteq Links
    /\ google \in Ids \cup {Nobody} /\ joining \in Ids \cup {Nobody}

\* A credential is one somebody registered, of an account that is or was there.
CredsOfAccounts == \A a \in Ids :
    HasPassword(a) => cred[a].hash \in Hashes /\ user[a].state # "none"

\* The account a registration is about to join stays the one with the Google
\* identity, which spares it from the cleanup, or has been deleted meanwhile.
JoinsAnAccount == joining # Nobody =>
    user[joining].state = "deleted" \/ (Open(joining) /\ google = joining)

\* LinksFitCredential, link by link.
OneLink == \A l, m \in links : l.user = m.user /\ l.kind = m.kind => l = m
Fits(l) == HasPassword(l.user) /\ (cred[l.user].verified <=> l.kind = "reset_password")

LinksInv == AccountTypes /\ CredsOfAccounts /\ JoinsAnAccount /\ OneLink /\ \A l \in links : Fits(l)

\* Google's visitor is somebody who has an account here, or nobody yet.
VisitTypes == visit.user \in Ids \cup {Nobody}

\* What a sign-in has read still opens the account, or it has been overtaken by a
\* reset; the account is not one the cleanup takes.
SignIns == [user: Ids, hash: Hashes, late: BOOLEAN]
SignInRead == signIn # NoSignIn =>
    /\ signIn \in SignIns
    /\ user[signIn.user].state # "none"
    /\ Open(signIn.user) => cred[signIn.user].verified /\ (signIn.late \/ signIn.hash = cred[signIn.user].hash)

SessionsOpened == \A s \in sessions : s.by # ByGoogle =>
    /\ s.user \in Ids /\ user[s.user].state # "none"
    /\ Open(s.user) => s.late \/ s.by = cred[s.user].hash

AccountsInv == LinksInv /\ VisitTypes /\ SignInRead /\ SessionsOpened

-----------------------------------------------------------------------------
LEMMA LinksStart == AccountsInit => LinksInv
BY DEF AccountsInit, LinksInv, AccountTypes, Users, Creds, NoUser, NoCred, Nobody, CredsOfAccounts, HasPassword,
       JoinsAnAccount, OneLink

\* A link for an account whose other link of this kind, if any, goes with it.
LEMMA NewLinkDoes ==
    ASSUME links \subseteq Links, OneLink, NEW a \in Ids, NEW kind \in Kinds, NEW kept \in SUBSET links,
           \A l \in kept : ~(l.user = a /\ l.kind = kind), NewLink(a, kind, kept)
    PROVE  /\ links' \subseteq Links /\ OneLink'
           /\ \A l \in links' : l \in kept \/ (l.user = a /\ l.kind = kind)
<1>1. PICK n \in 1 .. LINKS : links' = kept \cup {[user |-> a, kind |-> kind, n |-> n, mail |-> "due"]}
  BY DEF NewLink
<1>. DEFINE new == [user |-> a, kind |-> kind, n |-> n, mail |-> "due"]
<1>2. new \in Links /\ new.user = a /\ new.kind = kind
  BY DEF Links
<1>. HIDE DEF new
<1>3. links' = kept \cup {new}
  BY <1>1 DEF new
<1>. QED  BY <1>2, <1>3 DEF OneLink

\* The mail of a link may have another fate: it is the same link.
LEMMA MailDoes ==
    ASSUME links \subseteq Links, OneLink, NEW l \in links, NEW mail \in {"sent", "lost"},
           links' = (links \ {l}) \cup {[l EXCEPT !.mail = mail]}
    PROVE  /\ links' \subseteq Links /\ OneLink'
           /\ \A k \in links' : \E m \in links : m.user = k.user /\ m.kind = k.kind
<1>1. PICK new \in Links : new = [l EXCEPT !.mail = mail]
  BY DEF Links
<1>2. new.user = l.user /\ new.kind = l.kind
  BY <1>1 DEF Links
<1>3. links' = (links \ {l}) \cup {new}
  BY <1>1
<1>. QED  BY <1>2, <1>3 DEF OneLink

LEMMA VisitSteps ==
    ASSUME AccountTypes, VisitTypes, [AccountsNext]_accountVars
    PROVE  VisitTypes'
<1>1. CASE UNCHANGED visit
  BY <1>1 DEF VisitTypes
<1>2. CASE Restart \/ GoogleLooksUp \/ GoogleCreates \/ GoogleLinks \/ GoogleSession
  <2>1. visit' = NoVisit \/ \E step, a : a \in Ids \cup {Nobody} /\ At(step, a)
    <3>1. Holders \subseteq Ids
      BY DEF Holders
    <3>. QED  BY <1>2, <3>1 DEF Restart, GoogleLooksUp, GoogleCreates, GoogleLinks, GoogleSession, VisitTypes
  <2>. QED  BY <2>1 DEF At, NoVisit, VisitTypes
<1>. QED
  BY <1>1, <1>2
  DEF AccountsNext, accountVars, serverVars, PageOnly, OpenDialog, CloseDialog, Answer, ChangeView, Accepts,
      Register, ResendVerification, RequestPasswordReset, SubmitRegister, SubmitResend, SubmitForgot,
      RegisterNew, RegisterFindsUser, RegisterJoins, Rotate, MailLeaves, MailFails, VerifyEmail, ResetPassword,
      Expires, SubmitSignIn, CreateSession, SessionEnds, Cleanup, DeleteAccount

LEMMA LinksSteps ==
    ASSUME LinksInv, VisitTypes, [AccountsNext]_accountVars
    PROVE  LinksInv'
<1>. USE DEF LinksInv, Nobody
<1>1. ASSUME UNCHANGED <<user, cred, google, links, joining>>
      PROVE  LinksInv'
  BY <1>1 DEF AccountTypes, CredsOfAccounts, HasPassword, JoinsAnAccount, Open, OneLink, Fits
<1>2. CASE RegisterNew
  <2>1. PICK a \in Ids : /\ Fresh(a) /\ NewLink(a, "verify_email", links)
                         /\ user' = [user EXCEPT ![a] = [state |-> "open", verified |-> FALSE]]
                         /\ cred' = [cred EXCEPT ![a] = [hash |-> 1, verified |-> FALSE]]
    BY <1>2 DEF RegisterNew
  <2>2. UNCHANGED <<google, joining>> /\ joining = Nobody
    BY <1>2 DEF RegisterNew
  <2>3. user[a].state = "none" /\ ~HasPassword(a) /\ \A l \in links : l.user # a
    BY <2>1 DEF Fresh, Unused, CredsOfAccounts, Fits
  <2>4. links' \subseteq Links /\ OneLink' /\ \A l \in links' : l \in links \/ (l.user = a /\ l.kind = "verify_email")
    BY <2>1, <2>3, NewLinkDoes DEF AccountTypes, Kinds
  <2>5. /\ user' \in [Ids -> Users] /\ user'[a].state = "open"
        /\ cred' \in [Ids -> Creds] /\ cred'[a].hash = 1 /\ ~cred'[a].verified
        /\ \A b \in Ids \ {a} : user'[b] = user[b] /\ cred'[b] = cred[b]
    BY <2>1 DEF AccountTypes, Users, Creds, Hashes
  <2>6. cred'[a] # NoCred
    BY <2>5 DEF NoCred
  <2>7. AccountTypes' /\ CredsOfAccounts' /\ JoinsAnAccount'
    BY <2>2, <2>4, <2>5 DEF AccountTypes, CredsOfAccounts, HasPassword, Hashes, JoinsAnAccount, Users
  <2>8. \A l \in links' : Fits(l)'
    BY <2>3, <2>4, <2>5, <2>6 DEF AccountTypes, Links, Fits, HasPassword
  <2>. QED  BY <2>4, <2>7, <2>8
<1>3. CASE RegisterFindsUser
  <2>1. UNCHANGED <<user, cred, google, links>>
    BY <1>3 DEF RegisterFindsUser, storeVars
  <2>2. joining' = joining \/ joining' \in {a \in Ids : Open(a) /\ google = a}
    BY <1>3 DEF RegisterFindsUser, Holders, MayJoin
  <2>. QED  BY <2>1, <2>2 DEF AccountTypes, CredsOfAccounts, HasPassword, JoinsAnAccount, Open, OneLink, Fits
<1>4. CASE RegisterJoins
  <2>1. joining' = Nobody /\ UNCHANGED <<user, google>> /\ joining \in Ids /\ user[joining].state # "none"
    BY <1>4 DEF RegisterJoins, AccountTypes, JoinsAnAccount, Open
  <2>2. CASE HasPassword(joining)
    BY <1>4, <2>1, <2>2 DEF RegisterJoins, AccountTypes, CredsOfAccounts, HasPassword, JoinsAnAccount, OneLink, Fits
  <2>3. CASE ~HasPassword(joining)
    <3>1. PICK a \in Ids : a = joining
      BY <2>1
    <3>2. cred' = [cred EXCEPT ![a] = [hash |-> 1, verified |-> FALSE]] /\ NewLink(a, "verify_email", links)
      BY <1>4, <2>3, <3>1 DEF RegisterJoins
    <3>3. \A l \in links : l.user # a
      BY <2>3, <3>1 DEF Fits
    <3>4. links' \subseteq Links /\ OneLink' /\ \A l \in links' : l \in links \/ (l.user = a /\ l.kind = "verify_email")
      BY <3>2, <3>3, NewLinkDoes DEF AccountTypes, Kinds
    <3>5. /\ cred' \in [Ids -> Creds] /\ cred'[a].hash = 1 /\ ~cred'[a].verified
          /\ \A b \in Ids \ {a} : cred'[b] = cred[b]
      BY <3>2 DEF AccountTypes, Creds, Hashes
    <3>6. cred'[a] # NoCred
      BY <3>5 DEF NoCred
    <3>7. AccountTypes' /\ CredsOfAccounts' /\ JoinsAnAccount'
      BY <2>1, <3>1, <3>4, <3>5 DEF AccountTypes, CredsOfAccounts, HasPassword, Hashes, JoinsAnAccount
    <3>8. \A l \in links' : Fits(l)'
      BY <3>3, <3>4, <3>5, <3>6 DEF AccountTypes, Links, Fits, HasPassword
    <3>. QED  BY <3>4, <3>7, <3>8
  <2>. QED  BY <2>2, <2>3
<1>5. ASSUME NEW kind \in Kinds, Rotate(kind)
      PROVE  LinksInv'
  <2>1. UNCHANGED <<user, cred, google, joining>>
    BY <1>5 DEF Rotate
  <2>2. CASE UNCHANGED links
    BY <1>1, <2>1, <2>2
  <2>3. CASE \E a \in Ids : Eligible(a, kind) /\ NewLink(a, kind, links \ LinksOf(a, kind))
    <3>1. PICK a \in Ids : Eligible(a, kind) /\ NewLink(a, kind, links \ LinksOf(a, kind))
      BY <2>3
    <3>2. /\ links' \subseteq Links /\ OneLink'
          /\ \A l \in links' : l \in links \ LinksOf(a, kind) \/ (l.user = a /\ l.kind = kind)
      <4>1. \A l \in links \ LinksOf(a, kind) : ~(l.user = a /\ l.kind = kind)
        BY DEF LinksOf
      <4>2. PICK kept \in SUBSET links : kept = links \ LinksOf(a, kind)
        OBVIOUS
      <4>. QED  BY <3>1, <4>1, <4>2, NewLinkDoes DEF AccountTypes
    <3>3. \A l \in links' : Fits(l)
      BY <3>1, <3>2 DEF Eligible, Fits, Kinds
    <3>. QED  BY <2>1, <3>2, <3>3 DEF AccountTypes, CredsOfAccounts, HasPassword, JoinsAnAccount, Open, Fits
  <2>. QED  BY <1>5, <2>2, <2>3 DEF Rotate
<1>6. ASSUME NEW l \in links, MailLeaves(l) \/ MailFails(l)
      PROVE  LinksInv'
  <2>1. UNCHANGED <<user, cred, google, joining>>
    BY <1>6 DEF MailLeaves, MailFails, serverVars
  <2>2. PICK mail \in {"sent", "lost"} : links' = (links \ {l}) \cup {[l EXCEPT !.mail = mail]}
    BY <1>6 DEF MailLeaves, MailFails
  <2>3. /\ links' \subseteq Links /\ OneLink'
        /\ \A k \in links' : \E m \in links : m.user = k.user /\ m.kind = k.kind
    BY <2>2, MailDoes DEF AccountTypes
  <2>. QED  BY <2>1, <2>3 DEF AccountTypes, CredsOfAccounts, HasPassword, JoinsAnAccount, Open, Fits
<1>7. CASE Restart
  <2>1. UNCHANGED <<user, cred, google>> /\ joining' = Nobody
    BY <1>7 DEF Restart
  <2>. DEFINE Fated(l) == IF l.mail = "due" THEN [l EXCEPT !.mail = "lost"] ELSE l
  <2>2. links' = {Fated(l) : l \in links}
    BY <1>7 DEF Restart
  <2>3. \A l \in links : Fated(l) \in Links /\ Fated(l).user = l.user /\ Fated(l).kind = l.kind
    BY DEF AccountTypes, Links
  <2>. HIDE DEF Fated
  <2>4. links' \subseteq Links /\ \A k \in links' : \E m \in links : m.user = k.user /\ m.kind = k.kind
    BY <2>2, <2>3
  <2>5. OneLink'
    BY <2>2, <2>3 DEF OneLink
  <2>. QED  BY <2>1, <2>4, <2>5 DEF AccountTypes, CredsOfAccounts, HasPassword, JoinsAnAccount, Open, Fits
<1>8. ASSUME NEW l \in links, VerifyEmail(l)
      PROVE  LinksInv'
  <2>1. PICK a \in Ids : a = l.user
    BY DEF AccountTypes, Links
  <2>2. /\ Open(a) /\ HasPassword(a) /\ ~cred[a].verified /\ l.kind = "verify_email"
        /\ links' = links \ {l} /\ UNCHANGED <<google, joining>>
        /\ user' = [user EXCEPT ![a].verified = TRUE] /\ cred' = [cred EXCEPT ![a].verified = TRUE]
    BY <1>8, <2>1 DEF VerifyEmail, OpensVerifyLink, serverVars
  <2>3. \A k \in links' : k \in links /\ k.user # a
    BY <2>1, <2>2 DEF AccountTypes, Links, Kinds, OneLink, Fits
  <2>4. /\ user' \in [Ids -> Users] /\ user'[a].state = "open"
        /\ cred' \in [Ids -> Creds] /\ cred'[a].hash = cred[a].hash
        /\ \A b \in Ids \ {a} : user'[b] = user[b] /\ cred'[b] = cred[b]
    BY <2>2 DEF AccountTypes, Users, Creds, Open
  <2>5. AccountTypes'
    BY <2>2, <2>3, <2>4 DEF AccountTypes
  <2>6. CredsOfAccounts'
    BY <2>2, <2>4 DEF CredsOfAccounts, HasPassword
  <2>7. JoinsAnAccount' /\ OneLink'
    BY <2>2, <2>4 DEF JoinsAnAccount, Open, OneLink, AccountTypes
  <2>8. \A k \in links' : Fits(k)'
    BY <2>3, <2>4 DEF AccountTypes, Links, Fits, HasPassword
  <2>. QED  BY <2>5, <2>6, <2>7, <2>8
<1>9. ASSUME NEW l \in links, ResetPassword(l)
      PROVE  LinksInv'
  <2>1. PICK a \in Ids : a = l.user
    BY DEF AccountTypes, Links
  <2>2. /\ Open(a) /\ HasPassword(a) /\ UNCHANGED <<user, google, joining>>
        /\ links' = links \ LinksOf(a, "reset_password") /\ cred' = [cred EXCEPT ![a].hash = 3 - @]
    BY <1>9, <2>1 DEF ResetPassword, Fits
  <2>3. cred[a].hash \in Hashes /\ 3 - cred[a].hash \in Hashes
    BY <2>2 DEF CredsOfAccounts, Hashes
  <2>4. /\ cred' \in [Ids -> Creds] /\ cred'[a].hash \in Hashes /\ cred'[a].verified = cred[a].verified
        /\ \A b \in Ids \ {a} : cred'[b] = cred[b]
    BY <2>2, <2>3 DEF AccountTypes, Creds
  <2>5. cred'[a] # NoCred
    BY <2>4 DEF NoCred, Hashes
  <2>6. AccountTypes' /\ JoinsAnAccount' /\ OneLink'
    BY <2>2, <2>4 DEF AccountTypes, JoinsAnAccount, Open, OneLink
  <2>7. CredsOfAccounts'
    BY <2>2, <2>4 DEF CredsOfAccounts, HasPassword
  <2>8. \A k \in links' : Fits(k)'
    BY <2>2, <2>4, <2>5 DEF AccountTypes, Links, Fits, HasPassword
  <2>. QED  BY <2>6, <2>7, <2>8
<1>10. ASSUME NEW l \in links, Expires(l)
       PROVE  LinksInv'
  BY <1>10 DEF Expires, serverVars, AccountTypes, CredsOfAccounts, HasPassword, JoinsAnAccount, Open, OneLink, Fits
<1>11. ASSUME NEW a \in Ids, Cleanup(a) \/ DeleteAccount(a)
       PROVE  LinksInv'
  <2>1. /\ links' = {l \in links : l.user # a} /\ cred' = [cred EXCEPT ![a] = NoCred]
        /\ UNCHANGED joining
    BY <1>11 DEF Cleanup, DeleteAccount, serverVars
  <2>2. \/ user' = [user EXCEPT ![a] = NoUser] /\ google' = google /\ google # a /\ Open(a)
        \/ /\ user' = [user EXCEPT ![a] = [state |-> "deleted", verified |-> FALSE]]
           /\ google' = IF google = a THEN Nobody ELSE google
    BY <1>11 DEF Cleanup, Stale, DeleteAccount
  <2>3. /\ cred' \in [Ids -> Creds] /\ cred'[a] = NoCred
        /\ \A b \in Ids \ {a} : cred'[b] = cred[b]
    BY <2>1 DEF AccountTypes, Creds, NoCred
  <2>4. google' \in Ids \cup {Nobody} /\ user' \in [Ids -> Users] /\ \A b \in Ids \ {a} : user'[b] = user[b]
    <3>1. PICK u \in Users : user' = [user EXCEPT ![a] = u]
      BY <2>2 DEF Users, NoUser
    <3>. QED  BY <2>2, <3>1 DEF AccountTypes
  <2>5. AccountTypes' /\ OneLink'
    BY <2>1, <2>3, <2>4 DEF AccountTypes, OneLink
  <2>6. CredsOfAccounts'
    BY <2>3, <2>4 DEF CredsOfAccounts, HasPassword
  <2>7. JoinsAnAccount'
    BY <2>1, <2>2 DEF AccountTypes, JoinsAnAccount, Open, Users
  <2>8. \A l \in links' : Fits(l)'
    BY <2>1, <2>3 DEF AccountTypes, Links, Fits, HasPassword
  <2>. QED  BY <2>5, <2>6, <2>7, <2>8
<1>12. CASE GoogleCreates
  <2>1. UNCHANGED <<cred, links, google, joining>>
    BY <1>12 DEF GoogleCreates, VisitOnly
  <2>2. CASE UNCHANGED user
    BY <1>1, <2>1, <2>2
  <2>3. CASE \E a \in Ids : Fresh(a) /\ user' = [user EXCEPT ![a] = [state |-> "open", verified |-> TRUE]]
    <3>1. PICK a \in Ids : Fresh(a) /\ user' = [user EXCEPT ![a] = [state |-> "open", verified |-> TRUE]]
      BY <2>3
    <3>2. user[a].state = "none"
      BY <3>1 DEF Fresh, Unused
    <3>3. /\ user' \in [Ids -> Users] /\ user'[a].state = "open"
          /\ \A b \in Ids \ {a} : user'[b] = user[b]
      BY <3>1 DEF AccountTypes, Users
    <3>4. AccountTypes' /\ CredsOfAccounts'
      BY <2>1, <3>3 DEF AccountTypes, CredsOfAccounts, HasPassword
    <3>5. JoinsAnAccount'
      BY <2>1, <3>2, <3>3 DEF AccountTypes, JoinsAnAccount, Open
    <3>. QED  BY <2>1, <3>4, <3>5 DEF OneLink, Fits, HasPassword
  <2>. QED  BY <1>12, <2>2, <2>3 DEF GoogleCreates
<1>13. CASE GoogleLinks
  <2>1. UNCHANGED <<user, cred, links, joining>>
    BY <1>13 DEF GoogleLinks, VisitOnly
  <2>2. google' = google \/ (google = Nobody /\ google' = visit.user /\ user[visit.user] # NoUser)
    BY <1>13 DEF GoogleLinks
  <2>. QED
    BY <2>1, <2>2 DEF AccountTypes, VisitTypes, CredsOfAccounts, HasPassword, JoinsAnAccount, Open, OneLink, Fits
<1>14. CASE \/ OpenDialog \/ CloseDialog \/ Answer \/ (\E v \in Views : ChangeView(v))
            \/ SubmitRegister \/ SubmitResend \/ SubmitForgot
  BY <1>1, <1>14
  DEF OpenDialog, CloseDialog, Answer, ChangeView, PageOnly, SubmitRegister, SubmitResend, SubmitForgot, Idle,
      Accepts, Register, ResendVerification, RequestPasswordReset, storeVars, serverVars
<1>15. CASE \/ (\E h \in Hashes : SubmitSignIn(h)) \/ CreateSession \/ (\E s \in sessions : SessionEnds(s))
            \/ GoogleLooksUp \/ GoogleSession
  BY <1>1, <1>15
  DEF SubmitSignIn, Idle, CreateSession, SessionEnds, GoogleLooksUp, GoogleSession, VisitOnly, storeVars, serverVars
<1>16. CASE UNCHANGED accountVars
  BY <1>1, <1>16 DEF accountVars, storeVars, serverVars
<1>. QED
  BY <1>2, <1>3, <1>4, <1>5, <1>6, <1>7, <1>8, <1>9, <1>10, <1>11, <1>12, <1>13, <1>14, <1>15, <1>16
  DEF AccountsNext, Kinds

\* What a step has to spare, for who is signed in and who is about to be.
Spares(b) ==
    /\ user[b].state # "none" => user'[b].state # "none" /\ (user'[b].state = "open" => user[b].state = "open")
    /\ cred[b].hash # 0 => cred'[b].hash = cred[b].hash /\ (cred[b].verified => cred'[b].verified)

LEMMA SparingSteps ==
    ASSUME LinksInv, [AccountsNext]_accountVars, UNCHANGED <<signIn, sessions>>
    PROVE  (\A b \in Ids : Spares(b)) \/ (\E a \in Ids : Cleanup(a) \/ DeleteAccount(a))
                                      \/ (\E l \in links : ResetPassword(l))
<1>. USE DEF LinksInv
<1>1. ASSUME UNCHANGED <<user, cred>>
      PROVE  \A b \in Ids : Spares(b)
  BY <1>1 DEF Spares
<1>2. CASE RegisterNew
  <2>1. PICK a \in Ids : /\ user[a].state = "none"
                         /\ user' = [user EXCEPT ![a] = [state |-> "open", verified |-> FALSE]]
                         /\ cred' = [cred EXCEPT ![a] = [hash |-> 1, verified |-> FALSE]]
    BY <1>2 DEF RegisterNew, Fresh, Unused
  <2>2. cred[a].hash = 0
    BY <2>1 DEF CredsOfAccounts, HasPassword, NoCred
  <2>. QED  BY <2>1, <2>2 DEF AccountTypes, Spares
<1>3. CASE RegisterJoins
  <2>1. UNCHANGED user /\ joining \in Ids
    BY <1>3 DEF RegisterJoins, AccountTypes, Nobody
  <2>2. UNCHANGED cred \/ (cred[joining].hash = 0 /\ cred' = [cred EXCEPT ![joining] = [hash |-> 1, verified |-> FALSE]])
    BY <1>3 DEF RegisterJoins, HasPassword, NoCred
  <2>. QED  BY <2>1, <2>2 DEF AccountTypes, Spares
<1>4. ASSUME NEW l \in links, VerifyEmail(l)
      PROVE  \A b \in Ids : Spares(b)
  <2>1. PICK a \in Ids : a = l.user
    BY DEF AccountTypes, Links
  <2>2. /\ user[a].state = "open"
        /\ user' = [user EXCEPT ![a].verified = TRUE] /\ cred' = [cred EXCEPT ![a].verified = TRUE]
    BY <1>4, <2>1 DEF VerifyEmail, Open
  <2>3. user'[a].state = user[a].state /\ cred'[a].hash = cred[a].hash /\ cred'[a].verified
    BY <2>2 DEF AccountTypes, Users, Creds
  <2>. QED  BY <2>2, <2>3 DEF AccountTypes, Spares
<1>5. CASE GoogleCreates
  <2>1. UNCHANGED cred
    BY <1>5 DEF GoogleCreates, VisitOnly
  <2>2. UNCHANGED user \/ \E a \in Ids : /\ user[a].state = "none"
                                         /\ user' = [user EXCEPT ![a] = [state |-> "open", verified |-> TRUE]]
    BY <1>5 DEF GoogleCreates, Fresh, Unused
  <2>. QED  BY <2>1, <2>2 DEF AccountTypes, Spares
<1>. QED
  BY <1>1, <1>2, <1>3, <1>4, <1>5
  DEF AccountsNext, accountVars, storeVars, PageOnly, OpenDialog, CloseDialog, Answer, ChangeView, SubmitRegister,
      SubmitResend, SubmitForgot, Idle, RegisterFindsUser, Rotate, MailLeaves, MailFails, Expires, Restart,
      SubmitSignIn, CreateSession, SessionEnds, GoogleLooksUp, GoogleLinks, GoogleSession, VisitOnly

LEMMA SessionsSteps ==
    ASSUME AccountsInv, [AccountsNext]_accountVars
    PROVE  (SignInRead /\ SessionsOpened)'
<1>. USE DEF AccountsInv, LinksInv, ByGoogle
<1>1. CASE UNCHANGED <<signIn, sessions>> /\ \A b \in Ids : Spares(b)
  <2>1. \A b \in Ids : cred[b].verified => cred[b].hash # 0
    BY DEF CredsOfAccounts, HasPassword, NoCred, Hashes
  <2>2. SignInRead'
    BY <1>1, <2>1 DEF SignInRead, SignIns, Spares, Open
  <2>3. SessionsOpened'
    BY <1>1 DEF SessionsOpened, Spares, Open
  <2>. QED  BY <2>2, <2>3
<1>2. ASSUME NEW l \in links, ResetPassword(l)
      PROVE  (SignInRead /\ SessionsOpened)'
  <2>1. PICK a \in Ids : a = l.user
    BY DEF AccountTypes, Links
  <2>2. /\ UNCHANGED user /\ cred' = [cred EXCEPT ![a].hash = 3 - @] /\ sessions' = {s \in sessions : s.user # a}
        /\ signIn' = IF signIn.user = a THEN [signIn EXCEPT !.late = TRUE] ELSE signIn
    BY <1>2, <2>1 DEF ResetPassword, Revoked
  <2>3. cred'[a].verified = cred[a].verified /\ \A b \in Ids \ {a} : cred'[b] = cred[b]
    BY <2>2 DEF AccountTypes, Creds
  <2>4. SessionsOpened'
    BY <2>2, <2>3 DEF SessionsOpened, Open
  <2>5. CASE signIn.user = a
    <3>1. signIn # NoSignIn
      BY <2>5 DEF NoSignIn, Nobody, Ids
    <3>2. signIn' \in SignIns /\ signIn'.late /\ signIn'.user = a
      BY <2>2, <2>5, <3>1 DEF SignInRead, SignIns
    <3>3. user'[a].state = user[a].state
      BY <2>2
    <3>. QED  BY <2>3, <2>4, <2>5, <3>1, <3>2, <3>3 DEF SignInRead, Open
  <2>6. CASE signIn.user # a
    <3>1. UNCHANGED <<user, signIn>>
      BY <2>2, <2>6
    <3>. QED  BY <2>3, <2>4, <2>6, <3>1 DEF SignInRead, SignIns, Open
  <2>. QED  BY <2>5, <2>6
<1>3. ASSUME NEW a \in Ids, Cleanup(a) \/ DeleteAccount(a)
      PROVE  (SignInRead /\ SessionsOpened)'
  <2>1. UNCHANGED signIn /\ sessions' = {s \in sessions : s.user # a}
    BY <1>3 DEF Cleanup, DeleteAccount, Revoked, serverVars
  <2>2. \A b \in Ids \ {a} : user'[b] = user[b] /\ cred'[b] = cred[b]
    BY <1>3 DEF Cleanup, DeleteAccount, AccountTypes
  <2>3. SessionsOpened'
    BY <2>1, <2>2 DEF SessionsOpened, Open
  <2>4. \/ Open(a) /\ ~cred[a].verified
        \/ user'[a].state = "deleted"
    BY <1>3 DEF Cleanup, Stale, DeleteAccount, AccountTypes
  <2>5. SignInRead'
    BY <2>1, <2>2, <2>4 DEF SignInRead, SignIns, Open
  <2>. QED  BY <2>3, <2>5
<1>4. CASE Restart
  BY <1>4 DEF Restart, SignInRead, SessionsOpened, Open
<1>5. ASSUME NEW h \in Hashes, SubmitSignIn(h)
      PROVE  (SignInRead /\ SessionsOpened)'
  <2>1. PICK a \in Ids : MaySignIn(a, h) /\ signIn' = [user |-> a, hash |-> h, late |-> FALSE]
    BY <1>5 DEF SubmitSignIn
  <2>2. UNCHANGED storeVars
    BY <1>5 DEF SubmitSignIn, Idle
  <2>. QED  BY <2>1, <2>2 DEF MaySignIn, SignInRead, SignIns, SessionsOpened, Open, storeVars
<1>6. CASE CreateSession
  <2>1. /\ signIn # NoSignIn /\ signIn' = NoSignIn /\ UNCHANGED <<user, cred>>
        /\ sessions' = sessions \cup {[user |-> signIn.user, by |-> signIn.hash, late |-> signIn.late]}
    BY <1>6 DEF CreateSession, Begin
  <2>. QED  BY <2>1 DEF SignInRead, SignIns, SessionsOpened, Open
<1>7. CASE GoogleSession
  <2>1. UNCHANGED <<user, cred, signIn>> /\ sessions' = sessions \cup {[user |-> visit.user, by |-> 0, late |-> FALSE]}
    BY <1>7 DEF GoogleSession, Begin, VisitOnly
  <2>. QED  BY <2>1 DEF SignInRead, SignIns, SessionsOpened, Open
<1>8. ASSUME NEW s \in sessions, SessionEnds(s)
      PROVE  (SignInRead /\ SessionsOpened)'
  BY <1>8 DEF SessionEnds, serverVars, SignInRead, SessionsOpened, Open
<1>. QED
  <2>1. \/ UNCHANGED <<signIn, sessions>> \/ Restart \/ (\E h \in Hashes : SubmitSignIn(h)) \/ CreateSession
        \/ GoogleSession \/ (\E s \in sessions : SessionEnds(s)) \/ (\E l \in links : ResetPassword(l))
        \/ \E a \in Ids : Cleanup(a) \/ DeleteAccount(a)
    BY DEF AccountsNext, accountVars, storeVars, serverVars, PageOnly, OpenDialog, CloseDialog, Answer, ChangeView,
           Accepts, Register, ResendVerification, RequestPasswordReset, SubmitRegister, SubmitResend, SubmitForgot,
           Idle, RegisterNew, RegisterFindsUser, RegisterJoins, Rotate, MailLeaves, MailFails, VerifyEmail, Expires,
           GoogleLooksUp, GoogleCreates, GoogleLinks, VisitOnly
  <2>. QED  BY <2>1, SparingSteps, <1>1, <1>2, <1>3, <1>4, <1>5, <1>6, <1>7, <1>8

\* Whatever the person, the mail and the server do, and in whatever order the work
\* after the responses gets done.
LEMMA AccountsAlways == AccountsSpec => []AccountsInv
<1>1. AccountsInit => AccountsInv
  BY LinksStart
  DEF AccountsInit, AccountsInv, VisitTypes, NoVisit, SignInRead, SessionsOpened
<1>2. AccountsInv /\ [AccountsNext]_accountVars => AccountsInv'
  BY LinksSteps, VisitSteps, SessionsSteps DEF AccountsInv, LinksInv
<1>. QED  BY <1>1, <1>2, PTL DEF AccountsSpec

\* Of the unused links of an account and kind there is one, and it fits the
\* credential: createOrRotateActionToken and consumeActionToken lock the account's
\* rows, and the registration that joins a Google account, which locks nothing until
\* its insert, can still count on the account's row being there.
THEOREM LinksFitCredentialHolds == AccountsSpec => []LinksFitCredential
<1>1. AccountsInv => LinksFitCredential
  BY DEF AccountsInv, LinksInv, OneLink, Fits, LinksFitCredential, LinksOf
<1>. QED  BY <1>1, AccountsAlways, PTL

\* After replacePasswordAndRevokeSessions no browser is signed in by the password it
\* replaced, but for a sign-in that had read the credential before and opens its
\* session after; neither a registration nor the cleanup brings such a session back.
THEOREM ResetSignsOutHolds == AccountsSpec => []ResetSignsOut
<1>1. AccountsInv => ResetSignsOut
  BY DEF AccountsInv, SessionsOpened, ResetSignsOut
<1>. QED  BY <1>1, AccountsAlways, PTL

-----------------------------------------------------------------------------
(* The profile of an account.                                              *)

\* Inductive as it stands: an account is not opened again, only updateOwnProfile
\* writes a chosen name, and it looks at the account in the same statement.
LEMMA ChosenNameGoneStep ==
    ASSUME ChosenNameGone, [ProfileNext]_profileVars
    PROVE  ChosenNameGone'
<1> USE DEF ChosenNameGone, tables
<1>1. CASE OpenProfile \/ CloseProfile \/ SaveProfile \/ AskDelete \/ KeepAccount \/ ConfirmDelete
    BY <1>1 DEF OpenProfile, CloseProfile, SaveProfile, AskDelete, KeepAccount, ConfirmDelete
<1>2. CASE \E p \in Names : TypeName(p)
    BY <1>2 DEF TypeName
<1>3. CASE NextMinute
    BY <1>3 DEF NextMinute
<1>4. ASSUME NEW r \in asks, HearAnswer(r) \/ Breaks(r) \/ Vanishes(r) \/ FindUser(r)
                             \/ GetProfile(r) \/ TakeAttempt(r)
      PROVE  ChosenNameGone'
    BY <1>4 DEF HearAnswer, Breaks, Vanishes, FindUser, GetProfile, TakeAttempt
<1>5. ASSUME NEW r \in asks, FindProfile(r)
      PROVE  ChosenNameGone'
    BY <1>5 DEF FindProfile
<1>6. ASSUME NEW r \in asks, UpdateProfile(r)
      PROVE  ChosenNameGone'
    BY <1>6 DEF UpdateProfile, Updatable
<1>7. ASSUME NEW r \in asks, DeleteOwn(r)
      PROVE  ChosenNameGone'
    BY <1>7 DEF DeleteOwn
<1>8. CASE UNCHANGED profileVars
    BY <1>8 DEF profileVars
<1>9. QED
    BY <1>1, <1>2, <1>3, <1>4, <1>5, <1>6, <1>7, <1>8 DEF ProfileNext

\* A deleted account's row of nicknames is none or the generated one, in every
\* behaviour of the dialog, its requests and the session lookups (getSessionProfile,
\* updateOwnProfile, deleteOwnAccount).
THEOREM ChosenNameGoneHolds == ProfileSpec => []ChosenNameGone
<1>1. ProfileInit => ChosenNameGone
    BY DEF ProfileInit, ChosenNameGone
<1>2. QED
    BY <1>1, ChosenNameGoneStep, PTL DEF ProfileSpec
=============================================================================
