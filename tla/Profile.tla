-------------------------------- MODULE Profile --------------------------------
(***************************************************************************)
(* The profile dialog and the requests it sends: one account, whose row of *)
(* nicknames is loaded, changed, and in the end deleted with the account.  *)
(* A request the dialog no longer listens to (its fetch was aborted, or    *)
(* its connection broke) goes on at the server; so a request of another    *)
(* tab is one that is not heard from the start.                            *)
(* Nickname and avatar go together and are one value; what the dialog says *)
(* of a request is left out.                                               *)
(***************************************************************************)
EXTENDS Naturals, FiniteSets

CONSTANTS
    Names,      \* profiles the driver may choose, of a valid length
    NAME_LIMIT, \* changes allowed in one minute (5)
    ASKS        \* bound: requests under way at once

ASSUME ProfileAssumption == NAME_LIMIT \in Nat \ {0} /\ ASKS \in Nat \ {0}

VARIABLES
    driver,     \* the account: "open" or "deleted"
    nick,       \* its row of nicknames
    attempts,   \* its row of auth_rate_limits for this minute
    asks,       \* requests under way
    form        \* ProfileDialog

profileVars == <<driver, nick, attempts, asks, form>>
tables == <<driver, nick, attempts>>

-----------------------------------------------------------------------------
NoRow == "no row"
Default == "generated"      \* createDefaultNickname
Failed == "failed"

Ask(kind, body) == [kind |-> kind, body |-> body, at |-> "sent", heard |-> TRUE]
Heard(kind) == \E r \in asks : r.kind = kind /\ r.heard
To(r, at) == asks' = (asks \ {r}) \cup {[r EXCEPT !.at = at]}

\* The server's answer takes the place of the request's body.  An answer nobody
\* listens to is gone at once.
Reply(r, answer) ==
    asks' = (asks \ {r}) \cup (IF r.heard THEN {[r EXCEPT !.at = "answered", !.body = answer]} ELSE {})

\* invalidateRequests.
Unheard(rs) == {[r EXCEPT !.heard = FALSE] : r \in {q \in rs : q.at # "answered"}}

-----------------------------------------------------------------------------
(* The dialog.  The form shows while there is a profile, one of an earlier   *)
(* opening too; a button is disabled while its own request is under way.     *)

Send(r) == Cardinality(asks) < ASKS /\ asks' = asks \cup {r}

OpenProfile ==
    /\ form.at = "closed"
    /\ Send(Ask("load", NoRow))
    /\ form' = [form EXCEPT !.at = "open", !.deleteMode = FALSE]
    /\ UNCHANGED tables

\* Not while the account is being deleted.
CloseProfile ==
    /\ form.at = "open" /\ ~Heard("delete")
    /\ asks' = Unheard(asks)
    /\ form' = [form EXCEPT !.at = "closed", !.deleteMode = FALSE]
    /\ UNCHANGED tables

Editing == form.at = "open" /\ ~form.deleteMode /\ form.shown

TypeName(p) == Editing /\ form' = [form EXCEPT !.typed = p] /\ UNCHANGED <<tables, asks>>

SaveProfile ==
    /\ Editing /\ ~Heard("save")
    /\ Send(Ask("save", form.typed))
    /\ UNCHANGED <<tables, form>>

AskDelete ==
    /\ Editing /\ form' = [form EXCEPT !.deleteMode = TRUE]
    /\ UNCHANGED <<tables, asks>>

KeepAccount ==
    /\ form.at = "open" /\ form.deleteMode /\ ~Heard("delete")
    /\ form' = [form EXCEPT !.deleteMode = FALSE]
    /\ UNCHANGED <<tables, asks>>

ConfirmDelete ==
    /\ form.at = "open" /\ form.deleteMode /\ ~Heard("delete")
    /\ Send(Ask("delete", NoRow))
    /\ UNCHANGED <<tables, form>>

\* An answer the dialog listens to.  After a save the session is looked up again;
\* after the deletion the browser leaves for "/".
HearAnswer(r) ==
    /\ r.at = "answered" /\ r.heard
    /\ IF r.body = Failed
       THEN asks' = asks \ {r} /\ UNCHANGED form
       ELSE IF r.kind = "delete"
       THEN form' = [form EXCEPT !.at = "left"] /\ asks' = Unheard(asks \ {r})
       ELSE /\ form' = [form EXCEPT !.shown = TRUE, !.typed = r.body]
            /\ asks' = (asks \ {r}) \cup
                   (IF r.kind = "save" THEN Unheard({Ask("session", NoRow)}) ELSE {})
    /\ UNCHANGED tables

\* The catch clauses: the dialog stops listening, whatever the server does.
Breaks(r) ==
    /\ r.heard
    /\ asks' = (asks \ {r}) \cup Unheard({r})
    /\ UNCHANGED <<tables, form>>

\* A request nobody listens to may never get to the server.
Vanishes(r) ==
    /\ r.at = "sent" /\ ~r.heard /\ asks' = asks \ {r}
    /\ UNCHANGED <<tables, form>>

-----------------------------------------------------------------------------
(* The server.  Each request begins with auth(), whose session callback      *)
(* looks the user up and then its profile, with other steps in between.      *)

FindUser(r) ==
    /\ r.at = "sent"
    /\ IF driver = "open" THEN To(r, "found") ELSE Reply(r, Failed)
    /\ UNCHANGED <<tables, form>>

\* getSessionProfile: a user without a row gets one.
FindProfile(r) ==
    /\ r.at = "found"
    /\ IF r.kind = "session" THEN asks' = asks \ {r} ELSE To(r, "in")
    /\ nick' = IF nick = NoRow THEN Default ELSE nick
    /\ UNCHANGED <<driver, attempts, form>>

GetProfile(r) ==
    /\ r.kind = "load" /\ r.at = "in"
    /\ Reply(r, IF driver = "open" /\ nick # NoRow THEN nick ELSE Failed)
    /\ UNCHANGED <<tables, form>>

\* takeRateLimitAttempt, of one minute.
TakeAttempt(r) ==
    /\ r.kind = "save" /\ r.at = "in"
    /\ IF attempts < NAME_LIMIT THEN attempts' = attempts + 1 /\ To(r, "admitted")
       ELSE UNCHANGED attempts /\ Reply(r, Failed)
    /\ UNCHANGED <<driver, nick, form>>

NextMinute == attempts > 0 /\ attempts' = 0 /\ UNCHANGED <<driver, nick, asks, form>>

\* updateOwnProfile; another account may have the nickname.
MutantUpdatable == nick # NoRow
Updatable == nick # NoRow /\ driver = "open"
UpdateProfile(r) ==
    /\ r.at = "admitted"
    /\ \/ Updatable /\ nick' = r.body /\ Reply(r, r.body)
       \/ UNCHANGED nick /\ Reply(r, Failed)
    /\ UNCHANGED <<driver, attempts, form>>

\* deleteAccount, which has a limit of its own and needs the profile for its mail;
\* deleteOwnAccount.
DeleteOwn(r) ==
    /\ r.kind = "delete" /\ r.at = "in"
    /\ \/ driver = "open" /\ nick # NoRow
          /\ driver' = "deleted" /\ nick' = NoRow /\ Reply(r, "ok")
       \/ UNCHANGED <<driver, nick>> /\ Reply(r, Failed)
    /\ UNCHANGED <<attempts, form>>

-----------------------------------------------------------------------------
ProfileInit ==
    /\ driver = "open" /\ nick = Default /\ attempts = 0 /\ asks = {}
    /\ form = [at |-> "closed", shown |-> FALSE, typed |-> NoRow, deleteMode |-> FALSE]

ProfileNext ==
    \/ OpenProfile \/ CloseProfile \/ SaveProfile \/ AskDelete \/ KeepAccount \/ ConfirmDelete
    \/ \E p \in Names : TypeName(p)
    \/ \E r \in asks :
         \/ HearAnswer(r) \/ Breaks(r) \/ Vanishes(r) \/ FindUser(r) \/ FindProfile(r)
         \/ GetProfile(r) \/ TakeAttempt(r) \/ UpdateProfile(r) \/ DeleteOwn(r)
    \/ NextMinute

ProfileSpec == ProfileInit /\ [][ProfileNext]_profileVars

-----------------------------------------------------------------------------
\* Nothing the driver chose outlives the account.  A session lookup that found the
\* user before the deletion puts a row back, but only the generated one, and no
\* save that was under way can write into it.
ChosenNameGone == driver = "deleted" => nick \in {NoRow, Default}
=============================================================================
