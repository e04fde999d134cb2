------------------------------- MODULE RideAudio -------------------------------
(***************************************************************************)
(* The volume of the onboard sound, kept per account: RideAudioPreferences *)
(* in each of the account's open pages, and the row behind                 *)
(* /api/ride-audio.  A save names the revision it was made from; a request *)
(* that timed out may still be carried out by the server later.            *)
(***************************************************************************)
EXTENDS Naturals, FiniteSets

CONSTANTS
    Tabs,       \* pages the account has open
    EDITS,      \* bound: edits each page makes
    LOSSES      \* bound: requests that fail

Before == "before"  \* the writer of what was stored before

ASSUME AudioAssumption == EDITS \in [Tabs -> Nat] /\ LOSSES \in Nat /\ Before \notin Tabs

VARIABLES
    row,        \* the preferences in users: value, writer, revision
    tab,        \* RideAudioPreferences of each page
    call,       \* the request each page waits for, or the answer it got
    stray,      \* PATCH requests given up by their page, not yet at the server
    losses      \* requests that have failed

audioVars == <<row, tab, call, stray, losses>>

-----------------------------------------------------------------------------
\* A value is the number of the edit in its page, 0 what was stored before; a
\* revision counts from 1, and a page that has not loaded yet has none.
Patch(t, v, r) == [tab |-> t, value |-> v, base |-> r]
NoCall == [kind |-> "none"]
Unloaded == 0

Saving(t) == call[t].kind \in {"patch", "saved", "conflict"}
Loading(t) == call[t].kind \in {"get", "got"}

Status(p, s) == IF p.closed THEN p ELSE [p EXCEPT !.status = s]

\* flush, and #save's next turn: what is dirty is sent, unless a save is running.
SendsFrom(t, p, idle) == p.dirty /\ p.revision # Unloaded /\ idle
Flushed(t, p, idle) ==
    /\ tab' = [tab EXCEPT ![t] = IF SendsFrom(t, p, idle) THEN [p EXCEPT !.dirty = FALSE] ELSE p]
    /\ call' = IF SendsFrom(t, p, idle)
               THEN [call EXCEPT ![t] = [kind |-> "patch", req |-> Patch(t, p.value, p.revision)]]
               ELSE IF idle THEN [call EXCEPT ![t] = NoCall] ELSE call

\* update, and the 300 ms timer it starts anew.
Edit(t) ==
    /\ ~tab[t].closed /\ tab[t].value < EDITS[t]
    /\ tab' = [tab EXCEPT ![t].value = @ + 1, ![t].dirty = TRUE,
                          ![t].timer = TRUE, ![t].status = "saving"]
    /\ UNCHANGED <<row, call, stray, losses>>

TimerFires(t) ==
    /\ tab[t].timer
    /\ LET p == [tab[t] EXCEPT !.timer = FALSE]
       IN  IF p.revision # Unloaded THEN Flushed(t, p, ~Saving(t))
           ELSE /\ tab' = [tab EXCEPT ![t] = p]
                /\ call' = IF Loading(t) THEN call ELSE [call EXCEPT ![t] = [kind |-> "get"]]
    /\ UNCHANGED <<row, stray, losses>>

\* pagehide, a hidden page, or close: nothing waits for the timer any more.
Flush(t) ==
    /\ \E closes \in BOOLEAN :
          Flushed(t, [tab[t] EXCEPT !.timer = FALSE, !.closed = @ \/ closes],
                  ~Saving(t) /\ ~Loading(t))
    /\ UNCHANGED <<row, stray, losses>>

\* The server: GET, and PATCH with the revision as its condition.
ReadRow(t) ==
    /\ call[t].kind = "get"
    /\ call' = [call EXCEPT ![t] = [kind |-> "got", row |-> row]]
    /\ UNCHANGED <<row, tab, stray, losses>>

MutantCurrent(p) == TRUE
Current(p) == p.base = row.revision
Stored(p) == IF Current(p) THEN [value |-> p.value, by |-> p.tab, revision |-> row.revision + 1] ELSE row

SaveRow(t) ==
    /\ call[t].kind = "patch"
    /\ LET p == call[t].req
       IN  /\ row' = Stored(p)
           /\ call' = [call EXCEPT ![t] =
                 [kind |-> IF Current(p) THEN "saved" ELSE "conflict", row |-> Stored(p)]]
    /\ UNCHANGED <<tab, stray, losses>>

StrayArrives(p) ==
    /\ p \in stray /\ stray' = stray \ {p}
    /\ row' = Stored(p)
    /\ UNCHANGED <<tab, call, losses>>

MutantAfterLoad(t, p) == tab' = [tab EXCEPT ![t] = p] /\ call' = [call EXCEPT ![t] = NoCall]
AfterLoad(t, p) == Flushed(t, p, TRUE)

\* #load: an edit made meanwhile is kept, and saved.
Loaded(t) ==
    /\ call[t].kind = "got"
    /\ LET p == tab[t]
           q == [p EXCEPT !.revision = call[t].row.revision]
       IN  AfterLoad(t, IF p.dirty THEN q ELSE Status(q, "saved"))
    /\ UNCHANGED <<row, stray, losses>>

\* #save's loop after an answer: a conflict is retried with the value of now, at
\* most twice, and never by a page that has been left.
Settled(p) == IF p.dirty THEN p ELSE Status([p EXCEPT !.conflicts = 0], "saved")
Saved(t) ==
    /\ call[t].kind = "saved"
    /\ Flushed(t, Settled([tab[t] EXCEPT !.revision = call[t].row.revision]), TRUE)
    /\ UNCHANGED <<row, stray, losses>>

Conflict(t) ==
    /\ call[t].kind = "conflict"
    /\ LET p == [tab[t] EXCEPT !.revision = call[t].row.revision, !.dirty = TRUE]
       IN  IF p.closed \/ p.conflicts = 2
           THEN /\ tab' = [tab EXCEPT ![t] = Status([p EXCEPT !.conflicts = 0], "not-saved")]
                /\ call' = [call EXCEPT ![t] = NoCall]
           ELSE Flushed(t, [p EXCEPT !.conflicts = @ + 1], TRUE)
    /\ UNCHANGED <<row, stray, losses>>

\* 4 s without an answer, or an error: what was sent may be carried out later,
\* or has been already.
RequestFails(t) ==
    /\ call[t].kind # "none" /\ losses < LOSSES /\ losses' = losses + 1
    /\ tab' = [tab EXCEPT ![t] = [Status(tab[t], "not-saved") EXCEPT !.dirty = @ \/ Saving(t), !.conflicts = 0]]
    /\ stray' = IF call[t].kind = "patch" THEN stray \cup {call[t].req} ELSE stray
    /\ call' = [call EXCEPT ![t] = NoCall]
    /\ UNCHANGED row

-----------------------------------------------------------------------------
AudioInit ==
    /\ row = [value |-> 0, by |-> Before, revision |-> 1]
    /\ tab = [t \in Tabs |-> [value |-> 0, revision |-> Unloaded, dirty |-> FALSE, timer |-> FALSE,
                              closed |-> FALSE, conflicts |-> 0, status |-> "loading"]]
    /\ call = [t \in Tabs |-> [kind |-> "get"]]
    /\ stray = {} /\ losses = 0

AudioNext ==
    \/ \E t \in Tabs : \/ Edit(t) \/ TimerFires(t) \/ Flush(t) \/ ReadRow(t) \/ SaveRow(t)
                       \/ Loaded(t) \/ Saved(t) \/ Conflict(t) \/ RequestFails(t)
    \/ \E p \in stray : StrayArrives(p)

\* A browser's timers run, and every request is answered or times out.
AudioFairness == \A t \in Tabs :
    /\ WF_audioVars(TimerFires(t))
    /\ WF_audioVars(ReadRow(t) \/ SaveRow(t) \/ RequestFails(t))
    /\ WF_audioVars(Loaded(t) \/ Saved(t) \/ Conflict(t))

AudioSpec == AudioInit /\ [][AudioNext]_audioVars

-----------------------------------------------------------------------------
\* "Saved" is true: an account's row holds what the page that last wrote it
\* shows, whatever earlier request of that page arrives late.
AudioSavedIsStored == \A t \in Tabs :
    tab[t].status = "saved" /\ row.by = t => row.value = tab[t].value

\* Once a page knows a revision, an edit does not stay "saving": it is saved or
\* said not to be.  (Before that it may: a flush drops the timer that would load.)
AudioEditSettles == \A t \in Tabs :
    tab[t].status = "saving" /\ tab[t].revision # Unloaded
        ~> tab[t].status # "saving" \/ tab[t].closed
=============================================================================
