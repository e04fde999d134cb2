------------------------------ MODULE AdaptiveVideo ------------------------------
(***************************************************************************)
(* The camera profile of a drive: AdaptiveVideoPolicy, which asks for a    *)
(* lower or a higher profile once its evidence has lasted, and the         *)
(* "video-quality" channel of the session client, over which the car is    *)
(* asked and answers.  The channel keeps its order; the car takes its time *)
(* and applies one request at a time, the latest pending one for certain.  *)
(***************************************************************************)
EXTENDS Naturals, Sequences

CONSTANTS
    HEIGHTS,    \* the profiles the car offers, best first, by picture height
    ACK_WINDOW, \* samples a request waits for its acknowledgement (5 s)
    WARM_UP,    \* samples without a decision after a gap (3 s)
    COOL_DOWN,  \* and after a change, without bandwidth feedback (8 s)
    GOOD_FOR,   \* healthy samples that ask for more (6 s)
    LOW_FOR,    \* bandwidth reports that ask for less (1 s)
    BAD_FOR,    \* bad samples in a row that ask for less (3)
    UNANSWERED  \* requests in a row that may go unanswered (3)

ASSUME VideoAssumption ==
    /\ HEIGHTS \in Seq(Nat) /\ HEIGHTS # <<>>
    /\ {ACK_WINDOW, WARM_UP, COOL_DOWN, GOOD_FOR, LOW_FOR, BAD_FOR, UNANSWERED} \subseteq Nat

VARIABLES
    policy,     \* AdaptiveVideoPolicy
    requested,  \* #requestedProfile, or 0
    asked,      \* requests on their way to the car
    applied,    \* acknowledgements on their way back
    camera      \* the profile the car's camera runs

videoVars == <<policy, requested, asked, applied, camera>>

-----------------------------------------------------------------------------
Profiles == DOMAIN HEIGHTS
NoProfile == 0

\* The policy's clocks count samples, as the sampler runs once per second.
Fresh0 == [current |-> 1, warm |-> 0, cool |-> COOL_DOWN, wait |-> 0, last |-> NoProfile, unacked |-> 0,
           bad |-> 0, lowFps |-> 0, good |-> 0, low |-> 0, feedback |-> FALSE, budget |-> NoProfile]
Upto(bound, n) == IF n < bound THEN n + 1 ELSE bound
Cleared(p) == [p EXCEPT !.bad = 0, !.lowFps = 0, !.good = 0, !.low = 0]

\* The first lower profile with a smaller picture, or just the next one.
Lower(p) == {i \in Profiles : i > p.current}
First(S) == CHOOSE i \in S : \A j \in S : i <= j
LessPixels(p) ==
    LET smaller == {i \in Lower(p) : HEIGHTS[i] < HEIGHTS[p.current]}
    IN  IF smaller # {} THEN First(smaller) ELSE First(Lower(p))

HasUpgradeBudget(p) == ~p.feedback \/ (p.budget # NoProfile /\ p.budget < p.current)

\* waitingForAck: a window that has passed forgets the evidence, not the request.
Waited(p) == IF p.wait = 1 THEN [Cleared(p) EXCEPT !.wait = 0]
             ELSE IF p.wait > 1 THEN [p EXCEPT !.wait = p.wait - 1] ELSE p

\* request, and #requestProfile: what the policy asks for goes to the car.
Keeps(p) == policy' = p /\ UNCHANGED <<requested, asked>>
Request(p, target) ==
    IF p.unacked >= UNANSWERED THEN Keeps(p)
    ELSE /\ policy' = [Cleared(p) EXCEPT !.wait = ACK_WINDOW, !.last = target, !.unacked = @ + 1]
         /\ requested' = target /\ asked' = Append(asked, target)

\* observe: one sample, a second after the last or after a gap.
Judged(p, kind) ==
    [p EXCEPT !.lowFps = IF kind = "low fps" THEN Upto(BAD_FOR, @) ELSE 0,
              !.bad = IF kind \in {"low fps", "impaired"} THEN Upto(BAD_FOR, @) ELSE 0,
              !.good = IF kind = "healthy" /\ HasUpgradeBudget(p) THEN Upto(GOOD_FOR, @) ELSE 0]

Observe(kind, gap) ==
    LET timed == Waited([policy EXCEPT !.cool = Upto(COOL_DOWN, @),
                                       !.warm = IF gap THEN 0 ELSE Upto(WARM_UP, @)])
        p == IF gap THEN [Cleared(timed) EXCEPT !.low = timed.low] ELSE timed
        q == Judged(p, kind)
    IN  /\ IF p.wait > 0 THEN Keeps(p)
           ELSE IF p.warm < WARM_UP \/ (~p.feedback /\ p.cool < COOL_DOWN)
                THEN Keeps([Cleared(p) EXCEPT !.low = p.low])
           ELSE IF q.lowFps = BAD_FOR /\ Lower(q) # {} THEN Request(q, LessPixels(q))
           ELSE IF q.bad = BAD_FOR /\ Lower(q) # {} THEN Request(q, q.current + 1)
           ELSE IF q.bad < BAD_FOR /\ q.good = GOOD_FOR /\ q.current > 1 THEN Request(q, q.current - 1)
           ELSE Keeps(q)
        /\ UNCHANGED <<applied, camera>>

\* observeBandwidth: the best profile the estimate pays for, or no estimate;
\* margin: whether it pays for a quarter more; collapse: the accelerated path.
Heard(p, late) ==
    IF ~p.feedback THEN [Cleared(p) EXCEPT !.feedback = TRUE]
    ELSE IF late THEN [p EXCEPT !.low = 0, !.good = 0] ELSE p

ObserveBandwidth(best, margin, late, collapse) ==
    LET heard == [Heard(policy, late) EXCEPT !.budget = IF margin THEN best ELSE best + 1]
        q == IF HasUpgradeBudget(heard) THEN heard ELSE [heard EXCEPT !.good = 0]
        short == [q EXCEPT !.low = Upto(LOW_FOR, @)]
    IN  /\ IF q.wait > 0 THEN Keeps(q)
           ELSE IF best <= q.current \/ Lower(q) = {} THEN Keeps([q EXCEPT !.low = 0])
           ELSE IF short.low = LOW_FOR \/ (collapse /\ best > q.current + 1 /\ HEIGHTS[best] < HEIGHTS[q.current])
                THEN Request(short, best)
           ELSE Keeps(short)
        /\ UNCHANGED <<applied, camera>>

NoEstimate ==
    /\ policy' = [Heard(policy, TRUE) EXCEPT !.budget = NoProfile]
    /\ UNCHANGED <<requested, asked, applied, camera>>

\* video.profile.applied: acknowledge, unless a newer request superseded it.
MutantMatches(profile) == profile = requested /\ policy.last = profile /\ policy.wait > 0
Matches(profile) == profile = requested /\ policy.last = profile
Acknowledge ==
    /\ applied # <<>> /\ applied' = Tail(applied)
    /\ LET profile == Head(applied)
       IN  /\ requested' = IF profile = requested THEN NoProfile ELSE requested
           /\ policy' = IF Matches(profile)
                        THEN [Cleared(policy) EXCEPT !.current = profile, !.wait = 0, !.last = NoProfile,
                                                     !.unacked = 0, !.cool = 0]
                        ELSE policy
    /\ UNCHANGED <<asked, camera>>

CameraSwitches ==
    /\ asked # <<>> /\ asked' = Tail(asked)
    /\ camera' = Head(asked) /\ applied' = Append(applied, Head(asked))
    /\ UNCHANGED <<policy, requested>>

\* "Single-flight, with only the latest pending request": a request that a later
\* one has superseded may go unapplied and unanswered.
CarSupersedes ==
    /\ Len(asked) > 1 /\ asked' = Tail(asked)
    /\ UNCHANGED <<policy, requested, applied, camera>>

\* The channel closes with the drive; a new one starts from video.capabilities.
ChannelCloses ==
    /\ policy' = [Fresh0 EXCEPT !.current = camera] /\ requested' = NoProfile
    /\ asked' = <<>> /\ applied' = <<>> /\ UNCHANGED camera

VideoInit ==
    /\ policy = Fresh0 /\ requested = NoProfile
    /\ asked = <<>> /\ applied = <<>> /\ camera = 1

VideoNext ==
    \/ \E kind \in {"low fps", "impaired", "fair", "healthy"}, gap \in BOOLEAN : Observe(kind, gap)
    \/ \E best \in Profiles, margin, late, collapse \in BOOLEAN : ObserveBandwidth(best, margin, late, collapse)
    \/ NoEstimate
    \/ Acknowledge \/ CameraSwitches \/ CarSupersedes \/ ChannelCloses

VideoSpec == VideoInit /\ [][VideoNext]_videoVars

-----------------------------------------------------------------------------
\* Once no request is under way - each was answered, or superseded by one that was -
\* the policy knows the profile the camera
\* runs, and its cap on unanswered requests is lifted: however late the answers
\* came, it can ask again.
PolicyKnowsCamera ==
    asked = <<>> /\ applied = <<>> => policy.current = camera /\ policy.unacked = 0
=============================================================================
