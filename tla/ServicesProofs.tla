---------------------------- MODULE ServicesProofs ----------------------------
(***************************************************************************)
(* What holds beside the drive, for any number of rides, payments, jobs,   *)
(* profiles and restarts: a simulated ride is charged as it ends, an       *)
(* accepted payment is credited once, no lot and no ride is overcharged,   *)
(* an operator stop holds, the verdict on an update stands, and the        *)
(* camera's profile is known again once every request was answered.  Each  *)
(* is a component with an invariant of its own.                            *)
(***************************************************************************)
EXTENDS AdaptiveVideo, RideService, Payments, Ledger, Edge, DeviceUpdates,
        SequenceTheorems, WellFoundedInduction, TLAPS

\* A nonempty set of naturals has a smallest member.
LEMMA SmallestIsThere ==
    ASSUME NEW S \in SUBSET Nat, S # {}
    PROVE  \E m \in S : \A n \in S : m <= n
<1>1. PICK m \in S : \A n \in S : ~(<<n, m>> \in OpToRel(<, Nat))
  BY NatLessThanWellFounded, WFMin, Zenon
<1>2. ASSUME NEW n \in S
      PROVE  m <= n
  <2>1. ~(n < m)
    BY <1>1, Zenon DEF OpToRel
  <2>. QED  BY <2>1
<1>. QED  BY <1>2

-----------------------------------------------------------------------------
(* The camera's profile.                                                   *)

Policies == [current: Profiles, warm: Nat, cool: Nat, wait: Nat, last: Profiles \cup {NoProfile},
             unacked: Nat, bad: Nat, lowFps: Nat, good: Nat, low: Nat, feedback: BOOLEAN, budget: Nat]

VideoTypes ==
    /\ policy \in Policies /\ requested \in Profiles \cup {NoProfile}
    /\ asked \in Seq(Profiles) /\ applied \in Seq(Profiles) /\ camera \in Profiles

\* The profile the camera runs once the car has done what it was asked.
Latest == IF asked = <<>> THEN camera ELSE asked[Len(asked)]

\* The channel keeps its order: the last answer tells what the camera runs, and
\* the request that is open is the last one made, still on one of the two ways.
VideoInv ==
    /\ VideoTypes
    /\ applied # <<>> => camera = applied[Len(applied)]
    /\ policy.last = requested
    /\ requested # NoProfile => Latest = requested /\ (asked # <<>> \/ applied # <<>>)
    /\ requested = NoProfile => Latest = policy.current /\ policy.unacked = 0

LEMMA VideoStarts == VideoInit => VideoInv
<1>1. 1 \in Profiles
  BY VideoAssumption DEF Profiles
<1>2. Fresh0 \in Policies
  BY <1>1, VideoAssumption DEF Fresh0, Policies, NoProfile
<1>. QED  BY <1>1, <1>2 DEF VideoInit, VideoInv, VideoTypes, Latest, Fresh0

\* A policy that has looked at a sample or an estimate: only evidence and clocks moved.
Looked(p) == p \in Policies /\ p.current = policy.current /\ p.last = policy.last /\ p.unacked = policy.unacked

LEMMA ClocksOnly ==
    ASSUME NEW p, Looked(p), NEW a \in Nat, NEW b \in Nat, NEW c \in Nat, NEW d \in Nat, NEW f \in BOOLEAN
    PROVE  /\ Looked(Cleared(p))
           /\ Looked([p EXCEPT !.wait = a]) /\ Looked([p EXCEPT !.low = a]) /\ Looked([p EXCEPT !.good = a])
           /\ Looked([p EXCEPT !.budget = a]) /\ Looked([p EXCEPT !.feedback = f])
           /\ Looked([p EXCEPT !.cool = a, !.warm = b]) /\ Looked([p EXCEPT !.low = a, !.good = b])
           /\ Looked([p EXCEPT !.lowFps = a, !.bad = b, !.good = c])
BY DEF Looked, Policies, Cleared

LEMMA EvidenceCounts ==
    ASSUME NEW p, Looked(p)
    PROVE  /\ p.wait \in Nat /\ p.low \in Nat /\ p.lowFps \in Nat /\ p.bad \in Nat /\ p.good \in Nat
           /\ p.wait > 1 => p.wait - 1 \in Nat
BY DEF Looked, Policies

LEMMA UptoIsNatural == ASSUME NEW b \in Nat, NEW n \in Nat PROVE Upto(b, n) \in Nat
BY DEF Upto

\* What a policy asks for is a profile of the car.
LEMMA TargetsAreProfiles ==
    ASSUME VideoInv, NEW p, Looked(p)
    PROVE  /\ Lower(p) # {} => LessPixels(p) \in Profiles /\ p.current + 1 \in Profiles
           /\ p.current > 1 => p.current - 1 \in Profiles
<1>1. Profiles = 1 .. Len(HEIGHTS) /\ Len(HEIGHTS) \in Nat /\ p.current \in Profiles
  <2>1. Profiles = 1 .. Len(HEIGHTS) /\ Len(HEIGHTS) \in Nat
    BY VideoAssumption DEF Profiles
  <2>2. p.current \in Profiles
    BY DEF Looked, Policies
  <2>. QED  BY <2>1, <2>2
<1>2. ASSUME NEW S \in SUBSET Profiles, S # {}
      PROVE  First(S) \in Profiles
  <2>1. \E i \in S : \A j \in S : i <= j
    BY <1>1, <1>2, SmallestIsThere
  <2>. QED  BY <2>1 DEF First
<1>3. Lower(p) \subseteq Profiles
  BY DEF Lower
<1>4. Lower(p) # {} => LessPixels(p) \in Profiles
  BY <1>2, <1>3 DEF LessPixels
<1>5. Lower(p) # {} => p.current + 1 \in Profiles
  BY <1>1 DEF Lower
<1>. QED  BY <1>1, <1>4, <1>5

LEMMA KeptOrAsked ==
    ASSUME VideoInv, NEW p, Looked(p), UNCHANGED <<applied, camera>>,
           Keeps(p) \/ \E target \in Profiles : Request(p, target)
    PROVE  VideoInv'
<1>1. CASE Keeps(p)
  BY <1>1 DEF Keeps, Looked, VideoInv, VideoTypes, Latest
<1>2. ASSUME NEW target \in Profiles, Request(p, target), ~Keeps(p)
      PROVE  VideoInv'
  <2>1. PICK c \in Policies : c = Cleared(p)
    BY DEF Looked, Policies, Cleared
  <2>2. /\ policy' = [c EXCEPT !.wait = ACK_WINDOW, !.last = target, !.unacked = @ + 1]
        /\ requested' = target /\ asked' = Append(asked, target)
    BY <1>2, <2>1 DEF Request
  <2>3. policy' \in Policies /\ policy'.last = target
    <3>1. PICK n \in Nat : n = c.unacked + 1
      BY DEF Policies
    <3>2. policy' = [c EXCEPT !.wait = ACK_WINDOW, !.last = target, !.unacked = n] /\ ACK_WINDOW \in Nat
      BY <2>2, <3>1, VideoAssumption
    <3>. QED  BY <3>2 DEF Policies
  <2>4. asked' \in Seq(Profiles) /\ asked' # <<>> /\ asked'[Len(asked')] = target
    BY <2>2 DEF VideoInv, VideoTypes
  <2>5. target # NoProfile
    BY VideoAssumption DEF Profiles, NoProfile
  <2>. QED  BY <2>2, <2>3, <2>4, <2>5 DEF VideoInv, VideoTypes, Latest
<1>. QED  BY <1>1, <1>2

\* What is left of a queue ends as the queue did.
LEMMA TailEnds ==
    ASSUME NEW S, NEW s \in Seq(S), s # <<>>
    PROVE  /\ Tail(s) \in Seq(S)
           /\ Tail(s) # <<>> => Tail(s)[Len(Tail(s))] = s[Len(s)]
           /\ Tail(s) = <<>> => s[Len(s)] = Head(s)
<1>1. /\ Tail(s) \in Seq(S) /\ Len(Tail(s)) = Len(s) - 1
      /\ \A i \in 1 .. Len(Tail(s)) : Tail(s)[i] = s[i + 1]
  BY HeadTailProperties
<1>2. Len(s) \in Nat \ {0} /\ (Tail(s) # <<>> <=> Len(Tail(s)) # 0)
  BY <1>1, EmptySeq
<1>3. Head(s) = s[1]
  OBVIOUS
<1>4. CASE Len(s) = 1
  BY <1>1, <1>2, <1>3, <1>4
<1>5. CASE Len(s) # 1
  BY <1>1, <1>2, <1>5
<1>. QED  BY <1>4, <1>5

LEMMA HeardLooked ==
    ASSUME NEW late \in BOOLEAN, Looked(policy)
    PROVE  Looked(Heard(policy, late))
<1>1. Looked(Cleared(policy)) /\ Looked([Cleared(policy) EXCEPT !.feedback = TRUE])
  BY ClocksOnly
<1>2. Looked([policy EXCEPT !.low = 0, !.good = 0])
  BY ClocksOnly
<1>. QED  BY <1>1, <1>2 DEF Heard

LEMMA VideoSteps == VideoInv /\ [VideoNext]_videoVars => VideoInv'
<1>. SUFFICES ASSUME VideoInv, [VideoNext]_videoVars PROVE VideoInv'
  OBVIOUS
<1>0. Looked(policy)
  BY DEF Looked, VideoInv, VideoTypes
<1>1. ASSUME NEW kind, NEW gap \in BOOLEAN, Observe(kind, gap)
      PROVE  VideoInv'
  <2>1. PICK cool \in Nat : cool = Upto(COOL_DOWN, policy.cool)
    BY UptoIsNatural, VideoAssumption DEF VideoInv, VideoTypes, Policies
  <2>2. PICK warm \in Nat : warm = (IF gap THEN 0 ELSE Upto(WARM_UP, policy.warm))
    BY UptoIsNatural, VideoAssumption DEF VideoInv, VideoTypes, Policies
  <2>3. PICK t : t = [policy EXCEPT !.cool = cool, !.warm = warm] /\ Looked(t)
    BY <1>0, ClocksOnly
  <2>4. PICK timed : timed = Waited(t) /\ Looked(timed)
    <3>1. Looked(Cleared(t)) /\ Looked([Cleared(t) EXCEPT !.wait = 0])
      BY <2>3, ClocksOnly
    <3>2. t.wait > 1 => Looked([t EXCEPT !.wait = t.wait - 1])
      <4>1. t.wait > 1 => t.wait - 1 \in Nat
        BY <2>3, EvidenceCounts
      <4>. QED  BY <4>1, <2>3, ClocksOnly
    <3>. QED  BY <2>3, <3>1, <3>2 DEF Waited
  <2>5. PICK p : p = (IF gap THEN [Cleared(timed) EXCEPT !.low = timed.low] ELSE timed) /\ Looked(p)
    <3>1. timed.low \in Nat /\ Looked(Cleared(timed))
      BY <2>4, ClocksOnly, EvidenceCounts
    <3>2. Looked([Cleared(timed) EXCEPT !.low = timed.low])
      BY <3>1, ClocksOnly
    <3>. QED  BY <2>4, <3>2
  <2>6. PICK q : q = Judged(p, kind) /\ Looked(q)
    <3>1. Looked(p) /\ BAD_FOR \in Nat /\ GOOD_FOR \in Nat
      BY <2>5, VideoAssumption
    <3>2. Upto(BAD_FOR, p.lowFps) \in Nat /\ Upto(BAD_FOR, p.bad) \in Nat /\ Upto(GOOD_FOR, p.good) \in Nat
      BY <3>1, UptoIsNatural, EvidenceCounts
    <3>3. PICK a \in Nat : a = (IF kind = "low fps" THEN Upto(BAD_FOR, p.lowFps) ELSE 0)
      BY <3>2
    <3>4. PICK b \in Nat : b = (IF kind \in {"low fps", "impaired"} THEN Upto(BAD_FOR, p.bad) ELSE 0)
      BY <3>2
    <3>5. PICK c \in Nat : c = (IF kind = "healthy" /\ HasUpgradeBudget(p) THEN Upto(GOOD_FOR, p.good) ELSE 0)
      BY <3>2
    <3>6. Judged(p, kind) = [p EXCEPT !.lowFps = a, !.bad = b, !.good = c]
      BY <3>3, <3>4, <3>5 DEF Judged
    <3>7. Looked([p EXCEPT !.lowFps = a, !.bad = b, !.good = c])
      BY <3>1, ClocksOnly
    <3>. QED  BY <3>6, <3>7
  <2>7. Looked([Cleared(p) EXCEPT !.low = p.low])
    <3>1. p.low \in Nat /\ Looked(Cleared(p))
      BY <2>5, ClocksOnly, EvidenceCounts
    <3>. QED  BY <3>1, ClocksOnly
  <2>8. /\ UNCHANGED <<applied, camera>>
        /\ \/ Keeps(p) \/ Keeps(q) \/ Keeps([Cleared(p) EXCEPT !.low = p.low])
           \/ Lower(q) # {} /\ (Request(q, LessPixels(q)) \/ Request(q, q.current + 1))
           \/ q.current > 1 /\ Request(q, q.current - 1)
    BY <1>1, <2>1, <2>2, <2>3, <2>4, <2>5, <2>6 DEF Observe
  <2>. QED  BY <2>5, <2>6, <2>7, <2>8, KeptOrAsked, TargetsAreProfiles
<1>2. ASSUME NEW best \in Profiles, NEW margin \in BOOLEAN, NEW late \in BOOLEAN, NEW collapse \in BOOLEAN,
             ObserveBandwidth(best, margin, late, collapse)
      PROVE  VideoInv'
  <2>1. PICK h : h = Heard(policy, late) /\ Looked(h)
    BY <1>0, HeardLooked
  <2>2. PICK budget \in Nat : budget = (IF margin THEN best ELSE best + 1)
    BY VideoAssumption DEF Profiles
  <2>3. PICK heard : heard = [h EXCEPT !.budget = budget] /\ Looked(heard)
    BY <2>1, ClocksOnly
  <2>4. PICK q : q = (IF HasUpgradeBudget(heard) THEN heard ELSE [heard EXCEPT !.good = 0]) /\ Looked(q)
    BY <2>3, ClocksOnly
  <2>5. PICK short : short = [q EXCEPT !.low = Upto(LOW_FOR, @)] /\ Looked(short)
    <3>1. PICK a \in Nat : a = Upto(LOW_FOR, q.low)
      BY <2>4, UptoIsNatural, VideoAssumption, EvidenceCounts
    <3>. QED  BY <2>4, <3>1, ClocksOnly
  <2>6. Looked([q EXCEPT !.low = 0])
    BY <2>4, ClocksOnly
  <2>7. UNCHANGED <<applied, camera>> /\ (Keeps(q) \/ Keeps([q EXCEPT !.low = 0]) \/ Request(short, best) \/ Keeps(short))
    BY <1>2, <2>1, <2>2, <2>3, <2>4, <2>5 DEF ObserveBandwidth
  <2>. QED  BY <2>4, <2>5, <2>6, <2>7, KeptOrAsked
<1>3. ASSUME NoEstimate PROVE VideoInv'
  <2>1. PICK h : h = Heard(policy, TRUE) /\ Looked(h)
    BY <1>0, HeardLooked
  <2>2. Looked([h EXCEPT !.budget = NoProfile])
    BY <2>1, ClocksOnly DEF NoProfile
  <2>. QED  BY <1>3, <2>1, <2>2, KeptOrAsked DEF NoEstimate, Keeps
<1>4. ASSUME Acknowledge PROVE VideoInv'
  <2>1. PICK profile \in Profiles : profile = Head(applied)
    BY <1>4 DEF Acknowledge, VideoInv, VideoTypes
  <2>2. /\ applied # <<>> /\ applied' = Tail(applied) /\ UNCHANGED <<asked, camera>> /\ profile # NoProfile
        /\ applied' \in Seq(Profiles) /\ (applied' # <<>> => camera = applied'[Len(applied')])
        /\ applied' = <<>> => camera = profile
    <3>1. applied # <<>> /\ applied' = Tail(applied) /\ UNCHANGED <<asked, camera>>
      BY <1>4 DEF Acknowledge
    <3>2. applied \in Seq(Profiles) /\ camera = applied[Len(applied)] /\ profile = Head(applied)
      BY <2>1, <3>1 DEF VideoInv, VideoTypes
    <3>3. applied' \in Seq(Profiles) /\ (applied' # <<>> => camera = applied'[Len(applied')])
          /\ (applied' = <<>> => camera = profile)
      BY <3>1, <3>2, TailEnds
    <3>4. profile # NoProfile
      BY VideoAssumption DEF Profiles, NoProfile
    <3>. QED  BY <3>1, <3>3, <3>4
  <2>3. CASE profile = requested
    <3>1. policy' = [Cleared(policy) EXCEPT !.current = profile, !.wait = 0, !.last = NoProfile, !.unacked = 0, !.cool = 0]
          /\ requested' = NoProfile
      BY <1>4, <2>1, <2>3 DEF Acknowledge, Matches, VideoInv
    <3>2. policy' \in Policies /\ policy'.current = profile /\ policy'.last = NoProfile /\ policy'.unacked = 0
      BY <3>1 DEF VideoInv, VideoTypes, Policies, Cleared
    <3>. QED  BY <2>2, <2>3, <3>1, <3>2 DEF VideoInv, VideoTypes, Latest
  <2>4. CASE profile # requested
    <3>1. UNCHANGED <<policy, requested>>
      BY <1>4, <2>1, <2>4 DEF Acknowledge, Matches
    <3>. QED  BY <2>2, <2>4, <3>1 DEF VideoInv, VideoTypes, Latest
  <2>. QED  BY <2>3, <2>4
<1>5. ASSUME CameraSwitches PROVE VideoInv'
  <2>1. PICK profile \in Profiles : profile = Head(asked)
    BY <1>5 DEF CameraSwitches, VideoInv, VideoTypes
  <2>2. asked' \in Seq(Profiles) /\ (IF asked' = <<>> THEN asked[Len(asked)] = profile
                                   ELSE asked'[Len(asked')] = asked[Len(asked)])
    BY <1>5, <2>1 DEF CameraSwitches, VideoInv, VideoTypes
  <2>3. camera' = profile /\ applied' = Append(applied, profile) /\ applied' \in Seq(Profiles) /\ applied' # <<>>
        /\ applied'[Len(applied')] = profile /\ UNCHANGED <<policy, requested>> /\ asked # <<>>
    BY <1>5, <2>1 DEF CameraSwitches, VideoInv, VideoTypes
  <2>4. Latest' = Latest
    BY <2>2, <2>3 DEF Latest
  <2>. QED  BY <2>2, <2>3, <2>4 DEF VideoInv, VideoTypes
<1>6. ASSUME ChannelCloses PROVE VideoInv'
  <2>1. policy' \in Policies /\ policy'.current = camera /\ policy'.last = NoProfile /\ policy'.unacked = 0
    BY <1>6, VideoAssumption DEF ChannelCloses, Fresh0, Policies, NoProfile, VideoInv, VideoTypes
  <2>. QED  BY <1>6, <2>1 DEF ChannelCloses, VideoInv, VideoTypes, Latest
\* A superseded request is not the last one.
<1>7. ASSUME CarSupersedes PROVE VideoInv'
  <2>1. asked \in Seq(Profiles) /\ Len(asked) > 1 /\ asked' = Tail(asked) /\ UNCHANGED <<policy, requested, applied, camera>>
    BY <1>7 DEF CarSupersedes, VideoInv, VideoTypes
  <2>2. asked' \in Seq(Profiles) /\ asked' # <<>> /\ asked # <<>> /\ asked'[Len(asked')] = asked[Len(asked)]
    BY <2>1, TailEnds
  <2>3. Latest' = Latest
    BY <2>2 DEF Latest
  <2>. QED  BY <2>1, <2>2, <2>3 DEF VideoInv, VideoTypes
<1>8. CASE UNCHANGED videoVars
  BY <1>8 DEF videoVars, VideoInv, VideoTypes, Latest
<1>. QED  BY <1>1, <1>2, <1>3, <1>4, <1>5, <1>6, <1>7, <1>8 DEF VideoNext

\* However late the car answers, and whatever the samples and estimates say, a policy
\* all of whose requests were answered knows the profile the camera runs, and may ask
\* again (AdaptiveVideoPolicy.acknowledge, RideSessionClient "video.profile.applied").
THEOREM PolicyKnowsCameraHolds == VideoSpec => []PolicyKnowsCamera
<1>1. VideoInv => PolicyKnowsCamera
  BY DEF VideoInv, Latest, PolicyKnowsCamera
<1>. QED  BY <1>1, VideoStarts, VideoSteps, PTL DEF VideoSpec

-----------------------------------------------------------------------------
(* The simulated ride.                                                     *)

RideStates == {"CREATED", "OFFERED", "ACCEPTED", "NEGOTIATING", "ACTIVE", "RECONNECT_GRACE",
               "PAUSED_SITE_FAILOVER", "ENDING", "COMPLETED", "FAILED", "PARTIALLY_COMPENSATED", "FULLY_COMPENSATED"}
RideRecords == [state: RideStates, version: Nat, attempts: Nat, keys: SUBSET RideStates]
Entries == [status: {"waiting", "offered", "accepted", "left", "expired"}, expires: Nat]

\* The offer of a ride is taken once: the entry it belongs to stays accepted, and
\* the ride it made has taken the step to its end only at its end.
RideInv ==
    /\ ride \in RideRecords /\ members \in Seq(Entries) /\ now \in Nat
    /\ ride # NoRide => members # <<>> /\ members[1].status = "accepted"
    /\ ride.state # "COMPLETED" => "COMPLETED" \notin ride.keys

LEMMA RideStarts == RidesInit => RideInv
BY DEF RidesInit, RideInv, NoRide, NewRide, RideRecords, RideStates

\* Nothing the queue does to itself touches an accepted first entry.
Steady(queue) ==
    /\ queue \in Seq(Entries)
    /\ members # <<>> /\ members[1].status = "accepted" => queue # <<>> /\ queue[1].status = "accepted"

\* A function on the positions of a queue is a queue.
LEMMA QueueAgain ==
    ASSUME NEW S, NEW s \in Seq(S), NEW t \in [DOMAIN s -> S]
    PROVE  t \in Seq(S) /\ Len(t) = Len(s) /\ DOMAIN t = 1 .. Len(s)
<1>1. Len(s) \in Nat /\ DOMAIN s = 1 .. Len(s)
  BY LenProperties
<1>2. t \in [1 .. Len(s) -> S]
  BY <1>1
<1>3. t \in Seq(S)
  BY <1>1, <1>2
<1>. QED  BY <1>1, <1>2, <1>3

LEMMA SnapshotKeeps ==
    ASSUME NEW queue, Steady(queue)
    PROVE  Steady(Snapshot(queue))
<1>1. ASSUME NEW i \in DOMAIN queue
      PROVE  /\ Snapshot(queue)[i] \in Entries
             /\ queue[i].status = "accepted" => Snapshot(queue)[i] = queue[i]
  <2>1. queue[i] \in Entries
    BY <1>1, ElementOfSeq, LenProperties DEF Steady
  <2>2. [queue[i] EXCEPT !.status = "expired"] \in Entries
    BY <2>1 DEF Entries
  <2>. QED  BY <2>1, <2>2 DEF Snapshot, At
<1>2. Snapshot(queue) \in [DOMAIN queue -> Entries]
  BY <1>1 DEF Snapshot
<1>3. queue \in Seq(Entries)
  BY DEF Steady
<1>4. Snapshot(queue) \in Seq(Entries) /\ Len(Snapshot(queue)) = Len(queue)
  BY <1>2, <1>3, QueueAgain
<1>5. queue # <<>> => Len(queue) # 0 /\ 1 \in DOMAIN queue
  BY <1>3, EmptySeq, LenProperties
<1>6. queue # <<>> => Snapshot(queue) # <<>>
  BY <1>4, <1>5, EmptySeq
<1>. QED  BY <1>1, <1>4, <1>5, <1>6 DEF Steady

\* The first waiting entry is an entry that waits.
LEMMA FirstWaits ==
    ASSUME NEW queue \in Seq(Entries), At(queue, {"waiting"}) # {}
    PROVE  Min(At(queue, {"waiting"})) \in At(queue, {"waiting"})
<1>1. At(queue, {"waiting"}) \in SUBSET Nat
  BY LenProperties DEF At
<1>2. \E i \in At(queue, {"waiting"}) : \A j \in At(queue, {"waiting"}) : i <= j
  BY <1>1, SmallestIsThere
<1>. QED  BY <1>2 DEF Min

\* A waiting entry that leaves, or is offered a ride, is not the accepted one.
LEMMA MarkKeeps ==
    ASSUME NEW queue, Steady(queue), At(queue, {"waiting"}) # {}, NEW status \in {"left", "offered"}
    PROVE  Steady([queue EXCEPT ![Min(At(queue, {"waiting"}))].status = status])
<1>1. PICK i \in DOMAIN queue : i = Min(At(queue, {"waiting"})) /\ queue[i].status = "waiting"
  BY FirstWaits DEF Steady, At
<1>2. queue \in Seq(Entries) /\ DOMAIN queue = 1 .. Len(queue) /\ queue[i] \in Entries
  BY <1>1, ElementOfSeq, LenProperties DEF Steady
<1>3. PICK e \in Entries : e = [queue[i] EXCEPT !.status = status]
  BY <1>2 DEF Entries
<1>4. [queue EXCEPT ![i].status = status] = [queue EXCEPT ![i] = e]
  BY <1>3
<1>5. PICK q : q = [queue EXCEPT ![i] = e] /\ q \in Seq(Entries) /\ Len(q) = Len(queue)
               /\ \A j \in 1 .. Len(queue) : q[j] = IF j = i THEN e ELSE queue[j]
  <2>1. /\ [queue EXCEPT ![i] = e] \in Seq(Entries) /\ Len([queue EXCEPT ![i] = e]) = Len(queue)
        /\ \A j \in 1 .. Len(queue) : [queue EXCEPT ![i] = e][j] = IF j = i THEN e ELSE queue[j]
    BY <1>1, <1>2, ExceptSeq
  <2>. QED  BY <2>1
<1>6. queue # <<>> /\ queue[1].status = "accepted" => q # <<>> /\ q[1].status = "accepted"
  <2>1. queue # <<>> => Len(queue) # 0 /\ 1 \in 1 .. Len(queue)
    BY <1>2, EmptySeq
  <2>2. queue # <<>> => q # <<>>
    BY <1>5, <2>1, EmptySeq
  <2>. QED  BY <1>1, <1>5, <2>1, <2>2
<1>. QED  BY <1>1, <1>4, <1>5, <1>6 DEF Steady

LEMMA QueueSteps ==
    ASSUME RideInv, JoinQueue \/ LookAtQueue \/ LeaveQueue \/ CreateOffer
    PROVE  RideInv'
<1>0. Steady(members)
  BY DEF RideInv, Steady
<1>1. Steady(members')
  <2>1. CASE JoinQueue
    <3>1. PICK e \in Entries : e = [status |-> "waiting", expires |-> now + MEMBER_TTL]
      <4>1. PICK n \in Nat : n = now + MEMBER_TTL
        BY RideAssumption DEF RideInv
      <4>. QED  BY <4>1 DEF Entries
    <3>2. Steady(Append(members, e))
      BY <1>0 DEF Steady
    <3>. QED  BY <2>1, <1>0, <3>1, <3>2, SnapshotKeeps DEF JoinQueue
  <2>2. CASE LookAtQueue
    BY <2>2, <1>0, SnapshotKeeps DEF LookAtQueue
  <2>3. CASE LeaveQueue
    BY <2>3, <1>0, MarkKeeps DEF LeaveQueue
  <2>4. CASE CreateOffer
    <3>1. PICK queue : queue = Snapshot(members) /\ Steady(queue)
      BY <1>0, SnapshotKeeps
    <3>. QED  BY <2>4, <3>1, MarkKeeps DEF CreateOffer
  <2>. QED  BY <2>1, <2>2, <2>3, <2>4
<1>2. UNCHANGED <<ride, now>>
  BY DEF JoinQueue, LookAtQueue, LeaveQueue, CreateOffer
<1>. QED  BY <1>1, <1>2 DEF Steady, RideInv

\* A step of the orchestrator, taken once: it leads where its key says.
LEMMA TransitionDoes ==
    ASSUME NEW r \in RideRecords, NEW to \in RideStates
    PROVE  /\ Transition(r, to) \in RideRecords
           /\ Transition(r, to).keys = r.keys \cup {to}
           /\ to \in r.keys => Transition(r, to) = r
           /\ to \notin r.keys => Transition(r, to).state = to
<1>1. CASE to \in r.keys
  BY <1>1 DEF Transition, RideRecords
<1>2. CASE to \notin r.keys
  <2>1. PICK n \in Nat : n = r.version + 1
    BY DEF RideRecords
  <2>2. PICK k \in SUBSET RideStates : k = r.keys \cup {to}
    BY DEF RideRecords
  <2>3. PICK p \in RideRecords : p = [r EXCEPT !.state = to, !.version = n, !.keys = k]
    BY DEF RideRecords
  <2>4. p.state = to /\ p.keys = k
    BY <2>3 DEF RideRecords
  <2>5. Transition(r, to) = p
    BY <1>2, <2>1, <2>2, <2>3 DEF Transition
  <2>. QED  BY <1>2, <2>2, <2>4, <2>5
<1>. QED  BY <1>1, <1>2

\* The step to the end was not taken before, so it is taken.
LEMMA EndCompletes ==
    ASSUME RideInv, End
    PROVE  ride'.state = "COMPLETED" /\ ride' \in RideRecords
<1>1. ride \in RideRecords /\ "COMPLETED" \notin ride.keys
  BY DEF End, CanEnd, RideInv
<1>2. PICK o \in RideRecords : o = Transition(ride, "ENDING") /\ "COMPLETED" \notin o.keys
  BY <1>1, TransitionDoes DEF RideStates
<1>. QED  BY <1>2, TransitionDoes DEF End, RideStates

LEMMA RideSteps == RideInv /\ [RidesNext]_rideVars => RideInv'
<1>. SUFFICES ASSUME RideInv, [RidesNext]_rideVars PROVE RideInv'
  OBVIOUS
<1>1. CASE AcceptOffer
  <2>1. members \in Seq(Entries) /\ members # <<>> /\ 1 \in 1 .. Len(members) /\ members[1] \in Entries
    BY <1>1, EmptySeq, ElementOfSeq DEF AcceptOffer, Takes, RideInv
  <2>2. PICK e \in Entries : e = [members[1] EXCEPT !.status = "accepted"]
    BY <2>1 DEF Entries
  <2>3. e.status = "accepted" /\ members' = [members EXCEPT ![1] = e]
    BY <1>1, <2>1, <2>2 DEF AcceptOffer, Entries
  <2>4. /\ [members EXCEPT ![1] = e] \in Seq(Entries) /\ Len([members EXCEPT ![1] = e]) = Len(members)
        /\ \A j \in 1 .. Len(members) : [members EXCEPT ![1] = e][j] = IF j = 1 THEN e ELSE members[j]
    BY <2>1, ExceptSeq
  <2>5. members' \in Seq(Entries) /\ members' # <<>> /\ members'[1].status = "accepted"
    BY <2>1, <2>3, <2>4, EmptySeq
  <2>6. NewRide \in RideRecords /\ NewRide.keys = {}
    BY DEF NewRide, RideRecords, RideStates
  <2>7. PICK o \in RideRecords : o = Transition(NewRide, "OFFERED") /\ o.keys = {"OFFERED"}
    BY <2>6, TransitionDoes DEF RideStates
  <2>8. ride' \in RideRecords /\ ride'.keys = {"OFFERED", "ACCEPTED"}
    BY <1>1, <2>7, TransitionDoes DEF AcceptOffer, RideStates
  <2>. QED  BY <1>1, <2>5, <2>8 DEF AcceptOffer, RideInv
<1>2. CASE Negotiate
  <2>1. ride \in RideRecords /\ ride # NoRide /\ "COMPLETED" \notin ride.keys
    BY <1>2 DEF Negotiate, RideInv, NoRide, NewRide
  <2>2. PICK n \in RideRecords : n = Transition(ride, "NEGOTIATING") /\ n.keys = ride.keys \cup {"NEGOTIATING"}
    BY <2>1, TransitionDoes DEF RideStates
  <2>3. PICK a \in Nat : a = (IF failing THEN 5 ELSE 1)
    OBVIOUS
  <2>4. PICK s \in RideRecords : s = [n EXCEPT !.attempts = a] /\ s.keys = n.keys
    <3>1. [n EXCEPT !.attempts = a] \in RideRecords
      BY DEF RideRecords
    <3>2. [n EXCEPT !.attempts = a].keys = n.keys
      BY DEF RideRecords
    <3>. QED  BY <3>1, <3>2
  <2>5. PICK to \in {"FULLY_COMPENSATED", "ACTIVE"} : to = (IF failing THEN "FULLY_COMPENSATED" ELSE "ACTIVE")
    OBVIOUS
  <2>6. ride' = Transition(s, to)
    BY <1>2, <2>2, <2>3, <2>4, <2>5 DEF Negotiate
  <2>7. ride' \in RideRecords /\ ride'.keys = s.keys \cup {to}
    BY <2>5, <2>6, TransitionDoes DEF RideStates
  <2>8. "COMPLETED" \notin ride'.keys
    BY <2>1, <2>2, <2>4, <2>5, <2>7
  <2>. QED  BY <1>2, <2>1, <2>7, <2>8 DEF Negotiate, RideInv
<1>3. CASE End
  <2>1. ride'.state = "COMPLETED" /\ ride' \in RideRecords
    BY <1>3, EndCompletes
  <2>2. ride # NoRide
    BY <1>3 DEF End, CanEnd, NoRide, NewRide
  <2>. QED  BY <1>3, <2>1, <2>2 DEF End, RideInv
<1>4. CASE SetScenario
  BY <1>4 DEF SetScenario, RideInv
<1>5. CASE Tick
  BY <1>5 DEF Tick, RideInv
<1>6. CASE UNCHANGED rideVars
  BY <1>6 DEF rideVars, RideInv
<1>. QED  BY <1>1, <1>2, <1>3, <1>4, <1>5, <1>6, QueueSteps DEF RidesNext

\* Whatever the queue and the offers do, and however often end is called, the driven
\* ride ends charged, once, and no other does (SimulationService.end and acceptOffer).
THEOREM DrivenIsChargedHolds == RidesInit /\ [][RidesNext]_rideVars => DrivenIsCharged
<1>. DEFINE Charged == /\ ride.state = "ACTIVE" /\ ride' # ride => ride'.state = "COMPLETED" /\ spent' = spent + USED
                       /\ spent' # spent => ride.state = "ACTIVE"
<1>1. ASSUME RideInv, [RidesNext]_rideVars
      PROVE  Charged
  <2>1. CASE End
    BY <1>1, <2>1, EndCompletes DEF End, CanEnd
  <2>2. CASE AcceptOffer
    <3>1. ride = NoRide /\ spent' = spent
      BY <1>1, <2>2 DEF AcceptOffer, Takes, RideInv
    <3>. QED  BY <3>1 DEF NoRide, NewRide
  <2>3. CASE Negotiate
    BY <2>3 DEF Negotiate
  <2>4. CASE UNCHANGED <<ride, spent>>
    BY <2>4
  <2>. QED
    BY <1>1, <2>1, <2>2, <2>3, <2>4
    DEF RidesNext, JoinQueue, LookAtQueue, LeaveQueue, CreateOffer, SetScenario, Tick, rideVars
<1>. QED  BY <1>1, RideStarts, RideSteps, PTL DEF DrivenIsCharged

-----------------------------------------------------------------------------
(* The updates of the car's agent.                                         *)

Updates == [target: Versions, status: Open \cup {"succeeded", "failed"}]
Agents == [version: Versions, job: Nat, ready: BOOLEAN, offered: SUBSET Nat, connected: BOOLEAN]
Reports == [job: Nat, status: {"downloading", "applying", "failed"}, old: BOOLEAN]

\* Only the gateway says that an update succeeded, never a report.
UpdateInv == jobs \in Seq(Updates) /\ agent \in Agents /\ reports \subseteq Reports

\* A job whose verdict is given is left as it is; success is of the running version.
Ruled(i) == jobs'[i] # jobs[i] =>
    /\ jobs[i].status \in Open
    /\ jobs'[i].status = "succeeded" => agent.version = jobs[i].target
Fair == UpdateInv' /\ \A i \in DOMAIN jobs : Ruled(i)

LEMMA UpdatesStart == UpdatesInit => UpdateInv
BY DEF UpdatesInit, UpdateInv, Agents, NoUpdate

\* Jobs rewritten in their places, each to a job with the same target.
LEMMA RewrittenJobs ==
    ASSUME UpdateInv, NEW new, jobs' = [i \in DOMAIN jobs |-> new[i]],
           \A i \in DOMAIN jobs : new[i] \in Updates
    PROVE  jobs' \in Seq(Updates)
<1>1. jobs' \in [DOMAIN jobs -> Updates]
  OBVIOUS
<1>. QED  BY <1>1, QueueAgain DEF UpdateInv

LEMMA StatusDoes ==
    ASSUME NEW j \in Updates, NEW status \in Open \cup {"succeeded", "failed"}
    PROVE  [j EXCEPT !.status = status] \in Updates /\ [j EXCEPT !.status = status].status = status
BY DEF Updates

LEMMA GoneDoes ==
    ASSUME UpdateInv, NEW a \in Agents, NEW left \in SUBSET Reports, ConnectionGone(a, left)
    PROVE  agent' \in Agents /\ reports' \subseteq Reports
<1>1. agent' \in Agents
  BY DEF ConnectionGone, Agents
<1>2. \A r \in left : [r EXCEPT !.old = TRUE] \in Reports
  BY DEF Reports
<1>. QED  BY <1>1, <1>2 DEF ConnectionGone

LEMMA ReportDoes ==
    ASSUME UpdateInv, NEW i \in Nat, NEW status \in {"downloading", "applying", "failed"}, Report(i, status)
    PROVE  reports' \subseteq Reports
<1>1. [job |-> i, status |-> status, old |-> FALSE] \in Reports
  BY DEF Reports
<1>. QED  BY <1>1 DEF Report, UpdateInv

LEMMA UpdateSteps == UpdateInv /\ [UpdatesNext]_updateVars => Fair
<1>. SUFFICES ASSUME UpdateInv, [UpdatesNext]_updateVars PROVE Fair
  OBVIOUS
<1>0. jobs \in Seq(Updates) /\ agent \in Agents /\ reports \subseteq Reports
      /\ DOMAIN jobs = 1 .. Len(jobs) /\ Len(jobs) \in Nat /\ \A i \in DOMAIN jobs : jobs[i] \in Updates
  BY ElementOfSeq, LenProperties DEF UpdateInv
<1>1. CASE CreateDrive \/ AttachDrive \/ EndDrive \/ OfferStart \/ UNCHANGED updateVars
  BY <1>0, <1>1 DEF CreateDrive, AttachDrive, EndDrive, OfferStart, updateVars, Fair, UpdateInv, Ruled
<1>2. CASE Disconnect
  <2>1. agent' \in Agents /\ reports' \subseteq Reports
    BY <1>0, <1>2, GoneDoes DEF Disconnect
  <2>. QED  BY <1>0, <1>2, <2>1 DEF Disconnect, Fair, UpdateInv, Ruled
<1>3. CASE Authenticate
  <2>1. agent' \in Agents /\ UNCHANGED reports
    BY <1>0, <1>3 DEF Authenticate, Agents
  <2>2. DEFINE new == [i \in DOMAIN jobs |->
                          IF jobs[i].status # "applying" THEN jobs[i]
                          ELSE [jobs[i] EXCEPT !.status = IF jobs[i].target = agent.version
                                                          THEN "succeeded" ELSE "failed"]]
  <2>3. jobs' = new
    BY <1>3 DEF Authenticate
  <2>4. ASSUME NEW i \in DOMAIN jobs
        PROVE  new[i] \in Updates /\ Ruled(i)
    <3>1. jobs[i] \in Updates
      BY <1>0
    <3>2. PICK v \in {"succeeded", "failed"} : v = (IF jobs[i].target = agent.version THEN "succeeded" ELSE "failed")
      OBVIOUS
    <3>3. PICK j \in Updates : j = [jobs[i] EXCEPT !.status = v] /\ j.status = v
      BY <3>1, StatusDoes
    <3>4. new[i] = IF jobs[i].status # "applying" THEN jobs[i] ELSE j
      BY <3>2, <3>3
    <3>. QED  BY <2>3, <3>1, <3>2, <3>3, <3>4 DEF Ruled, Open
  <2>5. jobs' \in Seq(Updates)
    BY <2>3, <2>4, RewrittenJobs
  <2>. QED  BY <1>0, <2>1, <2>4, <2>5 DEF Fair, UpdateInv
<1>4. ASSUME NEW sent \in BOOLEAN, Claim(sent)
      PROVE  Fair
  <2>1. Claimable \in SUBSET Nat
    BY <1>0 DEF Claimable
  <2>2. agent' \in Agents /\ UNCHANGED reports
    <3>1. PICK o \in SUBSET Nat : o = agent.offered \cup Claimable
      BY <1>0, <2>1 DEF Agents
    <3>2. agent' = IF sent THEN [agent EXCEPT !.offered = o] ELSE agent
      BY <1>4, <3>1 DEF Claim
    <3>. QED  BY <1>0, <1>4, <3>2 DEF Agents, Claim
  <2>3. DEFINE new == [i \in DOMAIN jobs |-> IF i \in Claimable THEN [jobs[i] EXCEPT !.status = "downloading"] ELSE jobs[i]]
  <2>4. jobs' = new
    BY <1>4 DEF Claim
  <2>5. ASSUME NEW i \in DOMAIN jobs
        PROVE  new[i] \in Updates /\ Ruled(i)
    <3>1. jobs[i] \in Updates
      BY <1>0
    <3>2. PICK j \in Updates : j = [jobs[i] EXCEPT !.status = "downloading"] /\ j.status = "downloading"
      BY <3>1, StatusDoes DEF Open
    <3>3. new[i] = IF i \in Claimable THEN j ELSE jobs[i]
      BY <3>2
    <3>. QED  BY <2>4, <3>1, <3>2, <3>3 DEF Ruled, Open, Claimable
  <2>6. jobs' \in Seq(Updates)
    BY <2>4, <2>5, RewrittenJobs
  <2>. QED  BY <1>0, <2>2, <2>5, <2>6 DEF Fair, UpdateInv
<1>5. ASSUME NEW r \in reports, RecordStatus(r)
      PROVE  Fair
  <2>1. DEFINE fits == jobs[r.job].status \in Follows(r.status)
  <2>2. r \in Reports /\ reports \ {r} \in SUBSET Reports
    BY <1>0
  <2>3. agent' \in Agents /\ reports' \subseteq Reports
    <3>1. CASE ConnectionGone(agent, reports \ {r})
      BY <1>0, <2>2, <3>1, GoneDoes
    <3>2. CASE reports' = reports \ {r} /\ UNCHANGED <<agent, offering>>
      BY <1>0, <2>2, <3>2
    <3>. QED  BY <1>5, <3>1, <3>2 DEF RecordStatus
  <2>4. CASE fits /\ r.job \in DOMAIN jobs
    <3>1. PICK j \in Updates : j = [jobs[r.job] EXCEPT !.status = r.status] /\ j.status = r.status
      <4>1. jobs[r.job] \in Updates /\ r.status \in Open \cup {"succeeded", "failed"}
        BY <1>0, <2>2, <2>4 DEF Reports, Open
      <4>. QED  BY <4>1, StatusDoes
    <3>2. jobs' = [jobs EXCEPT ![r.job] = j]
      BY <1>5, <2>4, <3>1 DEF RecordStatus
    <3>3. jobs' \in Seq(Updates) /\ \A i \in DOMAIN jobs : jobs'[i] = IF i = r.job THEN j ELSE jobs[i]
      BY <1>0, <2>4, <3>2, ExceptSeq
    <3>4. jobs[r.job].status \in Open /\ j.status # "succeeded"
      BY <2>2, <2>4, <3>1 DEF Follows, Open, Reports
    <3>. QED  BY <2>3, <3>3, <3>4 DEF Fair, UpdateInv, Ruled
  <2>5. CASE ~(fits /\ r.job \in DOMAIN jobs)
    <3>1. jobs' = jobs
      <4>1. jobs' = IF fits THEN [jobs EXCEPT ![r.job].status = r.status] ELSE jobs
        BY <1>5 DEF RecordStatus
      <4>2. r.job \notin DOMAIN jobs => [jobs EXCEPT ![r.job].status = r.status] = jobs
        BY <1>0
      <4>. QED  BY <2>5, <4>1, <4>2
    <3>. QED  BY <1>0, <2>3, <3>1 DEF Fair, UpdateInv, Ruled
  <2>. QED  BY <2>4, <2>5
<1>6. ASSUME NEW v \in Versions, RequestUpdate(v)
      PROVE  Fair
  <2>1. PICK j \in Updates : j = NewUpdate(v)
    BY DEF NewUpdate, Updates, Open
  <2>2. jobs' = Append(jobs, j) /\ UNCHANGED <<agent, reports>>
    BY <1>6, <2>1 DEF RequestUpdate
  <2>3. jobs' \in Seq(Updates) /\ \A i \in DOMAIN jobs : jobs'[i] = jobs[i]
    BY <1>0, <2>2
  <2>. QED  BY <1>0, <2>2, <2>3 DEF Fair, UpdateInv, Ruled
<1>7. ASSUME NEW v \in Versions, Install(v)
      PROVE  Fair
  <2>1. [agent EXCEPT !.version = v, !.job = NoUpdate, !.ready = FALSE] \in Agents
    BY <1>0 DEF Agents, NoUpdate
  <2>2. agent' \in Agents /\ reports' \subseteq Reports
    BY <1>0, <1>7, <2>1, GoneDoes DEF Install
  <2>. QED  BY <1>0, <1>7, <2>2 DEF Install, Fair, UpdateInv, Ruled
<1>8. ASSUME NEW i \in DOMAIN jobs, TakeOffer(i)
      PROVE  Fair
  <2>1. i \in Nat
    BY <1>0
  <2>2. reports' \subseteq Reports
    BY <1>8, <2>1, ReportDoes DEF TakeOffer
  <2>3. agent' \in Agents
    <3>1. PICK o \in SUBSET Nat : o = agent.offered \ {i}
      BY <1>0 DEF Agents
    <3>2. PICK n \in Nat : n = (IF agent.job = NoUpdate THEN i ELSE agent.job)
      BY <1>0, <2>1 DEF Agents
    <3>3. agent' = [agent EXCEPT !.offered = o, !.job = n]
      BY <1>8, <3>1, <3>2 DEF TakeOffer
    <3>. QED  BY <1>0, <3>3 DEF Agents
  <2>. QED  BY <1>0, <1>8, <2>2, <2>3 DEF TakeOffer, Fair, UpdateInv, Ruled
<1>9. ASSUME NEW status \in {"applying", "failed"}, Fetched(status)
      PROVE  Fair
  <2>1. agent.job \in Nat
    BY <1>0 DEF Agents
  <2>2. reports' \subseteq Reports
    BY <1>9, <2>1, ReportDoes DEF Fetched
  <2>3. agent' \in Agents
    <3>1. PICK b \in BOOLEAN : b = (status = "applying")
      OBVIOUS
    <3>2. PICK n \in Nat : n = (IF status = "failed" THEN NoUpdate ELSE agent.job)
      BY <2>1 DEF NoUpdate
    <3>3. agent' = [agent EXCEPT !.job = n, !.ready = b]
      BY <1>9, <3>1, <3>2 DEF Fetched
    <3>. QED  BY <1>0, <3>3 DEF Agents
  <2>. QED  BY <1>0, <1>9, <2>2, <2>3 DEF Fetched, Fair, UpdateInv, Ruled
<1>. QED  BY <1>1, <1>2, <1>3, <1>4, <1>5, <1>6, <1>7, <1>8, <1>9 DEF UpdatesNext

\* For any releases, reports on their way and connections replaced, the first verdict
\* on an update stands, and success is said of the version that runs only
\* (recordUpdateStatus, authenticateDevice).
THEOREM VerdictStandsHolds == UpdatesInit /\ [][UpdatesNext]_updateVars => VerdictStands
<1>. DEFINE Stands == \A i \in DOMAIN jobs : jobs'[i] # jobs[i] =>
                        /\ jobs[i].status \in Open
                        /\ jobs'[i].status = "succeeded" => agent.version = jobs[i].target
<1>1. UpdateInv /\ [UpdatesNext]_updateVars => UpdateInv' /\ Stands
  BY UpdateSteps DEF Fair, Ruled
<1>. QED  BY <1>1, UpdatesStart, PTL DEF VerdictStands

-----------------------------------------------------------------------------
(* The payments.                                                           *)

Phases == {"none", "before", "after"}
Jobs == [state : {"none", "waiting", "active", "completed", "failed"}, made : Nat, stalls : Nat]

\* The columns and fields keep their declared values.
PaymentTypes ==
    /\ event \in [Events -> {"none", "received", "processed"}]
    /\ credits \in [Events -> {0, 1}]
    /\ webhook \in [Events -> {"idle", "enqueue", "answer"}]
    /\ accepted \in [Events -> BOOLEAN]
    /\ job \in [Events -> Jobs]
    /\ run \in [Events -> [Runs -> Phases]]

\* A job is made once, by the delivery that inserted the event, and before Stripe is told.
MadeOnce(e) ==
    /\ event[e] = "none" => webhook[e] = "idle" /\ job[e].state = "none"
                            /\ \A r \in Runs : run[e][r] = "none"
    /\ webhook[e] = "enqueue" => job[e].state = "none"
    /\ webhook[e] = "answer" \/ accepted[e] => job[e].state # "none"

\* The commit marks and credits together; whoever is past it, or completed the job,
\* leaves a processed event.
Committed(e) ==
    /\ credits[e] = IF event[e] = "processed" /\ e \in CreditEvents THEN 1 ELSE 0
    /\ \A r \in Runs : run[e][r] = "after" => event[e] = "processed"
    /\ job[e].state = "completed" => event[e] = "processed"

\* An active job has the run that holds its lock, and no other job has one.
Held(e) == job[e].state = "active" <=> run[e]["owner"] # "none"

PaymentInv == PaymentTypes /\ \A e \in Events : MadeOnce(e) /\ Committed(e) /\ Held(e)

LEMMA PaymentInvInit == PaymentsInit => PaymentInv
BY DEF PaymentsInit, PaymentInv, PaymentTypes, Jobs, MadeOnce, Committed, Held, NewJob, Runs, Phases

-----------------------------------------------------------------------------
(* One lemma for each process.  Each first keeps the types, then the rest of  *)
(* every event, the one of the step and the others.                          *)

Kept(d) == MadeOnce(d) /\ Committed(d) /\ Held(d)

\* A stalled or failed job waits again or is kept as failed.
LEMMA BackOrFailed ==
    ASSUME NEW j \in Jobs
    PROVE  /\ Stalled(j) \in Jobs /\ Stalled(j).state \in {"waiting", "failed"}
           /\ AfterFailure(j) \in Jobs /\ AfterFailure(j).state \in {"waiting", "failed"}
<1>1. j.made + 1 \in Nat /\ j.stalls + 1 \in Nat
    BY DEF Jobs
<1>2. \A s \in {"waiting", "failed"}, n \in Nat : [j EXCEPT !.stalls = n, !.state = s] \in Jobs
    BY DEF Jobs
<1>3. \A s \in {"waiting", "failed"}, n \in Nat : [j EXCEPT !.made = n, !.state = s] \in Jobs
    BY DEF Jobs
<1>4. \A s, n : [j EXCEPT !.stalls = n, !.state = s].state = s /\ [j EXCEPT !.made = n, !.state = s].state = s
    BY DEF Jobs
<1>5. Stalled(j) \in Jobs /\ Stalled(j).state \in {"waiting", "failed"}
    BY <1>1, <1>2, <1>4 DEF Stalled
<1>6. AfterFailure(j) \in Jobs /\ AfterFailure(j).state \in {"waiting", "failed"}
    BY <1>1, <1>3, <1>4 DEF AfterFailure
<1>7. QED
    BY <1>5, <1>6

LEMMA WebhookKeeps ==
    ASSUME PaymentInv, NEW e \in Events, Deliver(e) \/ Enqueue(e) \/ Answer(e)
    PROVE  PaymentInv'
<1>1. PaymentTypes'
  <2>0. PaymentTypes /\ NewJob \in Jobs
    BY DEF PaymentInv, NewJob, Jobs
  <2>1. CASE Deliver(e)
    BY <2>0, <2>1 DEF PaymentTypes, Deliver
  <2>2. CASE Enqueue(e)
    BY <2>0, <2>2 DEF PaymentTypes, Enqueue
  <2>3. CASE Answer(e)
    BY <2>0, <2>3 DEF PaymentTypes, Answer
  <2>4. QED
    BY <2>1, <2>2, <2>3
<1>2. ASSUME NEW d \in Events
      PROVE  Kept(d)'
  <2>0. MadeOnce(d) /\ Committed(d) /\ Held(d) /\ MadeOnce(e) /\ Held(e) /\ PaymentTypes
    BY DEF PaymentInv
  <2>1. CASE Deliver(e)
    BY <2>0, <2>1 DEF Deliver, Kept, PaymentTypes, Jobs, MadeOnce, Committed, Held
  <2>2. CASE Enqueue(e)
    BY <2>0, <2>2 DEF Enqueue, NewJob, Kept, PaymentTypes, Jobs, MadeOnce, Committed, Held
  <2>3. CASE Answer(e)
    BY <2>0, <2>3 DEF Answer, Kept, PaymentTypes, Jobs, MadeOnce, Committed, Held
  <2>4. QED
    BY <2>1, <2>2, <2>3
<1>3. QED
    BY <1>1, <1>2 DEF PaymentInv, Kept

LEMMA ApiCrashKeeps ==
    ASSUME PaymentInv, ApiCrash
    PROVE  PaymentInv'
BY DEF ApiCrash, PaymentInv, PaymentTypes, Jobs, MadeOnce, Committed, Held

LEMMA LocksKeep ==
    ASSUME PaymentInv, NEW e \in Events, Take(e) \/ Stall(e)
    PROVE  PaymentInv'
<1>1. PaymentTypes'
  <2>0. PaymentTypes
    BY DEF PaymentInv
  <2>1. CASE Take(e)
    BY <2>0, <2>1 DEF PaymentTypes, Jobs, Take, webhookVars, Runs, Phases
  <2>2. CASE Stall(e)
    BY <2>0, <2>2, BackOrFailed DEF PaymentTypes, Stall, webhookVars, Runs, Phases
  <2>3. QED
    BY <2>1, <2>2
<1>2. ASSUME NEW d \in Events
      PROVE  Kept(d)'
  <2>0. Kept(d) /\ Kept(e) /\ PaymentTypes
    BY DEF PaymentInv, Kept
  <2>1. CASE Take(e)
    BY <2>0, <2>1 DEF Take, webhookVars, Kept, PaymentTypes, Jobs, MadeOnce, Committed, Held, Runs, Phases
  <2>2. CASE Stall(e)
    <3>1. /\ UNCHANGED <<event, credits, webhook, accepted>>
          /\ job'[d] = (IF d = e THEN Stalled(job[e]) ELSE job[d])
          /\ run'[d] = (IF d = e THEN [r \in Runs |-> IF r = "stalled" THEN run[e]["owner"] ELSE "none"] ELSE run[d])
      BY <2>0, <2>2 DEF Stall, PaymentTypes, webhookVars
    <3>2. Stalled(job[e]).state \in {"waiting", "failed"} /\ job[e].state = "active"
      BY <2>0, <2>2, BackOrFailed DEF PaymentTypes, Stall
    <3>3. CASE d = e
      <4>1. /\ job'[d].state \in {"waiting", "failed"}
            /\ run'[d]["owner"] = "none" /\ run'[d]["stalled"] = run[d]["owner"]
        BY <3>1, <3>2, <3>3 DEF Runs
      <4>2. event[d] # "none"
        BY <2>0, <3>2, <3>3 DEF Kept, MadeOnce
      <4>3. MadeOnce(d)'
        BY <2>0, <3>1, <3>2, <3>3, <4>1, <4>2 DEF Kept, MadeOnce
      <4>4. Committed(d)' /\ Held(d)'
        BY <2>0, <3>1, <4>1 DEF Kept, Committed, Held, Runs
      <4>5. QED
        BY <4>3, <4>4 DEF Kept
    <3>4. CASE d # e
      BY <2>0, <3>1, <3>4 DEF Kept, MadeOnce, Committed, Held
    <3>5. QED
      BY <3>3, <3>4
  <2>3. QED
    BY <2>1, <2>2
<1>3. QED
    BY <1>1, <1>2 DEF PaymentInv, Kept

LEMMA WorkerCrashKeeps ==
    ASSUME PaymentInv, WorkerCrash
    PROVE  PaymentInv'
<1>1. PaymentTypes'
    BY BackOrFailed DEF PaymentInv, PaymentTypes, WorkerCrash, webhookVars, Runs, Phases
<1>2. ASSUME NEW d \in Events
      PROVE  Kept(d)'
  <2>0. Kept(d) /\ PaymentTypes
    BY DEF PaymentInv, Kept
  <2>1. /\ UNCHANGED <<event, credits, webhook, accepted>>
        /\ job'[d] = (IF job[d].state = "active" THEN Stalled(job[d]) ELSE job[d])
        /\ run'[d] = [r \in Runs |-> "none"]
    BY <2>0 DEF WorkerCrash, webhookVars
  <2>2. Stalled(job[d]).state \in {"waiting", "failed"}
    BY <2>0, BackOrFailed DEF PaymentTypes
  <2>3. QED
    BY <2>0, <2>1, <2>2 DEF Kept, PaymentTypes, Jobs, MadeOnce, Committed, Held, Runs
<1>3. QED
    BY <1>1, <1>2 DEF PaymentInv, Kept

LEMMA RunKeeps ==
    ASSUME PaymentInv, NEW e \in Events, NEW r \in Runs, Process(e, r) \/ Complete(e, r) \/ Fail(e, r)
    PROVE  PaymentInv'
<1>0. PaymentTypes
    BY DEF PaymentInv
<1>1. PaymentTypes'
  <2>1. CASE Process(e, r)
    BY <1>0, <2>1 DEF PaymentTypes, Process, InsertedOnce, webhookVars, Phases
  <2>2. CASE Complete(e, r)
    BY <1>0, <2>2 DEF PaymentTypes, Jobs, Complete, webhookVars, Phases
  <2>3. CASE Fail(e, r)
    BY <1>0, <2>3, BackOrFailed DEF PaymentTypes, Fail, webhookVars, Phases
  <2>4. QED
    BY <2>1, <2>2, <2>3
<1>2. ASSUME NEW d \in Events
      PROVE  Kept(d)'
  <2>0. Kept(d) /\ Kept(e)
    BY DEF PaymentInv, Kept
  <2>1. CASE Process(e, r)
    <3>1. /\ UNCHANGED <<webhook, accepted, job>> /\ run[e][r] = "before"
          /\ event'[d] = (IF d = e THEN "processed" ELSE event[d])
          /\ credits'[d] = (IF d = e /\ event[e] = "received" /\ e \in CreditEvents THEN 1 ELSE credits[d])
          /\ \A q \in Runs : run'[d][q] = (IF d = e /\ q = r THEN "after" ELSE run[d][q])
      BY <1>0, <2>1 DEF Process, PaymentTypes, InsertedOnce, webhookVars
    <3>2. event[e] # "none" /\ \A q \in Runs : (run'[d][q] = "none") <=> (run[d][q] = "none")
      BY <1>0, <2>0, <3>1 DEF Kept, MadeOnce, Held, PaymentTypes, Runs
    <3>3. QED
      BY <1>0, <2>0, <3>1, <3>2 DEF Kept, PaymentTypes, Jobs, MadeOnce, Committed, Held, Runs
  <2>2. CASE Complete(e, r)
    <3>1. /\ UNCHANGED <<event, credits, webhook, accepted>> /\ run[e][r] = "after"
          /\ job'[d].state = (IF d = e /\ r = "owner" THEN "completed" ELSE job[d].state)
          /\ \A q \in Runs : run'[d][q] = (IF d = e /\ q = r THEN "none" ELSE run[d][q])
      BY <1>0, <2>2 DEF Complete, PaymentTypes, Jobs, webhookVars
    <3>2. QED
      BY <1>0, <2>0, <3>1 DEF Kept, PaymentTypes, Jobs, MadeOnce, Committed, Held, Runs
  <2>3. CASE Fail(e, r)
    <3>1. /\ UNCHANGED <<event, credits, webhook, accepted>> /\ run[e][r] = "before"
          /\ job'[d] = (IF d = e /\ r = "owner" THEN AfterFailure(job[e]) ELSE job[d])
          /\ \A q \in Runs : run'[d][q] = (IF d = e /\ q = r THEN "none" ELSE run[d][q])
      BY <1>0, <2>3 DEF Fail, PaymentTypes, webhookVars
    <3>2. AfterFailure(job[e]).state \in {"waiting", "failed"}
      BY <1>0, BackOrFailed DEF PaymentTypes
    <3>3. QED
      BY <1>0, <2>0, <3>1, <3>2 DEF Kept, PaymentTypes, Jobs, MadeOnce, Committed, Held, Runs
  <2>4. QED
    BY <2>1, <2>2, <2>3
<1>3. QED
    BY <1>1, <1>2 DEF PaymentInv, Kept

LEMMA PaymentInvStep ==
    ASSUME PaymentInv, [PaymentsNext]_paymentVars
    PROVE  PaymentInv'
<1>1. CASE UNCHANGED paymentVars
    BY <1>1 DEF paymentVars, webhookVars, PaymentInv, PaymentTypes, Jobs, MadeOnce, Committed, Held
<1>2. QED
    BY <1>1, WebhookKeeps, ApiCrashKeeps, LocksKeep, WorkerCrashKeeps, RunKeeps DEF PaymentsNext

\* However often Stripe repeats, the processes crash and jobs stall, a payment Stripe
\* was told is accepted is credited exactly once, waits for its run, or is kept failed.
THEOREM AcceptedIsPaidOnceHolds == PaymentsSpec => []AcceptedIsPaidOnce
<1>1. PaymentInv => AcceptedIsPaidOnce
    BY DEF PaymentInv, PaymentTypes, Jobs, MadeOnce, Committed, Held, AcceptedIsPaidOnce, Paid
<1>2. QED
    BY <1>1, PaymentInvInit, PaymentInvStep, PTL DEF PaymentsSpec

-----------------------------------------------------------------------------
(* The edge service.                                                       *)

\* What the gate remembers, compared with its history: after a
\* restart it remembers nothing, but then no ride is active, so it refuses all.
GateInv ==
    /\ activeRide \in EdgeRides \cup {NONE}
    /\ lastSequence \in Int
    /\ driven \in Seq(Int)
    /\ activeRide # NONE =>
         /\ stopped => operatorStop
         /\ \A i \in DOMAIN driven : driven[i] <= lastSequence

LEMMA GateInit == EdgeInit => GateInv
BY DEF EdgeInit, GateInv

\* What an accepted command says of the gate and the history.
LEMMA Accepted ==
    ASSUME GateInv, NEW r \in EdgeRides, NEW seq \in 0 .. SEQUENCES, Refused(r, seq, TRUE) = NONE
    PROVE  /\ ~operatorStop /\ activeRide = r /\ lastSequence < seq
           /\ ~stopped
           /\ \A i \in DOMAIN driven : driven[i] < seq
<1>1. ~operatorStop
    BY DEF Refused, NONE
<1>2. activeRide = r
    BY <1>1 DEF Refused, NONE
<1>3. ~(seq <= lastSequence)
    BY <1>1, <1>2 DEF Refused, NONE
<1>4. lastSequence < seq
    BY <1>3, EdgeAssumption DEF GateInv
<1>5. activeRide # NONE
    BY <1>2, EdgeAssumption
<1>6. ASSUME NEW i \in DOMAIN driven
      PROVE  driven[i] < seq
  <2>1. driven[i] <= lastSequence /\ driven[i] \in Int
    BY <1>5 DEF GateInv
  <2>2. QED
    BY <2>1, <1>4, EdgeAssumption DEF GateInv
<1>7. QED
    BY <1>1, <1>2, <1>4, <1>5, <1>6 DEF GateInv

LEMMA GateStep ==
    ASSUME GateInv, [EdgeNext]_edgeVars
    PROVE  GateInv'
<1>1. CASE Stop
    BY <1>1 DEF Stop, GateInv
<1>2. CASE Restart
    BY <1>2 DEF Restart, GateInv
<1>3. ASSUME NEW r \in EdgeRides, Activate(r)
      PROVE  GateInv'
    BY <1>3 DEF Activate, GateInv
<1>4. ASSUME NEW r \in EdgeRides, NEW seq \in 0 .. SEQUENCES, Drive(r, seq)
      PROVE  GateInv'
  <2>1. /\ ~stopped /\ lastSequence < seq /\ \A i \in DOMAIN driven : driven[i] < seq
    BY <1>4, Accepted DEF Drive
  <2>2. /\ driven' = Append(driven, seq) /\ lastSequence' = seq /\ seq \in Int
        /\ UNCHANGED <<activeRide, operatorStop, stopped>>
    BY <1>4, EdgeAssumption DEF Drive
  <2>3. driven' \in Seq(Int)
    BY <2>2 DEF GateInv
  <2>4. \A i \in DOMAIN driven' : driven'[i] <= lastSequence'
    BY <2>1, <2>2 DEF GateInv
  <2>5. QED
    BY <2>1, <2>2, <2>3, <2>4 DEF GateInv
<1>5. ASSUME NEW r \in EdgeRides, NEW seq \in 0 .. SEQUENCES, NEW fresh \in BOOLEAN, Neutral(r, seq, fresh)
      PROVE  GateInv'
    BY <1>5 DEF Neutral, gateVars, GateInv
<1>6. CASE UNCHANGED edgeVars
    BY <1>6 DEF edgeVars, gateVars, GateInv
<1>7. QED
    BY <1>1, <1>2, <1>3, <1>4, <1>5, <1>6 DEF EdgeNext

\* A command that moves the car comes after no stop of its activation, and after
\* commands of smaller sequences only (EdgeSafetyGate.apply).
THEOREM StopHoldsAlways == EdgeSpec => StopHolds
<1> DEFINE Moves == Len(driven') > Len(driven) =>
                      ~stopped /\ \A i \in DOMAIN driven : driven[i] < driven'[Len(driven')]
<1>1. ASSUME GateInv, [EdgeNext]_edgeVars
      PROVE  Moves
  <2>1. CASE UNCHANGED driven
    BY <2>1 DEF GateInv
  <2>2. ASSUME NEW r \in EdgeRides, NEW seq \in 0 .. SEQUENCES, Drive(r, seq)
        PROVE  Moves
    <3>1. ~stopped /\ \A i \in DOMAIN driven : driven[i] < seq
      BY <1>1, <2>2, Accepted DEF Drive
    <3>2. driven'[Len(driven')] = seq
      BY <1>1, <2>2, EdgeAssumption DEF Drive, GateInv
    <3>3. QED
      BY <3>1, <3>2
  <2>3. CASE driven' = <<>>
    BY <1>1, <2>3 DEF GateInv
  <2>4. QED
    BY <1>1, <2>1, <2>2, <2>3 DEF EdgeNext, Stop, Restart, Activate, Neutral, edgeVars
<1>2. QED
    BY <1>1, GateInit, GateStep, PTL DEF EdgeSpec, StopHolds

-----------------------------------------------------------------------------
(* The ledger of a wallet.                                                 *)

Debits == [ride: DebitKeys \cup {0}, left: Nat, todo: SUBSET Lots]

\* While a debit is half way, what it has still to take makes up the ride with
\* what it has taken already.
LedgerInv ==
    /\ lots \subseteq Lots
    /\ inLot \in [Lots -> Nat] /\ charged \in [DebitKeys -> Nat]
    /\ debit \in Debits
    /\ ~Through => /\ debit.ride \in DebitKeys
                   /\ charged[debit.ride] + debit.left = DEBIT[debit.ride]
    /\ \A r \in DebitKeys : charged[r] <= DEBIT[r]

LEMMA LedgerStarts == LedgerInit => LedgerInv
BY LedgerAssumption DEF LedgerInit, LedgerInv, Debits, Through

\* One turn of the loop moves what it takes from the lot to the ride.
LEMMA TakeFromKeeps ==
    ASSUME LedgerInv, NEW l \in Lots, TakeFrom(l)
    PROVE  LedgerInv'
<1>1. /\ ~Through /\ debit.ride \in DebitKeys /\ debit.left \in Nat /\ debit.todo \in SUBSET Lots
      /\ charged[debit.ride] \in Nat /\ inLot[l] \in Nat
      /\ charged[debit.ride] + debit.left = DEBIT[debit.ride]
  BY DEF TakeFrom, LedgerInv, Debits
<1>2. PICK taken \in Nat :
        /\ taken <= inLot[l] /\ taken <= debit.left
        /\ inLot' = [inLot EXCEPT ![l] = @ - taken]
        /\ charged' = [charged EXCEPT ![debit.ride] = @ + taken]
        /\ debit' = [debit EXCEPT !.left = @ - taken, !.todo = @ \ {l}]
  <2>1. PICK taken : taken = IF inLot[l] <= 0 THEN 0
                             ELSE IF inLot[l] < debit.left THEN inLot[l] ELSE debit.left
    OBVIOUS
  <2>2. taken \in Nat /\ taken <= inLot[l] /\ taken <= debit.left
    BY <1>1, <2>1
  <2>. QED  BY <2>1, <2>2 DEF TakeFrom, Available
<1>3. PICK rest \in Nat : rest = debit.left - taken
  BY <1>1, <1>2
<1>4. debit' = [ride |-> debit.ride, left |-> rest, todo |-> debit.todo \ {l}]
  BY <1>2, <1>3 DEF LedgerInv, Debits
<1>5. debit' \in Debits
  BY <1>1, <1>4 DEF Debits
<1>6. inLot' \in [Lots -> Nat]
  <2>1. PICK seconds \in Nat : seconds = inLot[l] - taken
    BY <1>1, <1>2
  <2>. QED  BY <1>2, <2>1 DEF LedgerInv
<1>7. PICK sum \in Nat : sum = charged[debit.ride] + taken
  BY <1>1, <1>2
<1>8. charged' = [charged EXCEPT ![debit.ride] = sum] /\ charged' \in [DebitKeys -> Nat]
  BY <1>1, <1>2, <1>7 DEF LedgerInv
<1>9. DEBIT[debit.ride] \in Nat
  BY <1>1, LedgerAssumption
<1>10. sum + rest = DEBIT[debit.ride] /\ sum <= DEBIT[debit.ride]
  BY <1>1, <1>2, <1>3, <1>7, <1>9
<1>11. debit'.ride = debit.ride /\ debit'.left = rest /\ charged'[debit'.ride] = sum
  BY <1>1, <1>4, <1>8 DEF LedgerInv
<1>12. \A r \in DebitKeys : charged'[r] <= DEBIT[r]
  BY <1>1, <1>8, <1>10 DEF LedgerInv
<1>13. lots' = lots
  BY DEF TakeFrom
<1>. QED  BY <1>1, <1>5, <1>6, <1>8, <1>10, <1>11, <1>12, <1>13 DEF LedgerInv

LEMMA LedgerSteps == LedgerInv /\ [LedgerNext]_ledgerVars => LedgerInv'
<1>. SUFFICES ASSUME LedgerInv, [LedgerNext]_ledgerVars PROVE LedgerInv'
  OBVIOUS
<1>1. CASE ClockTick \/ Compensate
  BY <1>1 DEF ClockTick, Compensate, LedgerInv, Through
<1>2. ASSUME NEW l \in Lots, AddLot(l) PROVE LedgerInv'
  <2>1. GRANT[l] \in Nat
    BY LedgerAssumption
  <2>. QED  BY <1>2, <2>1 DEF AddLot, LedgerInv, Through
<1>3. ASSUME NEW l \in Lots, TakeFrom(l) PROVE LedgerInv'
  BY <1>3, TakeFromKeeps
<1>4. ASSUME NEW r \in DebitKeys, DebitFifo(r) PROVE LedgerInv'
  <2>1. DEBIT[r] \in Nat /\ charged[r] = 0 /\ charged[r] + DEBIT[r] = DEBIT[r]
    BY <1>4, LedgerAssumption DEF DebitFifo
  <2>2. /\ debit' = [ride |-> r, left |-> DEBIT[r], todo |-> {l \in lots : ~Expired(l)}]
        /\ UNCHANGED <<lots, inLot, charged>>
    BY <1>4 DEF DebitFifo
  <2>3. debit' \in Debits /\ debit'.ride = r /\ debit'.left = DEBIT[r]
    BY <2>1, <2>2 DEF Debits, LedgerInv
  <2>. QED  BY <2>1, <2>2, <2>3 DEF LedgerInv
<1>5. CASE UNCHANGED ledgerVars
  BY <1>5 DEF ledgerVars, LedgerInv, Through
<1>. QED  BY <1>1, <1>2, <1>3, <1>4, <1>5 DEF LedgerNext

\* No lot is taken below zero and no ride charged more than it asked for,
\* whatever the balance it was let in by counts (debitFifo).
THEOREM NeverOverchargedHolds == LedgerSpec => []NeverOvercharged
<1>1. LedgerInv => NeverOvercharged
  BY DEF LedgerInv, NeverOvercharged
<1>. QED  BY <1>1, LedgerStarts, LedgerSteps, PTL DEF LedgerSpec
=============================================================================
