--------------------------- MODULE SessionProofs ---------------------------
(***************************************************************************)
(* A leader and its follower implement Replica: for any number of leaders, *)
(* controls, samples, breaks and losses, whatever the paths measure, the   *)
(* follower holds what was published and only moves forward through it.    *)
(***************************************************************************)
EXTENDS Session, CoreProofs, SequenceTheorems

EraShape == [session : SESSIONS, rev : Nat \ {0}]

(* A timeline is told from another by its session and its revision, which  *)
(* survive every change made to the rest of it.                            *)
Named(t) == {"session", "rev"} \subseteq DOMAIN t
SameName(a, b) == Named(a) /\ Named(b) /\ a.session = b.session /\ a.rev = b.rev

PublishedBy(e, t) == Eras[e].session = t.session /\ t.rev \in 1..Eras[e].rev
Published(t) == Named(t) /\ \E e \in 1..Len(Eras) : PublishedBy(e, t)

LeadersInv ==
  /\ SameName(tl, bytes)
  /\ tl.session \in SESSIONS /\ tl.rev \in Nat \ {0}
  /\ past \in Seq(EraShape)
  /\ \A i, j \in 1..Len(Eras) : Eras[i].session = Eras[j].session => i = j

(* What travels was published by the leader that the follower is connected *)
(* to, and that leader is no older than the one it has heard of.           *)
FlightInv ==
  /\ link = NONE => flight = {}
  /\ link # NONE => \E e \in 1..Len(Eras) : Eras[e].session = link
  /\ \A t \in flight : Published(t) /\ t.session = link

Nothing == core.tl.session = NONE /\ core.tl.rev = 0

HeldInv ==
  /\ "tl" \in DOMAIN core /\ Named(core.tl)
  /\ Nothing \/ Published(core.tl)
  /\ \A i, j \in 1..Len(Eras) :
       Eras[i].session = core.tl.session /\ Eras[j].session = link => i <= j

ReplicaInv == LeadersInv /\ FlightInv /\ HeldInv

-----------------------------------------------------------------------------
(* What the operators do to a timeline leaves its name alone.              *)
LEMMA AdvanceKeepsName ==
  ASSUME NEW t, Named(t), NEW n
  PROVE  SameName(t, AdvanceTo(t, n))
BY DEF AdvanceTo, Named, SameName

LEMMA LatchKeepsName ==
  ASSUME NEW t, Named(t), NEW disc
  PROVE  SameName(t, Latch(t, disc))
BY AdvanceKeepsName DEF Latch

Holds(c) == "tl" \in DOMAIN c /\ Named(c.tl)

LEMMA TickKeepsName ==
  ASSUME NEW c, Holds(c), NEW at
  PROVE  Holds(TickCore(c, at)) /\ SameName(c.tl, TickCore(c, at).tl)
<1> DEFINE disc == Active(c.tl, LeaderTime(c, at)).disc
<1>1. /\ "tl" \in DOMAIN TickCore(c, at)
      /\ TickCore(c, at).tl = c.tl \/ TickCore(c, at).tl = Latch(c.tl, disc)
  <2> HIDE DEF disc
  <2> QED
    BY DEF Holds, TickCore, disc
<1> QED
  BY <1>1, LatchKeepsName DEF Holds, SameName

LEMMA CorrectKeepsTimeline ==
  ASSUME NEW c, "tl" \in DOMAIN c, NEW before, NEW at, NEW measured
  PROVE  "tl" \in DOMAIN Correct(c, before, at, measured)
         /\ Correct(c, before, at, measured).tl = c.tl
BY DEF Correct

LEMMA MeasureKeepsTimeline ==
  ASSUME NEW c, "tl" \in DOMAIN c, NEW m, NEW at
  PROVE  "tl" \in DOMAIN Measure(c, m, at) /\ Measure(c, m, at).tl = c.tl
<1> DEFINE next == Remapped(c, m, at)
<1>1. "tl" \in DOMAIN next /\ next.tl = c.tl
  BY DEF Remapped
<1>2. ASSUME NEW disc PROVE "tl" \in DOMAIN Jumped(next, disc) /\ Jumped(next, disc).tl = next.tl
  BY <1>1 DEF Jumped
<1>3. ASSUME NEW before
      PROVE  /\ "tl" \in DOMAIN Correct(next, before, at, TRUE)
             /\ Correct(next, before, at, TRUE).tl = next.tl
  BY <1>1, CorrectKeepsTimeline
<1> HIDE DEF next
<1>4. "tl" \in DOMAIN AcceptMeasurement(c, m, at) /\ AcceptMeasurement(c, m, at).tl = c.tl
  BY <1>1, <1>2, <1>3 DEF AcceptMeasurement, next
<1> QED
  BY <1>4 DEF Measure

(* A snapshot is adopted, as it came or advanced, or nothing is: and one   *)
(* of the session at hand only if its revision is higher.                  *)
LEMMA StateAdopts ==
  ASSUME NEW c, Holds(c), NEW t, Named(t), NEW at
  PROVE  /\ Holds(State(c, t, at))
         /\ \/ SameName(c.tl, State(c, t, at).tl)
            \/ /\ SameName(t, State(c, t, at).tl)
               /\ t.session = c.tl.session => ~(t.rev <= c.tl.rev)
<1> DEFINE next == [c EXCEPT !.tl = Advanced(c, t, at), !.expected = t.session]
<1>1. SameName(t, Advanced(c, t, at))
  BY LatchKeepsName DEF Advanced
<1>2. "tl" \in DOMAIN next /\ next.tl = Advanced(c, t, at)
  BY DEF Holds
<1> HIDE DEF next
<1>3. ASSUME NEW disc PROVE "tl" \in DOMAIN Jumped(next, disc) /\ Jumped(next, disc).tl = next.tl
  BY <1>2 DEF Jumped
<1>4. ASSUME NEW before
      PROVE  /\ "tl" \in DOMAIN Correct(next, before, at, FALSE)
             /\ Correct(next, before, at, FALSE).tl = next.tl
  BY <1>2, CorrectKeepsTimeline
<1>5. "tl" \in DOMAIN AdoptRevision(c, t, at) /\ AdoptRevision(c, t, at).tl = Advanced(c, t, at)
  BY <1>2, <1>3, <1>4 DEF AdoptRevision, next
<1>6. "tl" \in DOMAIN AdoptSession(c, t) /\ AdoptSession(c, t).tl = t
  BY DEF AdoptSession, Holds
<1>7. ASSUME NEW d, "tl" \in DOMAIN d, d.tl = c.tl
      PROVE  Holds(d) /\ SameName(c.tl, d.tl)
  BY <1>7 DEF Holds, SameName
<1>8. CASE State(c, t, at) = AdoptRevision(c, t, at) /\ ~(t.rev <= c.tl.rev)
  BY <1>1, <1>5, <1>8 DEF Holds, SameName
<1>9. CASE State(c, t, at) = AdoptSession(c, t) /\ c.tl.session # t.session
  BY <1>6, <1>9 DEF Holds, SameName
<1>10. CASE "tl" \in DOMAIN State(c, t, at) /\ State(c, t, at).tl = c.tl
  BY <1>7, <1>10
<1> QED
  BY <1>8, <1>9, <1>10 DEF State, Holds

-----------------------------------------------------------------------------
(* What a leader's own steps do to what it and its peers hold.             *)
LEMMA PromoteKeepsName ==
  ASSUME NEW t, Named(t), NEW at
  PROVE  SameName(t, L!Promote(t, at))
BY DEF L!Promote, L!AdvanceTo, Named, SameName

LEMMA CommandKeepsName ==
  ASSUME LeadersInv, Command
  PROVE  SameName(tl, tl') /\ UNCHANGED <<bytes, past, core, link, flight>>
<1>1. Named(tl)
  BY DEF LeadersInv, SameName
<1>2. ASSUME NEW c \in COMMANDS, NEW effective, L!ChangeCmd(c, effective)
      PROVE  SameName(tl, tl') /\ UNCHANGED bytes
  <2>1. PICK time : tl' = L!ChangeTimeline(tl, c, time, now) /\ UNCHANGED bytes
    BY <1>2 DEF L!ChangeCmd
  <2> QED
    BY <1>1, <2>1 DEF L!ChangeTimeline, SameName, Named
<1>3. ASSUME NEW part \in PARTS, L!SessionIdCmd(part)
      PROVE  SameName(tl, tl') /\ UNCHANGED bytes
  BY <1>1, <1>3 DEF L!SessionIdCmd, SameName, Named
<1>4. ASSUME NEW s \in SAMPLES, L!SampleCmd(s)
      PROVE  SameName(tl, tl') /\ UNCHANGED bytes
  <2>1. tl' = L!TrackedTimeline(tracker, tl, s) /\ UNCHANGED bytes
    BY <1>4 DEF L!SampleCmd
  <2> QED
    BY <1>1, <2>1 DEF L!TrackedTimeline, SameName, Named
<1> QED
  BY <1>2, <1>3, <1>4 DEF Command, ends

LEMMA PassPublishes ==
  ASSUME LeadersInv, Pass
  PROVE  /\ \/ UNCHANGED <<tl, bytes>>
            \/ /\ bytes' = tl' /\ Named(tl')
               /\ tl'.session = tl.session /\ tl'.rev = tl.rev + 1
         /\ UNCHANGED <<past, core, link>>
<1>1. Named(tl)
  BY DEF LeadersInv, SameName
<1>2. SameName(tl, L!Promote(tl, now))
  BY <1>1, PromoteKeepsName
<1>3. SameName(tl, L!Settled)
  BY <1>2 DEF L!Settled, SameName, Named
<1>4. \/ UNCHANGED <<tl, bytes>>
      \/ tl' = [L!Settled EXCEPT !.rev = L!Settled.rev + 1] /\ bytes' = tl'
  BY DEF Pass, L!FinishPass
<1>5. UNCHANGED <<past, core, link>>
  BY DEF Pass, ends
<1> QED
  BY <1>3, <1>4, <1>5 DEF SameName, Named

-----------------------------------------------------------------------------
(* The leaders so far: those that were restarted, and the one that lives.  *)
LEMMA ErasShape ==
  ASSUME NEW p \in Seq(EraShape), NEW e \in EraShape
  PROVE  /\ Append(p, e) \in Seq(EraShape)
         /\ Len(p) \in Nat /\ Len(Append(p, e)) = Len(p) + 1
         /\ \A i \in 1..Len(p) : Append(p, e)[i] = p[i] /\ p[i] \in EraShape
         /\ Append(p, e)[Len(p) + 1] = e
BY AppendProperties, LenProperties, ElementOfSeq

LEMMA ErasType ==
  ASSUME LeadersInv
  PROVE  /\ Eras \in Seq(EraShape)
         /\ Len(past) \in Nat /\ Len(Eras) = Len(past) + 1
         /\ \A i \in 1..Len(past) : Eras[i] = past[i]
         /\ \A i \in 1..Len(Eras) : Eras[i].session \in SESSIONS /\ Eras[i].rev \in Nat \ {0}
         /\ Eras[Len(past) + 1] = [session |-> tl.session, rev |-> bytes.rev]
<1>1. [session |-> tl.session, rev |-> bytes.rev] \in EraShape /\ past \in Seq(EraShape)
  BY DEF LeadersInv, SameName, EraShape
<1>2. PICK e : e = [session |-> tl.session, rev |-> bytes.rev]
  OBVIOUS
<1>3. Eras = Append(past, e)
  BY <1>2 DEF Eras
<1>4. /\ Append(past, e) \in Seq(EraShape)
      /\ Len(past) \in Nat /\ Len(Append(past, e)) = Len(past) + 1
      /\ \A i \in 1..Len(past) : Append(past, e)[i] = past[i] /\ past[i] \in EraShape
      /\ Append(past, e)[Len(past) + 1] = e
  BY <1>1, <1>2, ErasShape
<1>5. \A i \in 1..Len(Eras) : Eras[i] \in EraShape
  BY <1>1, <1>2, <1>3, <1>4
<1> QED
  BY <1>2, <1>3, <1>4, <1>5 DEF EraShape

(* The follower holds a revision of the leader that published it.          *)
LEMMA EraIndex ==
  ASSUME NEW q \in Seq(EraShape), NEW s,
         \A i, j \in 1..Len(q) : q[i].session = q[j].session => i = j
  PROVE  LET found == {i \in 1..Len(q) : q[i].session = s}
         IN  /\ s = NONE => Max(found \cup {0}) = 0
             /\ \A e \in 1..Len(q) : q[e].session = s => Max(found \cup {0}) = e
<1> DEFINE found == {i \in 1..Len(q) : q[i].session = s}
<1>1. /\ Len(q) \in Nat
      /\ \A i \in 1..Len(q) : q[i].session \in SESSIONS
  <2>1. Len(q) \in Nat /\ \A i \in 1..Len(q) : q[i] \in EraShape
    BY LenProperties, ElementOfSeq
  <2> QED
    BY <2>1 DEF EraShape
<1>2. NONE \notin SESSIONS
  BY NoneAssumption
<1>3. ASSUME s = NONE PROVE Max(found \cup {0}) = 0
  <2>1. found \cup {0} = {0}
    BY <1>1, <1>2, <1>3
  <2>2. Max({0}) = 0
    BY MaxBounded
  <2> QED
    BY <1>1, <1>2, <1>3, <2>1, <2>2
<1>4. ASSUME NEW e \in 1..Len(q), q[e].session = s
      PROVE  Max(found \cup {0}) = e /\ s # NONE
  <2>1. found = {e}
    BY <1>4
  <2>2. {e} \cup {0} \in SUBSET (0..Len(q)) /\ e \in Nat
    BY <1>1
  <2>3. /\ Max({e} \cup {0}) \in {e} \cup {0}
        /\ \A d \in {e} \cup {0} : d <= Max({e} \cup {0})
    BY <1>1, <2>2, MaxBounded
  <2>4. Max({e} \cup {0}) = e
    <3>1. PICK m : m = Max({e} \cup {0})
      OBVIOUS
    <3>2. m \in {e, 0} /\ e <= m
      BY <2>3, <3>1
    <3>3. m = e
      BY <2>2, <3>2
    <3> QED
      BY <3>1, <3>3
  <2> QED
    BY <1>1, <1>2, <1>4, <2>1, <2>4
<1> HIDE DEF found
<1>5. /\ s = NONE => Max(found \cup {0}) = 0
      /\ \A e \in 1..Len(q) : q[e].session = s => Max(found \cup {0}) = e
  BY <1>3, <1>4
<1> QED
  BY <1>5 DEF found

LEMMA HeldIs ==
  ASSUME LeadersInv
  PROVE  /\ core.tl.session = NONE => Held = <<0, core.tl.rev>>
         /\ \A e \in 1..Len(Eras) :
              Eras[e].session = core.tl.session => Held = <<e, core.tl.rev>>
<1>1. PICK s : s = core.tl.session
  OBVIOUS
<1>2. PICK q : q = Eras
  OBVIOUS
<1>3. q \in Seq(EraShape) /\ \A i, j \in 1..Len(q) : q[i].session = q[j].session => i = j
  BY <1>2, ErasType DEF LeadersInv
<1>4. PICK found : found = {i \in 1..Len(q) : q[i].session = s}
  OBVIOUS
<1>5. /\ s = NONE => Max(found \cup {0}) = 0
      /\ \A e \in 1..Len(q) : q[e].session = s => Max(found \cup {0}) = e
  BY <1>3, <1>4, EraIndex
<1>6. Held = <<Max(found \cup {0}), core.tl.rev>>
  BY <1>1, <1>2, <1>4 DEF Held, EraOf
<1> QED
  BY <1>1, <1>2, <1>5, <1>6

LEMMA InitReplica == Init => ReplicaInv /\ R!Init
<1> SUFFICES ASSUME Init PROVE ReplicaInv /\ R!Init
  OBVIOUS
<1>1. PICK s \in SESSIONS, p \in PARTS, f \in FORMATS :
        tl = L!InitialTimeline(s, p, f, 0, 0, START)
  BY DEF Init, L!Init
<1>2. bytes = tl /\ past = <<>> /\ flight = {} /\ link = NONE /\ core = NewCore
  BY DEF Init, L!Init
<1>3. Named(tl) /\ tl.session = s /\ tl.rev = 1
  BY <1>1 DEF L!InitialTimeline, Named
<1>4. Eras = <<[session |-> s, rev |-> 1]>> /\ Len(Eras) = 1
  BY <1>2, <1>3 DEF Eras
<1>5. LeadersInv
  BY <1>2, <1>3, <1>4, EmptySeq DEF LeadersInv, SameName
<1>6. FlightInv
  BY <1>2 DEF FlightInv
<1>7. core.tl = FallbackTimeline /\ "tl" \in DOMAIN core
  BY <1>2 DEF NewCore
<1>8. Nothing /\ Named(core.tl)
  BY <1>7 DEF Nothing, Named, FallbackTimeline
<1>9. HeldInv
  BY <1>4, <1>7, <1>8 DEF HeldInv
<1>10. R!Init
  BY <1>4, <1>5, <1>8, HeldIs DEF R!Init, Nothing
<1> QED
  BY <1>5, <1>6, <1>9, <1>10 DEF ReplicaInv

-----------------------------------------------------------------------------
(* As leaders publish and follow one another, what was published stays so. *)
Grown ==
  \A e \in 1..Len(Eras) : /\ e \in 1..Len(Eras') /\ Eras'[e].session = Eras[e].session
                          /\ Eras'[e].rev \in Nat /\ Eras[e].rev <= Eras'[e].rev

LEMMA StaysPublished ==
  ASSUME LeadersInv, Grown, NEW t, Published(t)
  PROVE  Published(t)'
<1>1. PICK e \in 1..Len(Eras) : Eras[e].session = t.session /\ t.rev \in 1..Eras[e].rev
  BY DEF Published, PublishedBy
<1>2. /\ e \in 1..Len(Eras') /\ Eras'[e].session = t.session
      /\ Eras'[e].rev \in Nat /\ Eras[e].rev \in Nat /\ Eras[e].rev <= Eras'[e].rev
  BY <1>1, ErasType DEF Grown
<1>3. t.rev \in 1..Eras'[e].rev
  BY <1>1, <1>2
<1> QED
  BY <1>2, <1>3 DEF Published, PublishedBy, Named

(* A step that changes neither what leaders published nor the follower.    *)
LEMMA StutterStep ==
  ASSUME ReplicaInv, LeadersInv', UNCHANGED <<Eras, core, link>>, flight' \subseteq flight
  PROVE  ReplicaInv' /\ UNCHANGED R!vars
<1>1. FlightInv' /\ HeldInv'
  BY DEF ReplicaInv, FlightInv, HeldInv, Nothing, Published, PublishedBy
<1>2. Held' = Held
  BY DEF Held, EraOf
<1> QED
  BY <1>1, <1>2 DEF ReplicaInv, R!vars

LEMMA CommandStep == ASSUME ReplicaInv, Command PROVE ReplicaInv' /\ UNCHANGED R!vars
<1>1. LeadersInv
  BY DEF ReplicaInv
<1>2. SameName(tl, tl') /\ UNCHANGED <<bytes, past, core, link, flight>>
  BY <1>1, CommandKeepsName
<1>3. Eras' = Eras
  BY <1>2 DEF Eras, SameName
<1>4. LeadersInv'
  BY <1>1, <1>2, <1>3 DEF LeadersInv, SameName
<1> QED
  BY <1>2, <1>3, <1>4, StutterStep

LEMMA PassStep == ASSUME ReplicaInv, Pass PROVE ReplicaInv' /\ [R!Next]_R!vars
<1>1. LeadersInv
  BY DEF ReplicaInv
<1>2. UNCHANGED <<past, core, link>>
  BY <1>1, PassPublishes
<1>3. CASE UNCHANGED <<tl, bytes>>
  <2>1. Eras' = Eras /\ flight' = flight
    BY <1>2, <1>3 DEF Eras, Pass
  <2>2. LeadersInv'
    BY <1>1, <1>2, <1>3, <2>1 DEF LeadersInv
  <2> QED
    BY <1>2, <2>1, <2>2, StutterStep
<1>4. CASE /\ bytes' = tl' /\ Named(tl')
           /\ tl'.session = tl.session /\ tl'.rev = tl.rev + 1
  <2>1. /\ Eras \in Seq(EraShape) /\ Len(past) \in Nat /\ Len(Eras) = Len(past) + 1
        /\ \A i \in 1..Len(past) : Eras[i] = past[i]
        /\ \A i \in 1..Len(Eras) : Eras[i].session \in SESSIONS /\ Eras[i].rev \in Nat \ {0}
        /\ Eras[Len(past) + 1] = [session |-> tl.session, rev |-> bytes.rev]
    BY <1>1, ErasType
  <2>2. /\ tl.session \in SESSIONS /\ tl.rev \in Nat \ {0} /\ bytes.rev = tl.rev
        /\ past \in Seq(EraShape)
    BY <1>1 DEF LeadersInv, SameName
  <2>3. PICK e \in EraShape : e = [session |-> tl.session, rev |-> tl.rev + 1]
    <3>1. tl.rev + 1 \in Nat \ {0}
      BY <2>2
    <3>2. [session |-> tl.session, rev |-> tl.rev + 1] \in EraShape
      BY <2>2, <3>1 DEF EraShape
    <3> QED
      BY <3>2
  <2>4. Eras' = Append(past, e)
    BY <1>2, <1>4, <2>3 DEF Eras
  <2>5. /\ Len(Eras') = Len(past) + 1 /\ \A i \in 1..Len(past) : Eras'[i] = past[i]
        /\ Eras'[Len(past) + 1] = e
    BY <2>2, <2>4, ErasShape
  <2>6. Grown
    BY <2>1, <2>2, <2>3, <2>5 DEF Grown
  <2>7. \A i \in 1..Len(Eras') : i \in 1..Len(Eras) /\ Eras'[i].session = Eras[i].session
    BY <2>1, <2>5, <2>6 DEF Grown
  <2>8. LeadersInv'
    BY <1>1, <1>2, <1>4, <2>2, <2>7 DEF LeadersInv, SameName
  <2>9. Published(bytes)'
    <3>1. Len(past) + 1 \in 1..Len(Eras')
      BY <2>1, <2>5
    <3>2. /\ Eras'[Len(past) + 1].session = bytes'.session
          /\ Eras'[Len(past) + 1].rev = bytes'.rev /\ bytes'.rev \in 1..bytes'.rev
      BY <1>4, <2>2, <2>3, <2>5
    <3> QED
      BY <1>4, <3>1, <3>2 DEF Published, PublishedBy, Named
  <2>10. FlightInv'
    <3>1. flight' = flight \/ (link = tl.session /\ flight' = flight \cup {bytes'})
      BY DEF Pass
    <3>2. ASSUME NEW t \in flight' PROVE Published(t)' /\ t.session = link
      <4>1. CASE t \in flight
        <5>1. Published(t) /\ t.session = link
          BY <4>1 DEF ReplicaInv, FlightInv
        <5> QED
          BY <1>1, <2>6, <5>1, StaysPublished
      <4>2. CASE t = bytes' /\ link = tl.session
        BY <1>4, <2>9, <4>2 DEF Published, PublishedBy
      <4> QED
        BY <3>1, <3>2, <4>1, <4>2
    <3>3. link # NONE => \E i \in 1..Len(Eras') : Eras'[i].session = link
      BY <2>6 DEF ReplicaInv, FlightInv, Grown
    <3>4. link = NONE => flight' = {}
      BY <2>2, <3>1, NoneAssumption DEF ReplicaInv, FlightInv
    <3> QED
      BY <1>2, <3>2, <3>3, <3>4 DEF FlightInv
  <2>11. HeldInv'
    <3>1. PICK t : t = core.tl
      OBVIOUS
    <3>2. Nothing \/ Published(t)'
      BY <1>1, <2>6, <3>1, StaysPublished DEF ReplicaInv, HeldInv
    <3> QED
      BY <1>2, <2>7, <3>1, <3>2 DEF ReplicaInv, HeldInv, Nothing, Published, PublishedBy, Named
  <2>12. R!Publish
    <3>1. Eras' = [Eras EXCEPT ![Len(Eras)].rev = @ + 1]
      <4>1. PICK n : n = Len(past) + 1
        OBVIOUS
      <4>2. Eras[n] = [session |-> tl.session, rev |-> tl.rev] /\ n \in 1..Len(Eras)
        BY <2>1, <2>2, <4>1
      <4>3. [Eras[n] EXCEPT !.rev = Eras[n].rev + 1] = e
        BY <2>3, <4>2
      <4>4. [Eras EXCEPT ![n].rev = @ + 1] = [Eras EXCEPT ![n] = e]
        BY <4>3
      <4>5. /\ [Eras EXCEPT ![n] = e] \in Seq(EraShape)
            /\ Len([Eras EXCEPT ![n] = e]) = Len(Eras)
            /\ \A i \in 1..Len(Eras) : [Eras EXCEPT ![n] = e][i] = IF i = n THEN e ELSE Eras[i]
        BY <2>1, <4>2, ExceptSeq
      <4>6. Eras' \in Seq(EraShape)
        BY <2>2, <2>4, ErasShape
      <4>7. PICK q \in Seq(EraShape) : q = [Eras EXCEPT ![n] = e]
        BY <4>5
      <4>8. /\ Len(q) = Len(Eras')
            /\ \A i \in 1..Len(q) : q[i] = Eras'[i]
        BY <2>1, <2>5, <4>1, <4>5, <4>7
      <4>9. q = Eras'
        BY <4>6, <4>8, SeqEqual
      <4> QED
        BY <2>1, <4>1, <4>4, <4>7, <4>9
    <3>2. Held' = Held
      <4>1. EraOf(core.tl.session)' = EraOf(core.tl.session)
        BY <1>2, <2>1, <2>5, <2>7 DEF EraOf
      <4> QED
        BY <1>2, <4>1 DEF Held
    <3> QED
      BY <3>1, <3>2 DEF R!Publish
  <2> QED
    BY <2>8, <2>10, <2>11, <2>12 DEF ReplicaInv, R!Next
<1> QED
  BY <1>1, <1>3, <1>4, PassPublishes

(* The session of a new leader is one that nobody has heard of.            *)
LEMMA Unheard ==
  ASSUME ReplicaInv, NEW s \in SESSIONS, Restart(s)
  PROVE  /\ \A i \in 1..Len(Eras) : Eras[i].session # s
         /\ core.tl.session # s /\ link # s
<1>1. /\ Len(past) \in Nat /\ Len(Eras) = Len(past) + 1
      /\ \A i \in 1..Len(past) : Eras[i] = past[i]
      /\ Eras[Len(past) + 1] = [session |-> tl.session, rev |-> bytes.rev]
  BY ErasType DEF ReplicaInv
<1>2. \A i \in 1..Len(Eras) : Eras[i].session # s
  BY <1>1 DEF Restart, Used
<1>3. core.tl.session # s /\ link # s
  BY <1>2, NoneAssumption DEF ReplicaInv, HeldInv, FlightInv, Nothing, Published, PublishedBy
<1> QED
  BY <1>2, <1>3

(* A new leader has a name of its own, and nobody has heard of it.         *)
LEMMA RestartStep ==
  ASSUME ReplicaInv, NEW s \in SESSIONS, Restart(s)
  PROVE  ReplicaInv' /\ R!Restart(s)
<1>1. LeadersInv
  BY DEF ReplicaInv
<1>2. /\ Eras \in Seq(EraShape) /\ Len(past) \in Nat /\ Len(Eras) = Len(past) + 1
      /\ \A i \in 1..Len(past) : Eras[i] = past[i]
      /\ \A i \in 1..Len(Eras) : Eras[i].session \in SESSIONS /\ Eras[i].rev \in Nat \ {0}
      /\ Eras[Len(past) + 1] = [session |-> tl.session, rev |-> bytes.rev]
  BY <1>1, ErasType
<1>3. PICK e \in EraShape : e = [session |-> s, rev |-> 1]
  <2>1. [session |-> s, rev |-> 1] \in EraShape
    BY DEF EraShape
  <2> QED
    BY <2>1
<1>4. /\ past' = Eras /\ bytes' = tl' /\ Named(tl') /\ tl'.session = s /\ tl'.rev = 1
      /\ UNCHANGED <<core, link, flight>>
  BY DEF Restart, L!InitialTimeline, ends, Eras, Named
<1>5. Eras' = Append(Eras, e)
  BY <1>3, <1>4 DEF Eras
<1>6. /\ Len(Eras') = Len(Eras) + 1 /\ \A i \in 1..Len(Eras) : Eras'[i] = Eras[i]
      /\ Eras'[Len(Eras) + 1] = e
  BY <1>2, <1>5, ErasShape
<1>7. (\A i \in 1..Len(Eras) : Eras[i].session # s) /\ core.tl.session # s /\ link # s
  BY Unheard
<1>8. Grown
  BY <1>2, <1>6 DEF Grown
<1>9. LeadersInv'
  <2>1. \A i, j \in 1..Len(Eras') : Eras'[i].session = Eras'[j].session => i = j
    <3> SUFFICES ASSUME NEW i \in 1..Len(Eras'), NEW j \in 1..Len(Eras'),
                        Eras'[i].session = Eras'[j].session
                 PROVE  i = j
      OBVIOUS
    <3>1. CASE i \in 1..Len(Eras) /\ j \in 1..Len(Eras)
      BY <1>1, <1>6, <3>1 DEF LeadersInv
    <3>2. CASE i = Len(Eras) + 1 /\ j \in 1..Len(Eras)
      BY <1>3, <1>6, <1>7, <3>2
    <3>3. CASE j = Len(Eras) + 1 /\ i \in 1..Len(Eras)
      BY <1>3, <1>6, <1>7, <3>3
    <3> QED
      BY <1>2, <1>6, <3>1, <3>2, <3>3
  <2> QED
    BY <1>2, <1>4, <2>1 DEF LeadersInv, SameName
<1>10. FlightInv'
  <2>1. \A t \in flight : Published(t)' /\ t.session = link
    BY <1>1, <1>8, StaysPublished DEF ReplicaInv, FlightInv
  <2>2. link # NONE => \E i \in 1..Len(Eras') : Eras'[i].session = link
    BY <1>8 DEF ReplicaInv, FlightInv, Grown
  <2> QED
    BY <1>4, <2>1, <2>2 DEF ReplicaInv, FlightInv
<1>11. HeldInv'
  <2>1. PICK t : t = core.tl
    OBVIOUS
  <2>2. Nothing \/ Published(t)'
    BY <1>1, <1>8, <2>1, StaysPublished DEF ReplicaInv, HeldInv
  <2>3. \A i \in 1..Len(Eras') :
          Eras'[i].session \in {core.tl.session, link} =>
            i \in 1..Len(Eras) /\ Eras'[i].session = Eras[i].session
    BY <1>2, <1>3, <1>6, <1>7
  <2> QED
    BY <1>4, <2>1, <2>2, <2>3
       DEF ReplicaInv, HeldInv, Nothing, Published, PublishedBy, Named
<1>12. Held' = Held
  <2>1. EraOf(core.tl.session)' = EraOf(core.tl.session)
    BY <1>2, <1>3, <1>4, <1>6, <1>7 DEF EraOf
  <2> QED
    BY <1>4, <2>1 DEF Held
<1> QED
  BY <1>3, <1>5, <1>7, <1>9, <1>10, <1>11, <1>12 DEF ReplicaInv, R!Restart

(* The steps of the follower and of the network leave the leaders alone.   *)
LEMMA LeadersStay ==
  ASSUME ReplicaInv, UNCHANGED <<leader, past>>
  PROVE  LeadersInv' /\ Eras' = Eras
BY DEF ReplicaInv, LeadersInv, SameName, Named, leader, Eras

(* What a connection sets, and its loss, keeps the name of what is held.   *)
LEMMA LinkKeepsName ==
  ASSUME NEW c, Holds(c), NEW at
  PROVE  /\ Holds(TickCore(Connected(c), at)) /\ SameName(c.tl, TickCore(Connected(c), at).tl)
         /\ Holds(TickCore(Disconnected(c), at))
         /\ SameName(c.tl, TickCore(Disconnected(c), at).tl)
<1>1. PICK d : d = Connected(c)
  OBVIOUS
<1>2. PICK e : e = Disconnected(c)
  OBVIOUS
<1>3. "tl" \in DOMAIN d /\ d.tl = c.tl /\ "tl" \in DOMAIN e /\ e.tl = c.tl
  BY <1>1, <1>2 DEF Connected, Disconnected, Holds
<1>4. Holds(d) /\ Holds(e)
  BY <1>3 DEF Holds
<1> QED
  BY <1>1, <1>2, <1>3, <1>4, TickKeepsName

LEMMA LinkStep ==
  ASSUME ReplicaInv, Connect \/ Disconnect, UNCHANGED <<leader, past>>
  PROVE  ReplicaInv' /\ UNCHANGED R!vars
<1>1. LeadersInv /\ LeadersInv' /\ Eras' = Eras
  BY LeadersStay DEF ReplicaInv
<1>2. Holds(core') /\ SameName(core.tl, core'.tl)
  BY LinkKeepsName DEF Connect, Disconnect, ReplicaInv, HeldInv, Holds
<1>3. UNCHANGED R!vars
  BY <1>1, <1>2 DEF R!vars, Held, EraOf, SameName
<1>4. Nothing' \/ Published(core.tl)'
  BY <1>1, <1>2 DEF ReplicaInv, HeldInv, Nothing, Published, PublishedBy, SameName
<1>5. CASE Connect
  <2>1. /\ Len(past) + 1 \in 1..Len(Eras) /\ Eras[Len(past) + 1].session = tl.session
        /\ Eras[Len(past) + 1].rev = bytes.rev /\ Len(Eras) = Len(past) + 1
        /\ Len(past) \in Nat
    BY <1>1, ErasType
  <2>2. link' = tl.session /\ flight' = {bytes}
    BY <1>5 DEF Connect, FirstGroups
  <2>3. Published(bytes) /\ bytes.session = tl.session
    BY <1>1, <2>1 DEF LeadersInv, SameName, Published, PublishedBy
  <2>4. FlightInv'
    <3>1. tl.session # NONE
      BY <1>1, NoneAssumption DEF LeadersInv
    <3> QED
      BY <1>1, <2>1, <2>2, <2>3, <3>1 DEF FlightInv, Published, PublishedBy
  <2>5. HeldInv'
    <3>1. \A i, j \in 1..Len(Eras) : Eras[j].session = tl.session => i <= j
      BY <1>1, <2>1 DEF LeadersInv
    <3> QED
      BY <1>1, <1>2, <1>4, <2>2, <3>1 DEF HeldInv, Holds
  <2> QED
    BY <1>1, <1>3, <2>4, <2>5 DEF ReplicaInv
<1>6. CASE Disconnect
  <2>1. link' = NONE /\ flight' = {}
    BY <1>6 DEF Disconnect
  <2>2. FlightInv'
    BY <2>1 DEF FlightInv
  <2>3. \A j \in 1..Len(Eras) : Eras[j].session # NONE
    BY <1>1, ErasType, NoneAssumption
  <2>4. HeldInv'
    BY <1>1, <1>2, <1>4, <2>1, <2>3 DEF HeldInv, Holds
  <2> QED
    BY <1>1, <1>3, <2>2, <2>4 DEF ReplicaInv
<1> QED
  BY <1>5, <1>6

(* A pass of the follower keeps what it holds or adopts what came.         *)
LEMMA FollowerPassStep ==
  ASSUME ReplicaInv, NEW m, NEW t \in flight \cup {NONE}, FollowerPass(m, t)
  PROVE  ReplicaInv' /\ [R!Next]_R!vars
<1>1. LeadersInv /\ LeadersInv' /\ Eras' = Eras /\ link' = link /\ flight' \subseteq flight
  BY LeadersStay DEF ReplicaInv, FollowerPass
<1>2. FlightInv'
  BY <1>1 DEF ReplicaInv, FlightInv, Published, PublishedBy
<1>3. PICK c : c = AfterReply(m)
  OBVIOUS
<1>4. Holds(c) /\ SameName(core.tl, c.tl)
  BY <1>3, MeasureKeepsTimeline DEF AfterReply, ReplicaInv, HeldInv, Holds, SameName
<1>5. PICK d : d = AfterGroup(c, t)
  OBVIOUS
<1>6. core' = TickCore(d, local)
  BY <1>3, <1>5 DEF FollowerPass
<1>7. CASE Holds(d) /\ SameName(core.tl, d.tl)
  <2>1. Holds(core') /\ SameName(core.tl, core'.tl)
    BY <1>6, <1>7, TickKeepsName DEF SameName
  <2>2. UNCHANGED R!vars
    BY <1>1, <2>1 DEF R!vars, Held, EraOf, SameName
  <2>3. HeldInv'
    BY <1>1, <2>1 DEF ReplicaInv, HeldInv, Nothing, Published, PublishedBy, SameName, Holds
  <2> QED
    BY <1>1, <1>2, <2>2, <2>3 DEF ReplicaInv
<1>8. CASE /\ t \in flight /\ Holds(d) /\ SameName(t, d.tl)
           /\ t.session = core.tl.session => ~(t.rev <= core.tl.rev)
  <2>1. Holds(core') /\ core'.tl.session = t.session /\ core'.tl.rev = t.rev
    BY <1>6, <1>8, TickKeepsName DEF SameName
  <2>2. t.session = link /\ Published(t)
    BY <1>8 DEF ReplicaInv, FlightInv
  <2>3. PICK e \in 1..Len(Eras) : Eras[e].session = t.session /\ t.rev \in 1..Eras[e].rev
    BY <2>2 DEF Published, PublishedBy
  <2>4. \A i \in 1..Len(Eras) : Eras[i].session = t.session => i = e
    BY <1>1, <2>3 DEF LeadersInv
  <2>5. Len(Eras) \in Nat /\ Eras[e].rev \in Nat
    BY <1>1, ErasType
  <2>6. HeldInv'
    <3>1. \A i, j \in 1..Len(Eras) : Eras[i].session = t.session /\ Eras[j].session = link
                                      => i <= j
      BY <2>2, <2>4, <2>5
    <3>2. Published(core.tl)'
      BY <1>1, <2>1, <2>2 DEF Published, PublishedBy, Holds
    <3> QED
      BY <1>1, <2>1, <3>1, <3>2 DEF HeldInv, Holds
  <2>7. Held' = <<e, t.rev>>
    <3>1. PICK q : q = Eras
      OBVIOUS
    <3>2. q \in Seq(EraShape) /\ \A i, j \in 1..Len(q) : q[i].session = q[j].session => i = j
      BY <1>1, <3>1, ErasType DEF LeadersInv
    <3>3. PICK found : found = {i \in 1..Len(q) : q[i].session = t.session}
      OBVIOUS
    <3>4. Max(found \cup {0}) = e
      BY <2>3, <3>1, <3>2, <3>3, EraIndex
    <3>5. EraOf(core.tl.session)' = found
      BY <1>1, <2>1, <3>1, <3>3 DEF EraOf
    <3> QED
      BY <2>1, <3>4, <3>5 DEF Held
  <2>8. R!Later(<<e, t.rev>>, Held)
    <3>1. CASE Nothing
      BY <1>1, <2>3, <2>5, <3>1, HeldIs DEF Nothing, R!Later
    <3>2. CASE Published(core.tl)
      <4>1. PICK i \in 1..Len(Eras) : /\ Eras[i].session = core.tl.session
                                     /\ core.tl.rev \in 1..Eras[i].rev
        BY <3>2 DEF Published, PublishedBy
      <4>2. Held = <<i, core.tl.rev>> /\ i <= e /\ Eras[i].rev \in Nat
        BY <1>1, <2>2, <2>3, <4>1, HeldIs, ErasType DEF ReplicaInv, HeldInv
      <4>3. CASE i = e
        <5>1. ~(t.rev <= core.tl.rev)
          BY <1>8, <2>3, <4>1, <4>3
        <5>2. t.rev > core.tl.rev
          BY <2>3, <2>5, <4>1, <4>2, <5>1
        <5> QED
          BY <4>2, <4>3, <5>2 DEF R!Later
      <4>4. CASE i # e
        BY <2>5, <4>2, <4>4 DEF R!Later
      <4> QED
        BY <4>3, <4>4
    <3> QED
      BY <3>1, <3>2 DEF ReplicaInv, HeldInv
  <2>9. R!Adopt
    BY <1>1, <2>3, <2>7, <2>8 DEF R!Adopt
  <2> QED
    BY <1>1, <1>2, <2>6, <2>9 DEF ReplicaInv, R!Next
<1>9. CASE t = NONE
  BY <1>4, <1>5, <1>7, <1>9 DEF AfterGroup
<1>10. CASE t # NONE
  <2>1. t \in flight /\ Named(t) /\ d = State(c, t, local)
    BY <1>5, <1>10 DEF AfterGroup, ReplicaInv, FlightInv, Published
  <2>2. /\ Holds(d)
        /\ \/ SameName(c.tl, d.tl)
           \/ SameName(t, d.tl) /\ (t.session = c.tl.session => ~(t.rev <= c.tl.rev))
    BY <1>4, <2>1, StateAdopts
  <2>3. CASE SameName(c.tl, d.tl)
    BY <1>4, <1>7, <2>2, <2>3 DEF SameName
  <2>4. CASE SameName(t, d.tl) /\ (t.session = c.tl.session => ~(t.rev <= c.tl.rev))
    BY <1>4, <1>8, <2>1, <2>2, <2>4 DEF SameName
  <2> QED
    BY <2>2, <2>3, <2>4
<1> QED
  BY <1>9, <1>10

-----------------------------------------------------------------------------
LEMMA ReplicaStep == ReplicaInv /\ [Next]_vars => ReplicaInv' /\ [R!Next]_R!vars
<1>1. SUFFICES ASSUME ReplicaInv, [Next]_vars PROVE ReplicaInv' /\ [R!Next]_R!vars
  OBVIOUS
<1>2. CASE Command
  BY <1>1, <1>2, CommandStep
<1>3. CASE Pass
  BY <1>1, <1>3, PassStep
<1>4. CASE Elapse
  <2>1. UNCHANGED <<tl, bytes, past, core, link, flight>>
    BY <1>4 DEF Elapse, L!Tick
  <2>2. LeadersInv' /\ Eras' = Eras
    BY <1>1, <2>1 DEF ReplicaInv, LeadersInv, SameName, Named, Eras
  <2> QED
    BY <1>1, <2>1, <2>2, StutterStep
<1>5. CASE \E s \in SESSIONS : Restart(s)
  <2>1. PICK s \in SESSIONS : Restart(s)
    BY <1>5
  <2>2. ReplicaInv' /\ R!Restart(s)
    BY <1>1, <2>1, RestartStep
  <2> QED
    BY <2>2 DEF R!Next
<1>6. CASE Connect \/ Break \/ NoticeDeath
  <2>1. (Connect \/ Disconnect) /\ UNCHANGED <<leader, past>>
    BY <1>6 DEF Connect, Break, NoticeDeath, Disconnect
  <2> QED
    BY <1>1, <2>1, LinkStep
<1>7. CASE \E m \in Exchanges \cup {NONE}, t \in flight \cup {NONE} : FollowerPass(m, t)
  BY <1>1, <1>7, FollowerPassStep
<1>8. CASE \E t \in flight : Lose(t)
  <2>1. UNCHANGED <<leader, past, core, link>> /\ flight' \subseteq flight
    BY <1>8 DEF Lose, ends
  <2> QED
    BY <1>1, <2>1, LeadersStay, StutterStep
<1>9. CASE UNCHANGED vars
  <2>1. UNCHANGED <<leader, past, core, link, flight>>
    BY <1>9 DEF vars, ends
  <2> QED
    BY <1>1, <2>1, LeadersStay, StutterStep
<1> QED
  BY <1>1, <1>2, <1>3, <1>4, <1>5, <1>6, <1>7, <1>8, <1>9 DEF Next

(* Whatever is reordered, superseded or lost, and whichever process is     *)
(* started again, the pair of engines behaves as Replica does: leaders     *)
(* publish revision after revision, and the follower replaces what it      *)
(* holds only by something published later (FollowerCore::state, and       *)
(* Connected, which forgets the expected session, of timeline.rs).         *)
THEOREM SessionReplicates == Spec => Replicates
<1>1. Init => ReplicaInv /\ R!Init
  BY InitReplica
<1>2. ReplicaInv /\ [Next]_vars => ReplicaInv' /\ [R!Next]_R!vars
  BY ReplicaStep
<1> QED
  BY <1>1, <1>2, PTL DEF Spec, Replicates, R!Spec

-----------------------------------------------------------------------------
(* The leader's operators on timelines, seen from here, are Timeline's.    *)
LEMMA SameMax == ASSUME NEW S PROVE L!Max(S) = Max(S)
BY DEF L!Max, Max

LEMMA SameActive == ASSUME NEW t, NEW at PROVE L!Active(t, at) = Active(t, at)
<1>1. L!DueAt(t, at) = DueAt(t, at)
  BY DEF L!DueAt, DueAt
<1> QED
  BY <1>1, SameMax DEF L!Active, Active

LEMMA SamePromote == ASSUME NEW t, NEW at PROVE L!Promote(t, at) = Promote(t, at)
<1>1. ASSUME NEW n PROVE L!AdvanceTo(t, n) = AdvanceTo(t, n)
  BY DEF L!AdvanceTo, AdvanceTo
<1> QED
  BY <1>1, SameMax DEF L!Promote, Promote

LEMMA SameAccepted ==
  ASSUME NEW t, NEW time, NEW at
  PROVE  L!ChangeAccepted(t, time, at) = ChangeAccepted(t, time, at)
BY DEF L!ChangeAccepted, ChangeAccepted, L!LastScheduled, LastScheduled

LEMMA SameChange ==
  ASSUME NEW t, NEW c, NEW time, NEW at
  PROVE  L!ChangeTimeline(t, c, time, at) = ChangeTimeline(t, c, time, at)
<1>1. L!FreshDisc(t, time) = FreshDisc(t, time)
  BY SameMax, SameActive DEF L!FreshDisc, FreshDisc, L!LastScheduled, LastScheduled
<1>2. ASSUME NEW seg, NEW x PROVE L!At(seg, x) = At(seg, x)
  BY DEF L!At, At
<1>3. L!ChangedSegment(t, c, time) = ChangedSegment(t, c, time)
  BY <1>1, <1>2, SameActive DEF L!ChangedSegment, ChangedSegment
<1> QED
  BY <1>3 DEF L!ChangeTimeline, ChangeTimeline

-----------------------------------------------------------------------------
(* While only controls move its anchor (a generated leader), a leader's    *)
(* snapshots go on from one another, in whatever order they travel, and    *)
(* each accounts for what the follower holds of an earlier one, however    *)
(* much of it the follower has applied already.                            *)
LeaderKeeps ==
  /\ now \in Nat /\ Orderly(tl) /\ Orderly(bytes)
  /\ tl.cur.time <= now /\ Len(tl.sched) <= MAX_SCHEDULED
  /\ Continues(tl, bytes)

FlightKeeps ==
  \A t \in flight :
    /\ Orderly(t)
    /\ t.session = tl.session => Continues(bytes, t)
    /\ \A u \in flight : t.rev < u.rev => Continues(u, t)

CoreKeeps ==
  /\ Coherent(core)
  /\ core.tl.session = tl.session => Accounts(bytes, core.tl)
  /\ \A u \in flight :
       u.session = core.tl.session /\ core.tl.rev < u.rev => Accounts(u, core.tl)

Bounds == [errors : SUBSET Int, commands : Nat, exchanges : Nat,
           breaks : Nat, losses : Nat, restarts : Nat]

AccountInv ==
  /\ ReplicaInv /\ LeaderKeeps /\ FlightKeeps /\ CoreKeeps
  /\ local \in Nat /\ env \in Bounds

LEMMA ContinuesOnward ==
  ASSUME NEW u, NEW b, NEW a, Orderly(u), Orderly(b), Orderly(a),
         Continues(u, b), Continues(b, a)
  PROVE  Continues(u, a)
BY SucceedsOnward DEF Continues, Orderly

LEMMA AccountsOnward ==
  ASSUME NEW u, NEW b, NEW a, Orderly(u), Orderly(b), Orderly(a),
         Continues(u, b), Accounts(b, a)
  PROVE  Accounts(u, a)
BY CoversOnward DEF Continues, Accounts, Orderly

LEMMA ContinuesAccounts ==
  ASSUME NEW u, NEW a, NEW p, Orderly(u), Continues(u, a), Applied(a, p)
  PROVE  Accounts(u, p)
BY SucceedsCovers DEF Continues, Accounts, Applied, Orderly

LEMMA AccountsApplied ==
  ASSUME NEW u, NEW a, NEW p, Orderly(u), Accounts(u, a), Applied(a, p)
  PROVE  Accounts(u, p)
BY DEF Accounts, Applied, Orderly

LEMMA ContinuesItself ==
  ASSUME NEW a, Orderly(a)
  PROVE  Continues(a, a)
BY SucceedsItself DEF Continues, Orderly

LEMMA SpendBounds ==
  ASSUME NEW what \in {"commands", "exchanges", "breaks", "losses", "restarts"},
         env \in Bounds, Spend(what)
  PROVE  /\ env' \in Bounds /\ env'[what] = env[what] - 1 /\ env[what] \in Nat \ {0}
         /\ env'.errors = env.errors
<1>1. PICK n : n = env[what] - 1
  OBVIOUS
<1>2. env[what] \in Nat \ {0} /\ n \in Nat
  BY <1>1 DEF Bounds, Spend
<1>3. env' = [env EXCEPT ![what] = n]
  BY <1>1 DEF Spend
<1> QED
  BY <1>1, <1>2, <1>3 DEF Bounds

-----------------------------------------------------------------------------
LEMMA FreshOrderly ==
  ASSUME NEW s \in SESSIONS, NEW p \in PARTS, NEW f \in FORMATS, NEW time \in Nat,
         NEW t, t = L!InitialTimeline(s, p, f, 0, 0, time)
  PROVE  Orderly(t) /\ t.cur.time = time /\ Len(t.sched) = 0
<1>1. PICK health \in HEALTH : health = IF KIND = "Tracked" THEN "Degraded" ELSE "Healthy"
  BY DEF HEALTH
<1>2. PICK cur \in Segment : cur = [disc |-> 0, time |-> time, pos |-> 0, rate |-> 0]
  <2>1. [disc |-> 0, time |-> time, pos |-> 0, rate |-> 0] \in Segment
    BY DEF Segment
  <2> QED
    BY <2>1
<1>3. t = [session |-> s, part |-> p, rev |-> 1, format |-> f, health |-> health,
           cur |-> cur, sched |-> <<>>]
  BY <1>1, <1>2 DEF L!InitialTimeline
<1>4. PICK none \in Seq(Segment) : none = <<>>
  BY EmptySeq
<1>5. t.sched = none /\ t.cur = cur /\ Len(none) = 0
  BY <1>3, <1>4
<1>6. t \in Timelines
  <2>1. t = [session |-> s, part |-> p, rev |-> 1, format |-> f, health |-> health,
             cur |-> cur, sched |-> none]
    BY <1>3, <1>4
  <2> QED
    BY <2>1 DEF Timelines
<1>7. Ascending(t)
  BY <1>5 DEF Ascending
<1> QED
  BY <1>2, <1>5, <1>6, <1>7 DEF Orderly

LEMMA AccountsInitially ==
  ASSUME KIND = "Generated", Init
  PROVE  AccountInv
<1>1. ReplicaInv
  BY InitReplica
<1>2. PICK s \in SESSIONS, p \in PARTS, f \in FORMATS :
        tl = L!InitialTimeline(s, p, f, 0, 0, START)
  BY DEF Init, L!Init
<1>3. /\ bytes = tl /\ now = START /\ START \in Nat /\ flight = {} /\ core = NewCore
      /\ local \in Nat /\ env \in Bounds
  BY SessionAssumption DEF Init, L!Init, Bounds
<1>4. Orderly(tl) /\ tl.cur.time = START /\ Len(tl.sched) = 0
  BY <1>2, <1>3, FreshOrderly
<1>5. LeaderKeeps
  BY <1>3, <1>4, ContinuesItself, MaxScheduledAssumption DEF LeaderKeeps
<1>6. tl.session # NONE
  BY <1>4, SnapshotType DEF Orderly
<1>7. CoreKeeps /\ FlightKeeps
  BY <1>3, <1>6, NewCoherent DEF CoreKeeps, FlightKeeps
<1> QED
  BY <1>1, <1>3, <1>5, <1>7 DEF AccountInv

(* A step of the leader: its timeline goes on from the one it encoded.     *)
LEMMA CommandContinues ==
  ASSUME KIND = "Generated", LeaderKeeps, Command
  PROVE  LeaderKeeps' /\ tl'.session = tl.session
<1>1. tl \in Timelines /\ Ascending(tl)
  BY DEF LeaderKeeps, Orderly
<1>2. SUFFICES
        /\ UNCHANGED <<now, bytes>>
        /\ Orderly(tl') /\ tl'.cur.time <= now /\ Len(tl'.sched) <= MAX_SCHEDULED
        /\ Continues(tl', tl) /\ tl'.session = tl.session
  BY <1>2, ContinuesOnward DEF LeaderKeeps
<1>3. CASE \E c \in COMMANDS, effective \in TIMES \cup {NONE} : L!ChangeCmd(c, effective)
  <2>1. PICK c \in COMMANDS, effective \in TIMES \cup {NONE} : L!ChangeCmd(c, effective)
    BY <1>3
  <2>2. PICK time : time = IF effective = NONE THEN now ELSE effective
    OBVIOUS
  <2>3. /\ ChangeAccepted(tl, time, now) /\ tl' = ChangeTimeline(tl, c, time, now)
        /\ UNCHANGED <<now, bytes>>
    BY <2>1, <2>2, SameAccepted, SameChange DEF L!ChangeCmd
  <2>4. time \in Nat /\ now \in Nat /\ c \in Changes
    BY <2>2, SessionAssumption DEF LeaderKeeps
  <2>5. PICK n : n = ChangeTimeline(tl, c, time, now)
    OBVIOUS
  <2>6. n \in Timelines /\ Ascending(n) /\ n.cur.time <= now /\ Len(n.sched) <= MAX_SCHEDULED
    BY <1>1, <2>3, <2>4, <2>5, ChangeTimelineShape DEF LeaderKeeps
  <2>7. n.session = tl.session /\ n.format = tl.format /\ Succeeds(n, tl)
    BY <1>1, <2>4, <2>5, ChangeSucceeds
  <2> QED
    BY <2>3, <2>5, <2>6, <2>7 DEF Orderly, Continues
<1>4. CASE \E part \in PARTS : L!SessionIdCmd(part)
  <2>1. PICK part \in PARTS : L!SessionIdCmd(part)
    BY <1>4
  <2>2. PICK n : n = [tl EXCEPT !.part = part]
    OBVIOUS
  <2>3. /\ n \in Timelines /\ n.session = tl.session /\ n.format = tl.format
        /\ n.cur = tl.cur /\ n.sched = tl.sched
    BY <1>1, <2>2 DEF Timelines
  <2>4. Ascending(n)
    BY <1>1, <2>3 DEF Ascending
  <2>5. Succeeds(n, tl)
    BY <1>1, <2>3, SucceedsItself DEF Succeeds, Segments
  <2>6. tl' = n /\ UNCHANGED <<now, bytes>>
    BY <2>1, <2>2 DEF L!SessionIdCmd
  <2> QED
    BY <2>3, <2>4, <2>5, <2>6 DEF Orderly, Continues, LeaderKeeps
<1>5. ~ \E s \in SAMPLES : L!SampleCmd(s)
  BY DEF L!SampleCmd
<1> QED
  BY <1>3, <1>4, <1>5 DEF Command

LEMMA PassContinues ==
  ASSUME KIND = "Generated", LeaderKeeps, Pass
  PROVE  /\ LeaderKeeps'
         /\ \/ UNCHANGED <<tl, bytes>>
            \/ Continues(bytes', bytes) /\ bytes'.session = tl.session
<1>1. tl \in Timelines /\ Ascending(tl) /\ now \in Nat /\ now' = now
  BY DEF LeaderKeeps, Orderly, Pass, L!FinishPass
<1>2. CASE UNCHANGED <<tl, bytes>>
  BY <1>1, <1>2 DEF LeaderKeeps
<1>3. CASE tl' = [L!Settled EXCEPT !.rev = @ + 1] /\ bytes' = tl'
  <2>1. PICK p : p = Promote(tl, now)
    OBVIOUS
  <2>2. L!Settled = p
    BY <2>1, SamePromote DEF L!Settled
  <2>3. /\ p \in Timelines /\ Ascending(p) /\ p.cur.time <= now
        /\ Len(p.sched) <= MAX_SCHEDULED
    BY <1>1, <2>1, PromotedShape DEF LeaderKeeps
  <2>4. p.session = tl.session /\ p.format = tl.format /\ Succeeds(p, tl)
    BY <1>1, <2>1, PromotionSucceeds
  <2>5. PICK n : n = [p EXCEPT !.rev = @ + 1]
    OBVIOUS
  <2>6. /\ n \in Timelines /\ n.session = p.session /\ n.format = p.format
        /\ n.cur = p.cur /\ n.sched = p.sched
    BY <2>3, <2>5 DEF Timelines
  <2>7. Ascending(n) /\ Succeeds(n, tl)
    BY <2>3, <2>4, <2>6 DEF Ascending, Succeeds, Segments
  <2>8. Orderly(n) /\ Continues(n, tl)
    BY <2>4, <2>6, <2>7 DEF Orderly, Continues
  <2>9. Continues(n, bytes) /\ Continues(n, n)
    BY <2>8, ContinuesOnward, ContinuesItself DEF LeaderKeeps
  <2>10. tl' = n /\ bytes' = n
    BY <1>3, <2>2, <2>5
  <2> QED
    BY <1>1, <2>3, <2>4, <2>6, <2>8, <2>9, <2>10 DEF LeaderKeeps
<1> QED
  BY <1>2, <1>3 DEF Pass, L!FinishPass

(* Of the leader that lives nothing travels that is newer than its last.   *)
LEMMA NoneNewer ==
  ASSUME ReplicaInv, NEW u \in flight, u.session = tl.session
  PROVE  u.rev \in Nat /\ bytes.rev \in Nat /\ u.rev <= bytes.rev /\ bytes.rev = tl.rev
<1>1. LeadersInv
  BY DEF ReplicaInv
<1>2. PICK e \in 1..Len(Eras) : PublishedBy(e, u)
  BY DEF ReplicaInv, FlightInv, Published
<1>3. /\ Len(past) \in Nat /\ Len(Eras) = Len(past) + 1
      /\ Eras[Len(past) + 1] = [session |-> tl.session, rev |-> bytes.rev]
  BY <1>1, ErasType
<1>4. e = Len(past) + 1
  BY <1>1, <1>2, <1>3 DEF LeadersInv, PublishedBy
<1>5. bytes.rev \in Nat /\ bytes.rev = tl.rev
  BY <1>1 DEF LeadersInv, SameName
<1> QED
  BY <1>2, <1>3, <1>4, <1>5 DEF PublishedBy

LEMMA PassAccounts ==
  ASSUME KIND = "Generated", AccountInv, Pass
  PROVE  AccountInv'
<1>1. /\ LeaderKeeps'
      /\ UNCHANGED <<tl, bytes>> \/ (Continues(bytes', bytes) /\ bytes'.session = tl.session)
  BY PassContinues DEF AccountInv
<1>2. ReplicaInv /\ ReplicaInv' /\ LeadersInv
  BY PassStep DEF AccountInv, ReplicaInv
<1>3. UNCHANGED <<core, local, link, env>> /\ tl'.session = tl.session
  BY <1>1, <1>2, PassPublishes DEF Pass, ends
<1>4. CASE UNCHANGED <<tl, bytes>>
  <2>1. flight' = flight
    BY <1>4 DEF Pass
  <2> QED
    BY <1>1, <1>2, <1>3, <1>4, <2>1 DEF AccountInv, FlightKeeps, CoreKeeps
<1>5. CASE ~UNCHANGED <<tl, bytes>>
  <2>1. /\ bytes'.rev = tl.rev + 1 /\ bytes'.session = tl.session
        /\ Continues(bytes', bytes) /\ Orderly(bytes') /\ Orderly(bytes)
    <3>1. bytes' = tl' /\ tl'.rev = tl.rev + 1
      BY <1>2, <1>5, PassPublishes
    <3> QED
      BY <1>1, <1>5, <3>1 DEF AccountInv, LeaderKeeps
  <2>2. flight' = flight \/ (link = tl.session /\ flight' = flight \cup {bytes'})
    BY DEF Pass
  <2>3. ASSUME NEW t \in flight, t.session = tl.session
        PROVE  Continues(bytes', t) /\ ~(bytes'.rev < t.rev)
    <3>1. Continues(bytes, t) /\ Orderly(t)
      BY <2>3 DEF AccountInv, FlightKeeps
    <3>2. t.rev \in Nat /\ bytes.rev \in Nat /\ t.rev <= bytes.rev /\ bytes.rev = tl.rev
      BY <1>2, <2>3, NoneNewer
    <3> QED
      BY <2>1, <3>1, <3>2, ContinuesOnward
  <2>4. ASSUME link = tl.session, NEW t \in flight PROVE t.session = tl.session
    BY <1>2, <2>4 DEF ReplicaInv, FlightInv
  <2>5. Continues(bytes', bytes')
    BY <2>1, ContinuesItself
  <2>6. FlightKeeps'
    <3>1. CASE flight' = flight
      BY <1>3, <2>3, <3>1 DEF AccountInv, FlightKeeps
    <3>2. CASE link = tl.session /\ flight' = flight \cup {bytes'}
      <4> SUFFICES ASSUME NEW t \in flight'
                   PROVE  /\ Orderly(t) /\ (t.session = tl'.session => Continues(bytes', t))
                          /\ \A u \in flight' : t.rev < u.rev => Continues(u, t)
        BY DEF FlightKeeps
      <4>1. CASE t \in flight
        BY <2>3, <2>4, <3>2, <4>1 DEF AccountInv, FlightKeeps
      <4>2. CASE t = bytes'
        <5>1. ~(bytes'.rev < bytes'.rev)
          <6>1. bytes'.rev \in Nat
            BY <2>1 DEF Orderly, Timelines
          <6> QED
            BY <6>1
        <5>2. \A u \in flight' : ~(bytes'.rev < u.rev)
          BY <2>3, <2>4, <3>2, <5>1
        <5> QED
          BY <2>1, <2>5, <4>2, <5>2
      <4> QED
        BY <3>2, <4>1, <4>2
    <3> QED
      BY <2>2, <3>1, <3>2
  <2>7. CoreKeeps'
    <3>1. ASSUME core.tl.session = tl.session PROVE Accounts(bytes', core.tl)
      <4>1. Accounts(bytes, core.tl) /\ Orderly(core.tl)
        <5>1. tl.session # NONE
          BY <1>2, NoneAssumption DEF LeadersInv
        <5> QED
          BY <3>1, <5>1 DEF AccountInv, CoreKeeps, Coherent
      <4> QED
        BY <2>1, <4>1, AccountsOnward
    <3>2. \A u \in flight' : u \in flight \/ u = bytes'
      BY <2>2
    <3> QED
      BY <1>3, <2>1, <3>1, <3>2 DEF AccountInv, CoreKeeps
  <2> QED
    BY <1>1, <1>2, <1>3, <2>6, <2>7 DEF AccountInv
<1> QED
  BY <1>4, <1>5

LEMMA RestartAccounts ==
  ASSUME AccountInv, NEW s \in SESSIONS, Restart(s)
  PROVE  AccountInv'
<1>1. ReplicaInv' /\ ReplicaInv
  BY RestartStep DEF AccountInv
<1>2. /\ tl' = L!InitialTimeline(s, tl.part, tl.format, 0, 0, START) /\ bytes' = tl'
      /\ now' = START /\ START \in Nat /\ UNCHANGED <<core, local, link, flight>>
  BY SessionAssumption DEF Restart, ends
<1>3. tl.part \in PARTS /\ tl.format \in FORMATS
  BY DEF AccountInv, LeaderKeeps, Orderly, Timelines
<1>4. Orderly(tl') /\ tl'.cur.time = START /\ Len(tl'.sched) = 0
  BY <1>2, <1>3, FreshOrderly
<1>5. LeaderKeeps'
  BY <1>2, <1>4, ContinuesItself, MaxScheduledAssumption DEF LeaderKeeps
<1>6. tl'.session = s
  BY <1>2 DEF L!InitialTimeline
<1>7. core.tl.session # s /\ \A t \in flight : t.session # s
  BY <1>1, Unheard DEF ReplicaInv, FlightInv
<1>8. FlightKeeps' /\ CoreKeeps'
  BY <1>2, <1>6, <1>7 DEF AccountInv, FlightKeeps, CoreKeeps
<1>9. env' \in Bounds
  BY SpendBounds DEF AccountInv, Restart
<1> QED
  BY <1>1, <1>2, <1>5, <1>8, <1>9 DEF AccountInv

(* What the follower keeps is accounted for by all that did before.        *)
LEMMA KeepsTwice ==
  ASSUME NEW a, NEW b, NEW c, Keeps(a, b), Keeps(b, c)
  PROVE  Keeps(a, c)
BY AppliedTwice DEF Keeps

LEMMA KeepsAccounts ==
  ASSUME AccountInv, Coherent(core'), Keeps(core, core'), UNCHANGED <<tl, bytes>>,
         flight' \subseteq flight \cup {bytes}
  PROVE  CoreKeeps'
<1>1. Orderly(bytes) /\ (\A u \in flight : Orderly(u)) /\ Orderly(tl)
  BY DEF AccountInv, LeaderKeeps, FlightKeeps
<1>2. core'.tl.session = core.tl.session /\ core'.tl.rev = core.tl.rev
  BY DEF Keeps
<1>3. ASSUME NEW u, Orderly(u), u.session = core.tl.session, Accounts(u, core.tl)
      PROVE  Accounts(u, core'.tl)
  <2>1. core.tl.session # NONE
    BY <1>3, SnapshotType DEF Orderly
  <2>2. Applied(core.tl, core'.tl)
    BY <2>1 DEF Keeps
  <2> QED
    BY <1>3, <2>2, AccountsApplied
<1>4. bytes.session = tl.session
  BY DEF AccountInv, ReplicaInv, LeadersInv, SameName
<1>5. core.tl.session = tl.session => Accounts(bytes, core.tl)
  BY DEF AccountInv, CoreKeeps
<1>6. \A u \in flight' : u.session = core.tl.session /\ core.tl.rev < u.rev
                         => Accounts(u, core.tl) /\ Orderly(u)
  BY <1>1, <1>4, <1>5 DEF AccountInv, CoreKeeps
<1> QED
  BY <1>1, <1>2, <1>3, <1>4, <1>5, <1>6 DEF CoreKeeps

LEMMA LinkAccounts ==
  ASSUME AccountInv, Connect \/ Disconnect, UNCHANGED <<leader, past, local>>, env' \in Bounds
  PROVE  AccountInv'
<1>1. ReplicaInv'
  BY LinkStep DEF AccountInv
<1>2. UNCHANGED <<now, tl, bytes>> /\ LeaderKeeps'
  BY DEF leader, AccountInv, LeaderKeeps
<1>3. PICK c : (c = Connected(core) \/ c = Disconnected(core)) /\ core' = TickCore(c, local)
  BY DEF Connect, Disconnect
<1>4. Coherent(c) /\ c.tl = core.tl
  BY <1>3, LinkCoherent DEF AccountInv, CoreKeeps
<1>5. Coherent(core') /\ Keeps(c, core')
  BY <1>3, <1>4, TickCoherent DEF AccountInv
<1>6. Keeps(core, core')
  BY <1>4, <1>5 DEF Keeps
<1>7. flight' \subseteq {bytes}
  BY DEF Connect, Disconnect, FirstGroups
<1>8. CoreKeeps'
  BY <1>2, <1>5, <1>6, <1>7, KeepsAccounts
<1>9. FlightKeeps'
  <2>1. Orderly(bytes) /\ Continues(bytes, bytes) /\ bytes.rev \in Nat
    BY ContinuesItself DEF AccountInv, LeaderKeeps, Orderly, Timelines
  <2> QED
    BY <1>2, <1>7, <2>1 DEF FlightKeeps
<1> QED
  BY <1>1, <1>2, <1>8, <1>9 DEF AccountInv

LEMMA ReplyCoherent ==
  ASSUME AccountInv, NEW m \in Exchanges \cup {NONE}, NEW c, c = AfterReply(m)
  PROVE  Coherent(c) /\ c.tl = core.tl
<1>1. Coherent(core) /\ local \in Nat /\ now \in Nat /\ env \in Bounds
  BY DEF AccountInv, CoreKeeps, LeaderKeeps
<1>2. CASE m = NONE
  BY <1>1, <1>2 DEF AfterReply
<1>3. CASE m # NONE
  <2>1. m \in Measurements
    <3>1. PICK err \in env.errors, locks \in BOOLEAN :
            m = [accepted |-> TRUE, recovering |-> FALSE, offset |-> now - local + err,
                 unc |-> Magnitude(err), converged |-> locks]
      BY <1>3 DEF Exchanges
    <3>2. err \in Int
      BY <1>1 DEF Bounds
    <3>3. now - local + err \in Int /\ Magnitude(err) \in Nat
      BY <1>1, <3>2 DEF Magnitude
    <3> QED
      BY <3>1, <3>3 DEF Measurements
  <2>2. c = Measure(core, m, local)
    BY <1>3 DEF AfterReply
  <2> QED
    BY <1>1, <2>1, <2>2, MeasureCoherent
<1> QED
  BY <1>2, <1>3

(* A pass of the follower keeps what it holds, or adopts what came.        *)
LEMMA FollowerHolds ==
  ASSUME AccountInv, NEW m \in Exchanges \cup {NONE}, NEW t \in flight \cup {NONE},
         FollowerPass(m, t)
  PROVE  /\ Coherent(core') /\ env' \in Bounds
         /\ \/ Keeps(core, core')
            \/ /\ t \in flight /\ Applied(t, core'.tl)
               /\ t.session = core.tl.session => core.tl.rev < t.rev
<1>1. Coherent(core) /\ local \in Nat /\ now \in Nat /\ env \in Bounds
  BY DEF AccountInv, CoreKeeps, LeaderKeeps
<1>2. PICK c : c = AfterReply(m)
  OBVIOUS
<1>3. Coherent(c) /\ c.tl = core.tl
  BY <1>2, ReplyCoherent
<1>4. PICK d : d = AfterGroup(c, t)
  OBVIOUS
<1>5. /\ Coherent(d)
      /\ \/ Keeps(c, d)
         \/ /\ t \in flight /\ Applied(t, d.tl)
            /\ t.session = c.tl.session => c.tl.rev < t.rev
  <2>1. CASE t = NONE
    <3>1. d = c
      BY <1>4, <2>1 DEF AfterGroup
    <3> QED
      BY <1>3, <3>1, AppliedItself DEF Keeps, Coherent
  <2>2. CASE t # NONE
    <3>1. d = State(c, t, local) /\ t \in flight /\ Orderly(t)
      BY <1>4, <2>2 DEF AfterGroup, AccountInv, FlightKeeps
    <3> QED
      BY <1>1, <1>3, <3>1, StateCoherent
  <2> QED
    BY <2>1, <2>2
<1>6. core' = TickCore(d, local)
  BY <1>2, <1>4 DEF FollowerPass
<1>7. Coherent(core') /\ Keeps(d, core')
  BY <1>1, <1>5, <1>6, TickCoherent
<1>8. env' \in Bounds
  BY <1>1, SpendBounds DEF FollowerPass
<1>9. CASE Keeps(c, d)
  <2>1. Keeps(core, d)
    BY <1>3, <1>9 DEF Keeps
  <2> QED
    BY <1>7, <1>8, <2>1, KeepsTwice
<1>10. CASE /\ t \in flight /\ Applied(t, d.tl)
            /\ t.session = c.tl.session => c.tl.rev < t.rev
  <2>1. d.tl.session # NONE
    BY <1>10, SnapshotType DEF Applied, Orderly
  <2>2. Applied(d.tl, core'.tl)
    BY <1>7, <2>1 DEF Keeps
  <2>3. Applied(t, core'.tl)
    BY <1>10, <2>2, AppliedTwice
  <2> QED
    BY <1>3, <1>7, <1>8, <1>10, <2>3
<1> QED
  BY <1>5, <1>9, <1>10

LEMMA FollowerAccounts ==
  ASSUME AccountInv, NEW m \in Exchanges \cup {NONE}, NEW t \in flight \cup {NONE},
         FollowerPass(m, t)
  PROVE  AccountInv'
<1>1. ReplicaInv'
  BY FollowerPassStep DEF AccountInv
<1>2. /\ UNCHANGED <<now, tl, bytes, local>> /\ flight' \subseteq flight
      /\ LeaderKeeps' /\ FlightKeeps'
  BY DEF FollowerPass, leader, AccountInv, LeaderKeeps, FlightKeeps
<1>3. Coherent(core') /\ env' \in Bounds
  BY FollowerHolds
<1>4. CASE Keeps(core, core')
  BY <1>1, <1>2, <1>3, <1>4, KeepsAccounts DEF AccountInv
<1>5. CASE t \in flight /\ Applied(t, core'.tl)
  <2>1. core'.tl.session = t.session /\ core'.tl.rev = t.rev
    BY <1>5 DEF Applied
  <2>2. t.session = tl.session => Accounts(bytes, core'.tl)
    BY <1>5, ContinuesAccounts DEF AccountInv, LeaderKeeps, FlightKeeps
  <2>3. \A u \in flight : t.rev < u.rev => Accounts(u, core'.tl)
    BY <1>5, ContinuesAccounts DEF AccountInv, FlightKeeps
  <2> QED
    BY <1>1, <1>2, <1>3, <2>1, <2>2, <2>3 DEF AccountInv, CoreKeeps
<1> QED
  BY <1>4, <1>5, FollowerHolds

LEMMA AccountStep ==
  ASSUME KIND = "Generated"
  PROVE  AccountInv /\ [Next]_vars => AccountInv'
<1>1. SUFFICES ASSUME AccountInv, [Next]_vars PROVE AccountInv'
  OBVIOUS
<1>2. CASE Command
  <2>1. ReplicaInv' /\ UNCHANGED <<bytes, core, link, flight>>
    BY <1>1, <1>2, CommandStep, CommandKeepsName DEF AccountInv, ReplicaInv
  <2>2. LeaderKeeps' /\ tl'.session = tl.session
    BY <1>1, <1>2, CommandContinues DEF AccountInv
  <2>3. env' \in Bounds /\ local' = local
    BY <1>1, <1>2, SpendBounds DEF AccountInv, Command, ends
  <2> QED
    BY <1>1, <2>1, <2>2, <2>3 DEF AccountInv, FlightKeeps, CoreKeeps
<1>3. CASE Pass
  BY <1>1, <1>3, PassAccounts
<1>4. CASE Elapse
  <2>1. /\ UNCHANGED <<tl, bytes, core, link, flight, env>>
        /\ now' = now + 1 /\ local' = local + 1
    BY <1>4 DEF Elapse, L!Tick
  <2>2. ReplicaInv'
    BY <1>1, <1>4, ReplicaStep DEF AccountInv, Next
  <2>3. LeaderKeeps'
    <3>1. now \in Nat /\ tl.cur.time \in Nat /\ tl.cur.time <= now
      BY <1>1 DEF AccountInv, LeaderKeeps, Orderly, Timelines, Segment
    <3>2. now' \in Nat /\ tl.cur.time <= now'
      BY <2>1, <3>1
    <3> QED
      BY <1>1, <2>1, <3>2 DEF AccountInv, LeaderKeeps
  <2> QED
    BY <1>1, <2>1, <2>2, <2>3 DEF AccountInv, FlightKeeps, CoreKeeps
<1>5. CASE \E s \in SESSIONS : Restart(s)
  BY <1>1, <1>5, RestartAccounts
<1>6. CASE Connect \/ Break \/ NoticeDeath
  <2>1. (Connect \/ Disconnect) /\ UNCHANGED <<leader, past, local>>
    BY <1>6 DEF Connect, Break, NoticeDeath, Disconnect
  <2>2. env' \in Bounds
    BY <1>1, <1>6, SpendBounds DEF AccountInv, Connect, Break, NoticeDeath
  <2> QED
    BY <1>1, <2>1, <2>2, LinkAccounts
<1>7. CASE \E m \in Exchanges \cup {NONE}, t \in flight \cup {NONE} : FollowerPass(m, t)
  BY <1>1, <1>7, FollowerAccounts
<1>8. CASE \E t \in flight : Lose(t)
  <2>1. /\ UNCHANGED <<now, tl, bytes, core, link, local>> /\ flight' \subseteq flight
        /\ env' \in Bounds
    BY <1>1, <1>8, SpendBounds DEF AccountInv, Lose, ends, leader
  <2>2. ReplicaInv'
    BY <1>1, <1>8, ReplicaStep DEF AccountInv, Next
  <2> QED
    BY <1>1, <2>1, <2>2 DEF AccountInv, LeaderKeeps, FlightKeeps, CoreKeeps
<1>9. CASE UNCHANGED vars
  <2>1. UNCHANGED <<now, tl, bytes, core, link, local, flight, env>>
    BY <1>9 DEF vars, ends, leader
  <2>2. ReplicaInv'
    BY <1>1, ReplicaStep DEF AccountInv
  <2> QED
    BY <1>1, <2>1, <2>2 DEF AccountInv, LeaderKeeps, FlightKeeps, CoreKeeps
<1> QED
  BY <1>1, <1>2, <1>3, <1>4, <1>5, <1>6, <1>7, <1>8, <1>9 DEF Next

-----------------------------------------------------------------------------
(* What each step of a session does with a snapshot that is newer than     *)
(* what the follower holds.                                                *)
NewerAdopted ==
  \A t \in flight :
    (t \notin flight' /\ link' = link /\ env'.losses = env.losses
       /\ t.session = core.tl.session /\ t.rev > core.tl.rev)
      => core'.tl.rev = t.rev

LEMMA FollowerAdopts ==
  ASSUME AccountInv, NEW m \in Exchanges \cup {NONE}, NEW t \in flight,
         FollowerPass(m, t), t.session = core.tl.session, t.rev > core.tl.rev
  PROVE  core'.tl.rev = t.rev
<1>1. /\ Coherent(core) /\ local \in Nat /\ Orderly(t) /\ Accounts(t, core.tl)
  <2>1. t.rev \in Nat /\ core.tl.rev \in Nat
    BY SnapshotType
       DEF AccountInv, FlightKeeps, CoreKeeps, Coherent, IsCore, HeldTimelines, Orderly
  <2> QED
    BY <2>1 DEF AccountInv, FlightKeeps, CoreKeeps
<1>2. PICK c : c = AfterReply(m)
  OBVIOUS
<1>3. Coherent(c) /\ c.tl = core.tl
  BY <1>2, ReplyCoherent
<1>4. PICK d : d = AfterGroup(c, t)
  OBVIOUS
<1>5. Coherent(d) /\ d.tl.rev = t.rev
  <2>1. d = State(c, t, local)
    <3>1. t # NONE
      BY <1>1, NoTimelineAssumption DEF Orderly
    <3> QED
      BY <1>4, <3>1 DEF AfterGroup
  <2>2. c.tl.rev < t.rev
    BY <1>1, <1>3, SnapshotType DEF Orderly, Coherent, IsCore, HeldTimelines
  <2> QED
    BY <1>1, <1>3, <2>1, <2>2, StateCoherent, AccountedNotRefused
<1>6. core' = TickCore(d, local)
  BY <1>2, <1>4 DEF FollowerPass
<1> QED
  BY <1>1, <1>5, <1>6, TickCoherent DEF Keeps

LEMMA NewerStep ==
  ASSUME AccountInv, [Next]_vars
  PROVE  NewerAdopted
<1>1. SUFFICES ASSUME NEW t \in flight, t \notin flight', link' = link,
                      env'.losses = env.losses,
                      t.session = core.tl.session, t.rev > core.tl.rev
               PROVE  core'.tl.rev = t.rev
  BY DEF NewerAdopted
<1>2. CASE \E m \in Exchanges \cup {NONE}, u \in flight \cup {NONE} : FollowerPass(m, u)
  <2>1. PICK m \in Exchanges \cup {NONE}, u \in flight \cup {NONE} : FollowerPass(m, u)
    BY <1>2
  <2>2. t = u
    BY <1>1, <2>1 DEF FollowerPass
  <2> QED
    BY <1>1, <2>1, <2>2, FollowerAdopts
<1>3. CASE Pass
  BY <1>1, <1>3 DEF Pass
<1>4. CASE Connect
  <2>1. tl.session # NONE
    BY SnapshotType DEF AccountInv, LeaderKeeps, Orderly
  <2> QED
    BY <1>1, <1>4, <2>1 DEF Connect
<1>5. CASE Break \/ NoticeDeath
  BY <1>1, <1>5 DEF Break, NoticeDeath, Disconnect
<1>6. CASE \E u \in flight : Lose(u)
  <2>1. env'.losses = env.losses - 1 /\ env.losses \in Nat
    BY <1>6, SpendBounds DEF AccountInv, Lose
  <2> QED
    BY <1>1, <2>1
<1>7. CASE Command \/ Elapse \/ (\E s \in SESSIONS : Restart(s)) \/ UNCHANGED vars
  BY <1>1, <1>7 DEF Command, Elapse, Restart, vars
<1> QED
  BY <1>2, <1>3, <1>4, <1>5, <1>6, <1>7 DEF Next

(* A leader driven by controls is never mistaken for one that rolls back:  *)
(* whichever of its snapshots overtook one another, and however far ahead  *)
(* of it the follower's clock has run, the transition checks of            *)
(* FollowerCore::state refuse no newer revision of the session.            *)
THEOREM SessionLeaderNeverRefused ==
  ASSUME KIND = "Generated"
  PROVE  Spec => LeaderNeverRefused
<1>1. Init => AccountInv
  BY AccountsInitially
<1>2. AccountInv /\ [Next]_vars => AccountInv'
  BY AccountStep
<1>3. AccountInv /\ [Next]_vars => [NewerAdopted]_vars
  BY NewerStep
<1> QED
  BY <1>1, <1>2, <1>3, PTL DEF Spec, LeaderNeverRefused, NewerAdopted

-----------------------------------------------------------------------------
LEMMA Triangle ==
  ASSUME NEW a \in Int, NEW b \in Int
  PROVE  Magnitude(a + b) <= Magnitude(a) + Magnitude(b)
BY DEF Magnitude

(* A clock that is off by no more than its bound places a trajectory off   *)
(* by no more than the bound allows.                                       *)
LEMMA OffByTheBound ==
  ASSUME NEW a \in Int, NEW unc \in Nat, NEW rate \in Int, Magnitude(a) <= unc
  PROVE  Magnitude(a * rate) <= unc * Magnitude(rate)
<1>1. Magnitude(a) \in Nat /\ Magnitude(rate) \in Nat
  BY DEF Magnitude
<1>2. Magnitude(a * rate) = Magnitude(a) * Magnitude(rate)
  <2>1. CASE a >= 0 /\ rate >= 0
    BY <2>1 DEF Magnitude
  <2>2. CASE a >= 0 /\ rate < 0
    BY <2>2 DEF Magnitude
  <2>3. CASE a < 0 /\ rate >= 0
    BY <2>3 DEF Magnitude
  <2>4. CASE a < 0 /\ rate < 0
    BY <2>4 DEF Magnitude
  <2> QED
    BY <2>1, <2>2, <2>3, <2>4
<1>3. Magnitude(a) * Magnitude(rate) <= unc * Magnitude(rate)
  BY <1>1
<1> QED
  BY <1>2, <1>3

LEMMA TrajectoryMoves ==
  ASSUME NEW seg \in Segment, NEW a \in Int, NEW b \in Int
  PROVE  /\ At(seg, a) \in Int /\ At(seg, b) \in Int /\ a - b \in Int
         /\ At(seg, a) - At(seg, b) = (a - b) * seg.rate
<1>1. /\ seg.pos \in Int /\ seg.time \in Int /\ seg.rate \in Int
  BY DEF Segment
<1>2. ASSUME NEW p \in Int, NEW t \in Int, NEW r \in Int
      PROVE  (p + (a - t) * r) - (p + (b - t) * r) = (a - b) * r
  OBVIOUS
<1> QED
  BY <1>1, <1>2 DEF At

(* In the same session a number names one trajectory on both sides.        *)
LEMMA SameTrajectory ==
  ASSUME AccountInv, core.tl.session = tl.session,
         Playing(core, local).disc = Active(tl, now).disc
  PROVE  Playing(core, local) = Active(tl, now)
<1>1. /\ Orderly(tl) /\ Orderly(bytes) /\ Continues(tl, bytes) /\ now \in Nat
      /\ IsCore(core) /\ local \in Nat /\ Accounts(bytes, core.tl)
  BY DEF AccountInv, LeaderKeeps, CoreKeeps, Coherent
<1>2. Orderly(core.tl)
  BY <1>1, SnapshotType DEF AccountInv, CoreKeeps, Coherent, Orderly
<1>3. Accounts(tl, core.tl)
  BY <1>1, <1>2, AccountsOnward
<1>4. Playing(core, local) \in Segments(core.tl)
  BY <1>1, EvaluatedType
<1>5. Active(tl, now) \in Segments(tl)
  BY <1>1, ActiveSegment DEF Orderly
<1> QED
  BY <1>1, <1>2, <1>3, <1>4, <1>5, CoversAgrees DEF Accounts, Orderly

LEMMA AccountsHonest ==
  ASSUME AccountInv
  PROVE  AlignedIsHonest
<1>1. SUFFICES ASSUME Aligned(core, local), core.tl.session = tl.session,
                      Magnitude(core.offset - (now - local)) <= core.unc,
                      Playing(core, local).disc = Active(tl, now).disc
               PROVE  Magnitude(Position(core, local) - At(Active(tl, now), now)) <= ALIGNED
  BY DEF AlignedIsHonest
<1>2. IsCore(core) /\ local \in Nat /\ now \in Nat
  BY DEF AccountInv, LeaderKeeps, CoreKeeps, Coherent
<1>3. PICK seg \in Segment : seg = Playing(core, local) /\ seg = Active(tl, now)
  BY <1>1, <1>2, SameTrajectory, EvaluatedType
<1>4. PICK at \in Nat : at = LeaderTime(core, local)
  BY <1>2, LeaderTimeType
<1>5. PICK left \in Int : left = Remaining(core, local)
  BY <1>2, RemainingType
<1>6. Position(core, local) = At(seg, at) + left
  BY <1>1, <1>3, <1>4, <1>5 DEF Position, Aligned, EvaluatedAt
<1>7. Magnitude(at - now) <= core.unc /\ core.unc \in Nat
  <2>1. core.offset \in Int /\ core.unc \in Nat
    BY <1>2 DEF IsCore
  <2>2. local + core.offset \in Int
    BY <1>2, <2>1
  <2>3. at = IF 0 >= local + core.offset THEN 0 ELSE local + core.offset
    BY <1>4, <2>2, MaxPair DEF LeaderTime
  <2> QED
    BY <1>1, <1>2, <2>1, <2>3 DEF Magnitude
<1>8. /\ At(seg, at) \in Int /\ At(seg, now) \in Int /\ at - now \in Int
      /\ At(seg, at) - At(seg, now) = (at - now) * seg.rate
  BY <1>2, TrajectoryMoves
<1>9. seg.rate \in Int /\ Magnitude(seg.rate) \in Nat
  BY DEF Segment, Magnitude
<1>10. PICK moved \in Int : moved = At(seg, at) - At(seg, now)
  BY <1>8
<1>11. Magnitude(moved) <= core.unc * Magnitude(seg.rate)
  BY <1>7, <1>8, <1>9, <1>10, OffByTheBound
<1>12. core.unc * Magnitude(seg.rate) + Magnitude(left) <= ALIGNED
  BY <1>1, <1>3, <1>5 DEF Aligned, AlignmentError
<1>13. PICK allowed \in Int : allowed = core.unc * Magnitude(seg.rate)
  BY <1>7, <1>9
<1>14. Position(core, local) - At(Active(tl, now), now) = moved + left
  BY <1>3, <1>6, <1>8, <1>10
<1>15. Magnitude(moved + left) <= Magnitude(moved) + Magnitude(left)
  BY Triangle
<1>16. /\ Magnitude(moved) \in Int /\ Magnitude(left) \in Int
       /\ Magnitude(moved + left) \in Int /\ ALIGNED \in Int
  BY FollowerCoreAssumption DEF Magnitude
<1> QED
  BY <1>11, <1>12, <1>13, <1>14, <1>15, <1>16

(* The status that an application trusts can be trusted: when the          *)
(* estimator's bound is right, output shown as aligned is within the       *)
(* advertised error of the leader's, because one discontinuity number      *)
(* names one trajectory on both sides (View::status and                    *)
(* View::alignment_error of timeline.rs).                                  *)
THEOREM SessionAlignedIsHonest ==
  ASSUME KIND = "Generated"
  PROVE  Spec => []AlignedIsHonest
<1>1. Init => AccountInv
  BY AccountsInitially
<1>2. AccountInv /\ [Next]_vars => AccountInv'
  BY AccountStep
<1>3. AccountInv => AlignedIsHonest
  BY AccountsHonest
<1> QED
  BY <1>1, <1>2, <1>3, PTL DEF Spec

-----------------------------------------------------------------------------
(* Where every path leaves the follower behind, and nothing was latched    *)
(* early before the first exchange, nothing that the follower holds of the *)
(* leader is ahead of the leader's clock, nor is its mapping once it has   *)
(* one.                                                                    *)
Timely(c, n, lead) ==
  /\ Initialized(c) => c.offset <= lead - n
  /\ c.tl.cur.time <= lead

PunctualInv ==
  /\ bytes.cur.time <= now
  /\ \A t \in flight : t.session = tl.session => t.cur.time <= now
  /\ LeavesBehind /\ ~hasty /\ core.tl.session = tl.session => Timely(core, local, now)

(* What the steps of the leader, of the network and of time leave true.    *)
LEMMA PunctualFrame ==
  ASSUME AccountInv, PunctualInv, env'.errors = env.errors, UNCHANGED <<core, hasty>>,
         tl'.session = tl.session,
         flight' \subseteq flight \cup {bytes'}, bytes'.cur.time <= now',
         \/ UNCHANGED <<now, local>>
         \/ now' = now + 1 /\ local' = local + 1
  PROVE  PunctualInv'
<1>1. now \in Nat /\ local \in Nat /\ now <= now' /\ now' - local' = now - local
  BY DEF AccountInv, LeaderKeeps
<1>2. ASSUME NEW x \in Nat, x <= now PROVE x <= now'
  BY <1>1, <1>2
<1>3. \A t \in flight : t.session = tl.session => t.cur.time <= now'
  <2>1. \A t \in flight : t.cur.time \in Nat
    BY SegmentNumbers DEF AccountInv, FlightKeeps, Orderly
  <2> QED
    BY <1>2, <2>1 DEF PunctualInv
<1>4. \A t \in flight' : t.session = tl'.session => t.cur.time <= now'
  BY <1>3
<1>5. core.tl.cur.time \in Nat
  BY DEF AccountInv, CoreKeeps, Coherent, IsCore, HeldTimelines, Segment
<1>6. LeavesBehind /\ ~hasty /\ core.tl.session = tl.session => Timely(core, local', now')
  BY <1>1, <1>2, <1>5 DEF PunctualInv, Timely
<1> QED
  BY <1>4, <1>6 DEF PunctualInv, LeavesBehind

(* A reply maps the follower's clock to the leader's or behind it.         *)
LEMMA ReplyOffset ==
  ASSUME AccountInv, LeavesBehind, NEW m \in Exchanges \cup {NONE},
         NEW c, c = AfterReply(m)
  PROVE  \/ c.offset = core.offset /\ c.sampled = core.sampled
         \/ c.offset <= now - local
<1>1. Coherent(core) /\ local \in Nat /\ now \in Nat /\ env \in Bounds
  BY DEF AccountInv, CoreKeeps, LeaderKeeps
<1>2. CASE m = NONE
  BY <1>2 DEF AfterReply
<1>3. CASE m # NONE
  <2>1. m \in Measurements /\ m.offset <= now - local
    <3>1. PICK err \in env.errors, locks \in BOOLEAN :
            m = [accepted |-> TRUE, recovering |-> FALSE, offset |-> now - local + err,
                 unc |-> Magnitude(err), converged |-> locks]
      BY <1>3 DEF Exchanges
    <3>2. err \in Int /\ err <= 0
      BY <1>1 DEF Bounds, LeavesBehind
    <3>3. now - local + err \in Int /\ Magnitude(err) \in Nat
      BY <1>1, <3>2 DEF Magnitude
    <3>4. m \in Measurements
      BY <3>1, <3>3 DEF Measurements
    <3> QED
      BY <1>1, <3>1, <3>2, <3>4
  <2>2. c = Measure(core, m, local)
    BY <1>3 DEF AfterReply
  <2>3. Ignored(core, c) \/ Accepted(core, m, c, local)
    BY <1>1, <2>1, <2>2, MeasureOutcome DEF Coherent
  <2> QED
    BY <2>1, <2>3 DEF Ignored, Accepted
<1> QED
  BY <1>2, <1>3

(* Before the first exchange it is what hasty records that counts.         *)
LEMMA TimelyUnmapped ==
  ASSUME NEW c, NEW n, NEW lead, ~Initialized(c), c.tl.cur.time <= lead
  PROVE  Timely(c, n, lead)
BY DEF Timely

LEMMA TickUnmapped ==
  ASSUME NEW c, ~Initialized(c), NEW r, r = TickCore(c, local), Coherent(c)
  PROVE  r.tl = c.tl /\ ~Initialized(r)
<1>1. DOMAIN c = Fields
  BY DEF Coherent, IsCore
<1> QED
  BY <1>1 DEF TickCore, Initialized, Fields

LEMMA TimelyMapped ==
  ASSUME NEW c, NEW n, NEW lead, Punctual(c, n, lead)
  PROVE  Timely(c, n, lead)
BY DEF Timely, Punctual

(* A session that was begun is held as the leader sent it.                 *)
LEMMA TimelyBegun ==
  ASSUME AccountInv, PunctualInv, NEW c, Coherent(c), NEW t \in flight, t.session = tl.session,
         NEW d, Coherent(d), Begun(c, t, d), core' = TickCore(d, local)
  PROVE  Timely(core', local, now)
<1>1. ~Initialized(d) /\ d.tl = t
  BY DEF Begun, Initialized
<1>2. core'.tl = t /\ ~Initialized(core')
  BY <1>1, TickUnmapped
<1> QED
  BY <1>2, TimelyUnmapped DEF PunctualInv

(* A later revision is not ahead of the leader when the follower was not.  *)
LEMMA TimelyRevised ==
  ASSUME AccountInv, PunctualInv, LeavesBehind, core.tl.session = tl.session,
         NEW c, Coherent(c), c.tl = core.tl, Punctual(c, local, now),
         NEW t \in flight \cup {NONE}, NEW d, Coherent(d), d = AfterGroup(c, t),
         d.tl.session = tl.session, core' = TickCore(d, local)
  PROVE  Timely(core', local, now)
<1>1. local \in Nat /\ now \in Nat /\ tl.session # NONE
  BY SnapshotType DEF AccountInv, CoreKeeps, LeaderKeeps, Orderly
<1>2. Punctual(d, local, now)
  <2>1. CASE t = NONE
    BY <2>1 DEF AfterGroup
  <2>2. CASE t # NONE
    <3>1. d = State(c, t, local) /\ t \in flight /\ Orderly(t)
      BY <2>2 DEF AfterGroup, AccountInv, FlightKeeps
    <3>2. IsCore(c) /\ t \in Timelines /\ Ascending(t)
      BY <3>1 DEF Coherent, Orderly
    <3>3. CASE t.session = tl.session
      <4>1. t.cur.time <= now
        BY <3>1, <3>3 DEF PunctualInv
      <4>2. c.tl.rev < t.rev => Accounts(t, c.tl)
        BY <3>1, <3>3 DEF AccountInv, CoreKeeps
      <4>3. \/ d.tl = c.tl /\ d.offset = c.offset
            \/ Begun(c, t, d)
            \/ Punctual(d, local, now)
        BY <1>1, <3>1, <4>1, <4>2, StatePunctual
      <4>4. ~Begun(c, t, d)
        BY <3>3 DEF Begun
      <4> QED
        BY <4>3, <4>4 DEF Punctual
    <3>4. CASE t.session # tl.session
      <4>1. Ignored(c, d) \/ Begun(c, t, d) \/ Revised(c, t, d, local)
        BY <1>1, <3>1, <3>2, StateOutcome
      <4>2. Ignored(c, d)
        BY <3>4, <4>1 DEF Begun, Revised
      <4> QED
        BY <4>2 DEF Ignored, Punctual
    <3> QED
      BY <3>3, <3>4
  <2> QED
    BY <2>1, <2>2
<1>3. Punctual(core', local, now)
  BY <1>1, <1>2, TickPunctual
<1> QED
  BY <1>3, TimelyMapped

LEMMA PunctualFollower ==
  ASSUME AccountInv, PunctualInv, NEW m \in Exchanges \cup {NONE},
         NEW t \in flight \cup {NONE}, FollowerPass(m, t)
  PROVE  PunctualInv'
<1>1. /\ UNCHANGED <<now, tl, bytes, local>> /\ flight' \subseteq flight
      /\ env'.errors = env.errors
  BY SpendBounds DEF FollowerPass, leader, AccountInv
<1>2. /\ Coherent(core) /\ local \in Nat /\ now \in Nat /\ env \in Bounds
      /\ tl.session # NONE
  BY SnapshotType DEF AccountInv, CoreKeeps, LeaderKeeps, Orderly
<1>3. SUFFICES ASSUME LeavesBehind, ~hasty', core'.tl.session = tl.session
               PROVE  Timely(core', local, now)
  BY <1>1, <1>3 DEF PunctualInv, LeavesBehind
<1>4. PICK c : c = AfterReply(m)
  OBVIOUS
<1>5. Coherent(c) /\ c.tl = core.tl
  BY <1>4, ReplyCoherent
<1>6. PICK d : d = AfterGroup(c, t)
  OBVIOUS
<1>7. core' = TickCore(d, local)
  BY <1>4, <1>6 DEF FollowerPass
<1>8. \/ d = c
      \/ d = State(c, t, local) /\ t \in flight /\ Orderly(t)
  BY <1>6 DEF AfterGroup, AccountInv, FlightKeeps
<1>9. /\ Coherent(d)
      /\ d = c \/ Ignored(c, d) \/ Begun(c, t, d) \/ Revised(c, t, d, local)
  <2>1. CASE d = c
    BY <1>5, <2>1
  <2>2. CASE d = State(c, t, local) /\ t \in flight /\ Orderly(t)
    <3>1. IsCore(c) /\ t \in Timelines /\ Ascending(t)
      BY <1>5, <2>2 DEF Coherent, Orderly
    <3>2. Ignored(c, d) \/ Begun(c, t, d) \/ Revised(c, t, d, local)
      BY <1>2, <2>2, <3>1, StateOutcome
    <3> QED
      BY <1>2, <1>5, <2>2, <3>2, StateCoherent
  <2> QED
    BY <1>8, <2>1, <2>2
<1>10. core'.tl.session = d.tl.session
  BY <1>2, <1>7, <1>9, TickCoherent DEF Keeps
<1>11. CASE core.tl.session # tl.session
  <2>1. Begun(c, t, d) /\ t.session = tl.session
    <3>1. d.tl.session # c.tl.session
      BY <1>3, <1>5, <1>10, <1>11
    <3>2. ~Revised(c, t, d, local)
      <4>1. SUFFICES ASSUME Revised(c, t, d, local) PROVE FALSE
        OBVIOUS
      <4>2. d = State(c, t, local) /\ t \in flight /\ Orderly(t)
        BY <1>8, <3>1
      <4>3. Advanced(c, t, local).session = t.session
        BY <1>2, <1>5, <4>2, AdvancedType DEF Coherent, Orderly
      <4> QED
        BY <3>1, <4>1, <4>3 DEF Revised
    <3> QED
      BY <1>3, <1>9, <1>10, <3>1, <3>2 DEF Ignored, Begun
  <2>2. t \in flight
    BY <1>8, <2>1 DEF Begun
  <2> QED
    BY <1>5, <1>7, <1>9, <2>1, <2>2, TimelyBegun
<1>12. CASE core.tl.session = tl.session
  <2>1. /\ ~hasty
        /\ Initialized(c) \/ core'.tl.cur.time <= now
    <3>1. ~Hasty(m)
      BY <1>3 DEF FollowerPass
    <3>2. core'.tl.cur.time \in Nat
      BY <1>2, <1>7, <1>9, TickCoherent
         DEF Coherent, IsCore, HeldTimelines, Segment
    <3> QED
      BY <1>2, <1>3, <1>4, <1>12, <3>1, <3>2 DEF Hasty
  <2>2. Timely(core, local, now)
    BY <1>3, <1>12, <2>1 DEF PunctualInv
  <2>3. CASE Initialized(c)
    <3>1. \/ c.offset = core.offset /\ c.sampled = core.sampled
          \/ c.offset <= now - local
      BY <1>3, <1>4, ReplyOffset
    <3>2. Punctual(c, local, now)
      BY <1>5, <2>2, <2>3, <3>1 DEF Punctual, Timely, Initialized
    <3> QED
      BY <1>3, <1>5, <1>6, <1>7, <1>9, <1>10, <1>12, <3>2, TimelyRevised
  <2>4. CASE ~Initialized(c)
    <3>1. ~Initialized(d)
      BY <1>9, <2>4 DEF Ignored, Begun, Revised, Initialized
    <3>2. ~Initialized(core')
      BY <1>7, <1>9, <3>1, TickUnmapped
    <3> QED
      BY <2>1, <2>4, <3>2, TimelyUnmapped
  <2> QED
    BY <2>3, <2>4
<1> QED
  BY <1>11, <1>12

LEMMA PunctualLink ==
  ASSUME AccountInv, PunctualInv, Connect \/ Disconnect, UNCHANGED <<leader, local>>,
         env'.errors = env.errors
  PROVE  PunctualInv'
<1>1. /\ UNCHANGED <<now, tl, bytes, hasty>> /\ flight' \subseteq {bytes}
      /\ Coherent(core) /\ local \in Nat /\ now \in Nat /\ tl.session # NONE
  BY SnapshotType
     DEF leader, Connect, Disconnect, FirstGroups, AccountInv, CoreKeeps, LeaderKeeps, Orderly
<1>2. PICK c : (c = Connected(core) \/ c = Disconnected(core)) /\ core' = TickCore(c, local)
  BY DEF Connect, Disconnect
<1>3. Coherent(c) /\ c.tl = core.tl /\ c.offset = core.offset /\ c.sampled = core.sampled
  BY <1>1, <1>2, LinkCoherent
<1>4. core'.tl.session = c.tl.session
  BY <1>1, <1>2, <1>3, TickCoherent DEF Keeps
<1>5. LeavesBehind /\ ~hasty /\ core'.tl.session = tl.session => Timely(core', local, now)
  <2>1. SUFFICES ASSUME LeavesBehind, ~hasty, core'.tl.session = tl.session
                 PROVE  Timely(core', local, now)
    OBVIOUS
  <2>2. Timely(core, local, now)
    BY <1>3, <1>4, <2>1 DEF PunctualInv
  <2>3. CASE Initialized(c)
    <3>1. Punctual(c, local, now)
      BY <1>3, <2>2, <2>3 DEF Timely, Punctual, Initialized
    <3>2. Punctual(core', local, now)
      BY <1>1, <1>2, <1>3, <1>4, <2>1, <3>1, TickPunctual
    <3> QED
      BY <3>2, TimelyMapped
  <2>4. CASE ~Initialized(c)
    <3>1. core'.tl = core.tl /\ ~Initialized(core')
      BY <1>2, <1>3, <2>4, TickUnmapped
    <3> QED
      BY <2>2, <3>1, TimelyUnmapped DEF Timely
  <2> QED
    BY <2>3, <2>4
<1> QED
  BY <1>1, <1>5 DEF PunctualInv, LeavesBehind

LEMMA PunctualStep ==
  ASSUME KIND = "Generated", AccountInv, PunctualInv, [Next]_vars
  PROVE  PunctualInv'
<1>1. LeadersInv /\ env \in Bounds /\ now \in Nat /\ bytes.cur.time \in Nat
  BY SegmentNumbers DEF AccountInv, ReplicaInv, LeaderKeeps, Orderly
<1>2. CASE Command
  <2>1. /\ SameName(tl, tl') /\ UNCHANGED <<bytes, core, flight, hasty>> /\ env'.errors = env.errors
    BY <1>1, <1>2, CommandKeepsName, SpendBounds DEF Command
  <2>2. UNCHANGED <<now, local>>
    BY <1>2 DEF Command, ends, L!ChangeCmd, L!SessionIdCmd, L!SampleCmd
  <2> QED
    BY <2>1, <2>2, PunctualFrame DEF PunctualInv, SameName
<1>3. CASE Pass
  <2>1. /\ UNCHANGED <<now, local, core, hasty, env>> /\ flight' \subseteq flight \cup {bytes'}
    BY <1>3 DEF Pass, ends, L!FinishPass
  <2>2. /\ LeaderKeeps'
        /\ UNCHANGED <<tl, bytes>> \/ (bytes' = tl' /\ tl'.session = tl.session)
    BY <1>1, <1>3, PassPublishes, PassContinues DEF AccountInv
  <2>3. bytes'.cur.time <= now' /\ tl'.session = tl.session
    BY <2>1, <2>2 DEF PunctualInv, LeaderKeeps
  <2> QED
    BY <2>1, <2>3, PunctualFrame
<1>4. CASE Elapse
  <2>1. /\ UNCHANGED <<tl, bytes, core, flight, hasty, env>>
        /\ now' = now + 1 /\ local' = local + 1
    BY <1>4 DEF Elapse, L!Tick
  <2>2. bytes'.cur.time <= now'
    BY <1>1, <2>1 DEF PunctualInv
  <2> QED
    BY <2>1, <2>2, PunctualFrame
<1>5. CASE \E s \in SESSIONS : Restart(s)
  <2>1. PICK s \in SESSIONS : Restart(s)
    BY <1>5
  <2>2. /\ tl' = L!InitialTimeline(s, tl.part, tl.format, 0, 0, START) /\ bytes' = tl'
        /\ now' = START /\ START \in Nat /\ UNCHANGED <<core, link, flight>>
    BY <2>1, SessionAssumption DEF Restart, ends
  <2>3. tl'.session = s /\ bytes'.cur.time = now'
    BY <2>2 DEF L!InitialTimeline
  <2>4. core.tl.session # s /\ \A t \in flight : t.session # s
    BY <2>1, Unheard DEF AccountInv, ReplicaInv, FlightInv
  <2> QED
    BY <2>2, <2>3, <2>4 DEF PunctualInv
<1>6. CASE Connect \/ Break \/ NoticeDeath
  <2>1. (Connect \/ Disconnect) /\ UNCHANGED <<leader, local>>
    BY <1>6 DEF Connect, Break, NoticeDeath, Disconnect
  <2>2. env'.errors = env.errors
    BY <1>1, <1>6, SpendBounds DEF Connect, Break, NoticeDeath
  <2> QED
    BY <2>1, <2>2, PunctualLink
<1>7. CASE \E m \in Exchanges \cup {NONE}, t \in flight \cup {NONE} : FollowerPass(m, t)
  BY <1>7, PunctualFollower
<1>8. CASE (\E t \in flight : Lose(t)) \/ UNCHANGED vars
  <2>1. /\ UNCHANGED <<now, tl, bytes, core, local, hasty>> /\ flight' \subseteq flight
        /\ env'.errors = env.errors
    BY <1>1, <1>8, SpendBounds DEF Lose, ends, leader, vars
  <2> QED
    BY <2>1, PunctualFrame DEF PunctualInv
<1> QED
  BY <1>2, <1>3, <1>4, <1>5, <1>6, <1>7, <1>8 DEF Next

(* The last change due is the one that plays, once the active one is due.  *)
LEMMA LatestDue ==
  ASSUME NEW t, Orderly(t), NEW at \in Nat, t.cur.time <= at
  PROVE  /\ Active(t, at) \in Segments(t) /\ Active(t, at).time <= at
         /\ \A s \in Segments(t) : s.time <= at => s.disc <= Active(t, at).disc
<1>1. /\ t \in Timelines /\ Len(t.sched) \in Nat /\ DueAt(t, at) \in SUBSET (0..Len(t.sched))
      /\ \A s \in Segments(t) : s.disc \in Nat /\ t.cur.disc <= s.disc
  BY SegmentNumbers DEF Orderly, Timelines, DueAt
<1>2. CASE DueAt(t, at) = {}
  BY <1>1, <1>2 DEF Active, Segments, DueAt
<1>3. CASE DueAt(t, at) # {}
  <2>1. PICK last \in DueAt(t, at) : last = Max(DueAt(t, at)) /\ \A i \in DueAt(t, at) : i <= last
    BY <1>1, <1>3, MaxBounded
  <2>2. Active(t, at) = t.sched[last] /\ last \in 1..Len(t.sched) /\ t.sched[last].time <= at
    BY <1>3, <2>1 DEF Active, DueAt
  <2>3. ASSUME NEW s \in Segments(t), s.time <= at PROVE s.disc <= t.sched[last].disc
    <3>1. CASE s = t.cur
      BY <1>1, <2>2, <3>1 DEF Segments
    <3>2. CASE s # t.cur
      <4>1. PICK i \in 1..Len(t.sched) : s = t.sched[i]
        BY <3>2 DEF Segments
      <4>2. i <= last
        BY <2>1, <2>3, <4>1 DEF DueAt
      <4>3. CASE i = last
        BY <1>1, <4>1, <4>3
      <4>4. CASE i # last
        <5>1. i < last
          BY <1>1, <2>2, <4>2, <4>4
        <5>2. t.sched[i].disc < t.sched[last].disc
          BY <2>2, <5>1 DEF Orderly, Ascending
        <5>3. t.sched[i].disc \in Nat /\ t.sched[last].disc \in Nat
          BY <1>1, <2>2 DEF Segments
        <5> QED
          BY <4>1, <5>2, <5>3
      <4> QED
        BY <4>3, <4>4
    <3> QED
      BY <3>1, <3>2
  <2> QED
    BY <2>2, <2>3 DEF Segments
<1> QED
  BY <1>2, <1>3

LEMMA HighestIs ==
  ASSUME NEW t, Orderly(t)
  PROVE  /\ Highest(t) \in Nat
         /\ \E s \in Segments(t) : s.disc = Highest(t)
         /\ \A s \in Segments(t) : s.disc <= Highest(t)
<1> DEFINE Numbers == {s.disc : s \in Segments(t)}
<1>1. /\ t \in Timelines /\ Len(t.sched) \in Nat
      /\ t.cur \in Segments(t)
      /\ \A s \in Segments(t) : s.disc \in Nat /\ t.cur.disc <= s.disc
  BY SegmentNumbers DEF Orderly, Timelines
<1>2. \E top \in Segments(t) : \A s \in Segments(t) : s.disc <= top.disc
  <2>1. CASE Len(t.sched) = 0
    BY <1>1, <2>1 DEF Segments
  <2>2. CASE Len(t.sched) # 0
    <3>1. PICK n \in 1..Len(t.sched) : n = Len(t.sched)
      BY <1>1, <2>2
    <3>2. t.sched[n] \in Segments(t)
      BY DEF Segments
    <3>3. ASSUME NEW s \in Segments(t) PROVE s.disc <= t.sched[n].disc
      <4>1. CASE s = t.cur
        BY <1>1, <3>2, <4>1
      <4>2. CASE s # t.cur
        <5>1. PICK i \in 1..Len(t.sched) : s = t.sched[i]
          BY <4>2 DEF Segments
        <5>2. i = n \/ t.sched[i].disc < t.sched[n].disc
          BY <1>1, <3>1 DEF Orderly, Ascending
        <5>3. s.disc \in Nat /\ t.sched[n].disc \in Nat
          BY <1>1, <3>2
        <5> QED
          BY <5>1, <5>2, <5>3
      <4> QED
        BY <4>1, <4>2
    <3> QED
      BY <3>2, <3>3
  <2> QED
    BY <2>1, <2>2
<1>3. \E top \in Numbers : \A x \in Numbers : top >= x
  <2>1. PICK top \in Segments(t) : \A s \in Segments(t) : s.disc <= top.disc
    BY <1>2
  <2>2. top.disc \in Numbers /\ \A x \in Numbers : top.disc >= x
    BY <1>1, <2>1
  <2> QED
    BY <2>2
<1>4. /\ Highest(t) \in Numbers
      /\ \A x \in Numbers : Highest(t) >= x
  <2>1. Highest(t) = Max(Numbers)
    BY DEF Highest
  <2> HIDE DEF Numbers
  <2> QED
    BY <1>3, <2>1 DEF Max
<1> QED
  BY <1>1, <1>4

(* The argument of InStep: both play the highest number due, and neither   *)
(* has one due that the other has not.                                     *)
LEMMA AgreeWhenHeard ==
  ASSUME NEW u, Orderly(u), NEW a, Orderly(a), Covers(u, a), Highest(a) = Highest(u),
         NEW at \in Nat, u.cur.time <= at, a.cur.time <= at
  PROVE  Active(a, at) = Active(u, at)
<1>1. PICK p : p = Active(a, at)
  OBVIOUS
<1>2. PICK q : q = Active(u, at)
  OBVIOUS
<1>3. /\ p \in Segments(a) /\ p.time <= at /\ p.disc \in Nat
      /\ \A s \in Segments(a) : s.time <= at => s.disc <= p.disc
  BY <1>1, LatestDue, SegmentNumbers DEF Orderly
<1>4. /\ q \in Segments(u) /\ q.time <= at /\ q.disc \in Nat
      /\ \A s \in Segments(u) : s.time <= at => s.disc <= q.disc
  BY <1>2, LatestDue, SegmentNumbers DEF Orderly
<1>5. /\ a.cur \in Segments(a) /\ a.cur.disc \in Nat
      /\ u.cur \in Segments(u) /\ u.cur.disc \in Nat
  BY SegmentNumbers DEF Orderly
<1>6. p.disc <= q.disc
  <2>1. CASE p \in Segments(u)
    BY <1>3, <1>4, <2>1
  <2>2. CASE p.disc < u.cur.disc
    <3>1. u.cur.disc <= q.disc
      BY <1>4, <1>5
    <3> QED
      BY <1>3, <1>4, <1>5, <2>2, <3>1
  <2> QED
    BY <1>3, <2>1, <2>2 DEF Covers
<1>7. p.disc = q.disc
  <2>1. CASE q \in Segments(a)
    <3>1. q.disc <= p.disc
      BY <1>3, <1>4, <2>1
    <3> QED
      BY <1>3, <1>4, <1>6, <3>1
  <2>2. CASE q.disc < a.cur.disc
    <3>1. a.cur.disc <= p.disc
      BY <1>3, <1>5
    <3> QED
      BY <1>3, <1>4, <1>5, <1>6, <2>2, <3>1
  <2>3. ~ \A s \in Segments(a) : s.disc < q.disc
    <3>1. q.disc <= Highest(a) /\ Highest(a) \in Nat
      BY <1>4, HighestIs
    <3>2. PICK s \in Segments(a) : s.disc = Highest(a)
      BY HighestIs
    <3> QED
      BY <1>4, <3>1, <3>2
  <2> QED
    BY <1>4, <2>1, <2>2, <2>3 DEF Covers
<1> QED
  BY <1>1, <1>2, <1>3, <1>4, <1>7, CoversAgrees DEF Orderly

LEMMA PunctualInStep ==
  ASSUME AccountInv, PunctualInv
  PROVE  InStep
<1>1. SUFFICES ASSUME (LeavesBehind /\ ~hasty) \/ core.tl.cur.time <= now,
                      Initialized(core), core.tl.session = tl.session,
                      core.offset = now - local, Highest(core.tl) = Highest(tl)
               PROVE  Playing(core, local) = Active(tl, now)
  BY DEF InStep
<1>2. /\ Orderly(tl) /\ Orderly(bytes) /\ Continues(tl, bytes) /\ now \in Nat
      /\ tl.cur.time <= now
      /\ Coherent(core) /\ local \in Nat /\ Accounts(bytes, core.tl)
  BY <1>1 DEF AccountInv, LeaderKeeps, CoreKeeps
<1>3. Orderly(core.tl)
  BY <1>1, <1>2, SnapshotType DEF Coherent, Orderly
<1>4. Covers(tl, core.tl)
  BY <1>2, <1>3, AccountsOnward DEF Accounts
<1>5. core.tl.cur.time <= now
  BY <1>1 DEF PunctualInv, Timely
<1>6. EvaluatedAt(core, local) = now
  <2>1. core.sync # "Uninitialized"
    BY <1>1, <1>2 DEF Coherent, Initialized
  <2>2. local + core.offset = now
    BY <1>1, <1>2
  <2> QED
    BY <1>2, <2>1, <2>2, MaxPair DEF EvaluatedAt, LeaderTime
<1> QED
  BY <1>1, <1>2, <1>3, <1>4, <1>5, <1>6, AgreeWhenHeard DEF Playing

(* Controls take effect together: a follower that has heard of every       *)
(* control and knows the offset plays what the leader plays, whatever was  *)
(* lost, reordered, latched or promoted meanwhile, whichever clock is the  *)
(* further on, and through restarts of the leader (FollowerCore::state and *)
(* tick, LeaderJob::progress).  A follower whose paths leave it behind     *)
(* latches nothing that is not due at the leader, but for a snapshot that  *)
(* was advanced by its own clock before the first exchange (hasty).        *)
THEOREM SessionInStep ==
  ASSUME KIND = "Generated"
  PROVE  Spec => []InStep
<1>1. Init => AccountInv
  BY AccountsInitially
<1>2. Init /\ AccountInv => PunctualInv
  <2> SUFFICES ASSUME Init, AccountInv PROVE PunctualInv
    OBVIOUS
  <2>1. bytes = tl /\ flight = {} /\ core = NewCore
    BY DEF Init, L!Init
  <2>2. tl.session # NONE /\ tl.cur.time <= now
    BY SnapshotType DEF AccountInv, LeaderKeeps, Orderly
  <2> QED
    BY <2>1, <2>2, NewCoherent DEF PunctualInv
<1>3. AccountInv /\ [Next]_vars => AccountInv'
  BY AccountStep
<1>4. AccountInv /\ PunctualInv /\ [Next]_vars => PunctualInv'
  BY PunctualStep
<1>5. AccountInv /\ PunctualInv => InStep
  BY PunctualInStep
<1> QED
  BY <1>1, <1>2, <1>3, <1>4, <1>5, PTL DEF Spec
=============================================================================
