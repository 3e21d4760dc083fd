-------------------------------- MODULE Clock --------------------------------
(***************************************************************************)
(* The clock estimator (ClockEstimator of protocol/src/clock.rs): which    *)
(* exchanges it keeps, which it quarantines, when a quarantined run        *)
(* replaces what it had, and what it then says of the leader's clock.      *)
(*                                                                         *)
(* Offsets, radii and uncertainties are doubled, so that the halves of the *)
(* NTP formulas are whole.  Samples carry their age instead of their       *)
(* midpoint: nothing looks at anything but differences.  Both clocks run   *)
(* at the same rate, so the fitted drift is 0 and the fit is the mean of   *)
(* the selected offsets; the leader's clock may step.                      *)
(***************************************************************************)
EXTENDS Integers, Sequences, FiniteSets, FiniteSetsExt, SequencesExt

CONSTANTS Steps,     \* times between midpoints; 0 stands for none, or backwards
          Paths,     \* delays there and back: pairs
          Clocks,    \* what the leader's clock may be ahead
          HISTORY,   \* age at which a sample is dropped (32 s)
          CAP,       \* samples kept (128)
          KNOWN,     \* samples before delays are judged (8)
          SELECTED,  \* samples the fit uses at least (4)
          CONVERGED, \* samples of a converged mapping (12)
          RUN,       \* quarantined samples of a run that is believed (8)
          RUN_CAP,   \* quarantined samples kept (16)
          SPAN,      \* time such a run, or a converged mapping, spans (500 ms)
          RUN_SPAN,  \* time after which a run is another one (5 s)
          DELAY_SLACK, OFFSET_SLACK, \* 20 ms, 5 ms
          PHASE_NEAR, DELAY_NEAR,    \* 2 ms, 5 ms: samples of one run
          HOLDOVER,  \* time in which the uncertainty grows by one
          FLOOR,     \* scheduling allowance (100 us)
          MAX_COUNT  \* where accepted_observations saturates (2^64 - 1)

ASSUME ClockAssumption ==
  /\ Steps \subseteq Nat /\ Paths \subseteq Nat \X Nat /\ Clocks \subseteq Int
  /\ {CAP, KNOWN, SELECTED, CONVERGED, RUN, HOLDOVER} \subseteq Nat \ {0}
  /\ {HISTORY, SPAN, RUN_SPAN, FLOOR, MAX_COUNT} \subseteq Nat
  /\ {DELAY_SLACK, OFFSET_SLACK, PHASE_NEAR, DELAY_NEAR, RUN_CAP} \subseteq Nat
  /\ RUN <= RUN_CAP /\ RUN_CAP <= CAP /\ CAP <= MAX_COUNT

VARIABLES
  leads,    \* what the leader's clock is ahead now
  samples,  \* ClockEstimator.samples: [age, offset, delay, leads]
  recovery, \* ClockEstimator.recovery, the same
  mapping,  \* ClockEstimator.mapping
  spikes    \* history: outliers since an exchange was accepted, RUN_CAP at most

clockVars == <<leads, samples, recovery, mapping, spikes>>

NoMapping == [sampled |-> FALSE, offset |-> 0, radius |-> 0, age |-> 0, leads |-> {},
              converged |-> FALSE, count |-> 0, lower |-> 0, upper |-> 0]

ClockInit ==
  /\ leads \in Clocks
  /\ samples = <<>> /\ recovery = <<>> /\ spikes = <<>>
  /\ mapping = NoMapping

Distance(x, y) == IF x < y THEN y - x ELSE x - y
Larger(x, y) == IF x < y THEN y ELSE x
Aged(s, step) == [i \in DOMAIN s |-> [s[i] EXCEPT !.age = @ + step]]
Keep(s, n) == SubSeq(s, Larger(1, Len(s) - n + 1), Len(s))
Growth(age) == age \div HOLDOVER
Oldest(s) == Head(s).age

(* What an exchange over a path measures.                                  *)
Measured(path) ==
  [age |-> 0, offset |-> 2 * leads + path[1] - path[2], delay |-> path[1] + path[2], leads |-> leads]

(* The oldest samples are dropped as long as they are out of the history.  *)
Recent(step) ==
  LET aged == Aged(samples, step)
      kept == {i \in 1 .. Len(aged) + 1 : i \in DOMAIN aged => aged[i].age <= HISTORY}
  IN SubSeq(aged, Min(kept), Len(aged))

(* ClockMapping::uncertainty_at.  A receipt is as old as its midpoint.     *)
UncertaintyAt(step) == mapping.radius + 2 * Growth(mapping.age + step)

DelayOutlier(old, x) ==
  Len(old) >= KNOWN /\ x.delay > Min({old[i].delay : i \in DOMAIN old}) + DELAY_SLACK

(* Variant: the mapping is believed when nothing is left of what it came   *)
(* from.                                                                   *)
StubbornOutlier(old, step, x) ==
  mapping.converged
  /\ Distance(x.offset, mapping.offset) > UncertaintyAt(step) + x.delay + 2 * OFFSET_SLACK

OffsetOutlier(old, step, x) ==
  /\ old # <<>> /\ mapping.converged
  /\ Distance(x.offset, mapping.offset) > UncertaintyAt(step) + x.delay + 2 * OFFSET_SLACK

(* Whether a quarantined sample belongs to the run of the first of them.   *)
SameRun(first, x) ==
  /\ Distance(x.offset, first.offset) <= Larger(first.delay \div 2, 2 * PHASE_NEAR)
  /\ Distance(x.delay, first.delay) <= Larger(first.delay \div 4, DELAY_NEAR)
  /\ first.age <= RUN_SPAN

Quarantined(step, x) ==
  LET run == Aged(recovery, step)
  IN Keep(Append(IF run # <<>> /\ SameRun(Head(run), x) THEN run ELSE <<>>, x), RUN_CAP)

Believed(run) == Len(run) >= RUN /\ Oldest(run) >= SPAN

-----------------------------------------------------------------------------
(* The fit: the half of the samples with the lowest delays, the younger    *)
(* first among equals; their mean; the worst of them and the tightest of   *)
(* their bounds.                                                           *)
Selection(s) ==
  LET n == Min({Len(s), Larger(Len(s) \div 2, SELECTED)})
      Before(j, i) == s[j].delay < s[i].delay \/ (s[j].delay = s[i].delay /\ j > i)
  IN {i \in DOMAIN s : Cardinality({j \in DOMAIN s : Before(j, i)}) < n}

(* Variant: how well the samples agree does not count.                     *)
BareRadius(s, chosen, fit) == Min({s[i].delay + 2 * Growth(s[i].age) : i \in chosen}) + 2 * FLOOR

Radius(s, chosen, fit) ==
  Min({s[i].delay + 2 * Growth(s[i].age) : i \in chosen})
    + Max({Distance(s[i].offset, fit) : i \in chosen}) + 2 * FLOOR

FittedTo(s, chosen, fit, count) ==
  [sampled |-> TRUE, offset |-> fit, radius |-> Radius(s, chosen, fit), age |-> 0,
   leads |-> {s[i].leads : i \in DOMAIN s}, count |-> count,
   converged |-> Len(s) >= CONVERGED /\ Oldest(s) >= SPAN,
   lower |-> Max({s[i].offset - s[i].delay - 2 * FLOOR : i \in DOMAIN s}),
   upper |-> Min({s[i].offset + s[i].delay + 2 * FLOOR : i \in DOMAIN s})]

OffsetSum(s, chosen) ==
  FoldLeftDomain(LAMBDA acc, i : acc + (IF i \in chosen THEN s[i].offset ELSE 0), 0, s)

Fitted(s, count) ==
  LET chosen == Selection(s)
  IN FittedTo(s, chosen, OffsetSum(s, chosen) \div Cardinality(chosen), count)

-----------------------------------------------------------------------------
(* ClockEstimator::observe_inner.  An exchange whose midpoint is not after *)
(* the last one, or that is no exchange, changes nothing.                  *)
Refuse == 0 \in Steps /\ UNCHANGED clockVars

Noted(outlier, x) ==
  spikes' = IF outlier
              THEN Keep(Append(spikes, [offset |-> x.offset, delay |-> x.delay]), RUN_CAP)
              ELSE <<>>

Rejects(old, step, run) ==
  /\ samples' = old /\ recovery' = run
  /\ mapping' = [mapping EXCEPT !.age = Min({@ + step, HISTORY})]

Replaces(run) ==
  /\ samples' = run /\ recovery' = <<>>
  /\ mapping' = Fitted(run, Len(run))

(* Variant: what was quarantined before an accepted sample stays so.       *)
LeftOver(step) == Aged(recovery, step)
Cleared(step) == <<>>

Accepts(old, step, x) ==
  LET new == Keep(Append(old, x), CAP)
  IN /\ samples' = new /\ recovery' = Cleared(step)
     /\ mapping' = Fitted(samples', IF old = <<>> THEN 1 ELSE Min({mapping.count + 1, MAX_COUNT}))

Observe(step, x) ==
  \E old \in {Recent(step)}, run \in {Quarantined(step, x)} :
    LET outlier == DelayOutlier(old, x) \/ OffsetOutlier(old, step, x)
    IN /\ \/ outlier /\ ~Believed(run) /\ Rejects(old, step, run)
          \/ outlier /\ Believed(run) /\ Replaces(run)
          \/ ~outlier /\ Accepts(old, step, x)
       /\ Noted(outlier, x)
       /\ UNCHANGED leads

Observes == \E step \in Steps \ {0}, path \in Paths : Observe(step, Measured(path))

(* The leader's host corrects its clock, or another leader answers.        *)
LeaderSteps ==
  /\ leads' \in Clocks \ {leads}
  /\ UNCHANGED <<samples, recovery, mapping, spikes>>

ClockNext == Refuse \/ Observes \/ LeaderSteps

(* Exchanges keep coming: the steps that leave the leader's clock alone.   *)
ClockFairness == []<><<leads' = leads>>_clockVars
ClockSpec == ClockInit /\ [][ClockNext]_clockVars /\ ClockFairness

-----------------------------------------------------------------------------
(* A mapping fitted to what one leader clock measured is no further from   *)
(* it than its uncertainty says, and its evidence contains it, whatever    *)
(* the paths do to single exchanges (clock.rs 283: the bound of a sample,  *)
(* the residual of the fit).                                               *)
BoundsAreHonest ==
  mapping.sampled /\ mapping.leads = {leads} =>
    /\ Distance(mapping.offset, 2 * leads) <= UncertaintyAt(0)
    /\ mapping.lower <= 2 * leads /\ 2 * leads <= mapping.upper

(* clock.rs:218, "a single spike never changes the map": an outlier moves  *)
(* it only as the last of RUN outliers or more without an accepted sample  *)
(* between them, that agree with the first of them in offset and delay.    *)
Agree(first, x) ==
  /\ Distance(x.offset, first.offset) <= Larger(first.delay \div 2, 2 * PHASE_NEAR)
  /\ Distance(x.delay, first.delay) <= Larger(first.delay \div 4, DELAY_NEAR)

SpikesNeverMove ==
  [][mapping'.offset # mapping.offset /\ spikes' # <<>> =>
       \E f \in 1 .. Len(spikes') - RUN + 1 :
         \A i \in f .. Len(spikes') : Agree(spikes'[f], spikes'[i])]_clockVars

(* However often the leader's clock stepped, once it no longer does the    *)
(* estimator comes to within half a round trip of it, and stays.           *)
WorstDelay == Max({p[1] + p[2] : p \in Paths})
Reacquires ==
  <>[][leads' = leads]_leads =>
    <>[](mapping.sampled /\ Distance(mapping.offset, 2 * leads) <= WorstDelay)
=============================================================================
