---------------------------- MODULE LoadScenario ----------------------------
(***************************************************************************)
(* test/load_scenario.py: the phases of a load scenario and the number of  *)
(* users they ask for second by second.  A phase is                        *)
(* [type, duration, from, to].                                             *)
(***************************************************************************)
EXTENDS Integers, Sequences, SequencesExt

CONSTANT MaxDuration  \* LoadScenario.max_duration_s

ASSUME ScenarioAssumption == MaxDuration \in Nat

\* LoadPhase.validate and LoadScenario.validate.  Only a ramp looks at from.
IsPhase(p) ==
    /\ p.type \in {"ramp", "steady"}
    /\ p.duration > 0 /\ p.to >= 0
    /\ p.type = "ramp" => p.from >= 0
Duration(phases) == SumFunction([i \in DOMAIN phases |-> phases[i].duration])
IsScenario(phases) ==
    /\ phases # <<>>
    /\ \A i \in DOMAIN phases : IsPhase(phases[i])
    /\ Duration(phases) <= MaxDuration

-----------------------------------------------------------------------------
\* Python's round(n / d) for d > 0: a tie goes to the even neighbour.
Round(n, d) ==
    LET q == n \div d
        r == 2 * (n % d)
    IN  IF r > d \/ (r = d /\ q % 2 = 1) THEN q + 1 ELSE q

\* Mutant of Interpolated: the last second of a ramp falls short of its target.
InterpolatedShort(p, i) == Round(p.from * p.duration + (p.to - p.from) * i, p.duration)

\* The users of a ramp of at least two seconds in its second i (from 0).
Interpolated(p, i) ==
    Round(p.from * (p.duration - 1) + (p.to - p.from) * i, p.duration - 1)

Target(p, i) ==
    IF p.type = "steady" \/ p.duration = 1 THEN p.to
    ELSE IF Interpolated(p, i) < 0 THEN 0 ELSE Interpolated(p, i)

\* LoadScenario.build_users_timeline.
Timeline(phases) ==
    FlattenSeq([j \in DOMAIN phases |->
        [i \in 1..phases[j].duration |-> Target(phases[j], i - 1)]])

\* max(timeline); a valid scenario has a timeline that is not empty.
Peak(timeline) == FoldLeft(LAMBDA m, n : IF n > m THEN n ELSE m, 0, timeline)
=============================================================================
