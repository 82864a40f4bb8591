---------------------------- MODULE RiskRulePass ----------------------------
(***************************************************************************)
(* process_risk_rules as the loop it is: the rules visited one after the   *)
(* other, each seeing what the exits of the earlier ones did to the legs.  *)
(* Portfolio states the outcome of the whole pass without a loop; here the *)
(* two are compared.                                                       *)
(***************************************************************************)
EXTENDS Portfolio

\* The loop's state: the legs, which rules have fired, and the openings withdrawn.
Start == [leg |-> leg, fired |-> [i \in DOMAIN rules |-> rules[i].fired], dropped |-> {}]

Fire(i, st) == [st EXCEPT !.fired[i] = TRUE]

ExitLeg(lf, l) ==
  IF lf[l].state = "Open" THEN [lf EXCEPT ![l] = Exiting(@)] ELSE lf

ExitLegs(lf, p) ==
  LET upto[i \in 0 .. MaxLegs] == IF i = 0 THEN lf ELSE ExitLeg(upto[i - 1], <<p, i>>)
  IN  upto[MaxLegs]

\* submit_close(rule.position): unfilled openings first, then each leg in turn.
ExitPosition(st, p) ==
  LET dropped == {o \in pending \ st.dropped : o.leg[1] = p /\ ~o.closing}
      kept    == [l \in LegIds |-> IF \E o \in dropped : o.leg = l
                                   THEN InState(st.leg[l], "Cancelled") ELSE st.leg[l]]
  IN  [st EXCEPT !.leg = ExitLegs(kept, p), !.dropped = @ \cup dropped]

\* One turn of the loop, its early continues in their order.
Visit(i, st) ==
  LET r == rules[i]
      p == r.position
      n == Cardinality(LegsOf(st.leg, p))
  IN  IF st.fired[i] THEN st
      ELSE IF ~IsOpen(st.leg, p) THEN Fire(i, st)
      ELSE IF r.leg # Whole /\ r.leg > n THEN Fire(i, st)
      ELSE IF r.leg # Whole /\ st.leg[<<p, r.leg>>].state # "Open" THEN st
      ELSE IF r.leg = Whole /\ ~Established(st.leg, p) THEN st
      ELSE IF ~Triggered(st.leg, r) THEN st
      ELSE IF r.leg = Whole THEN ExitPosition(Fire(i, st), p)
      ELSE [Fire(i, st) EXCEPT !.leg = ExitLeg(@, <<p, r.leg>>)]

Visits ==
  LET upto[n \in 0 .. Len(rules)] == IF n = 0 THEN Start ELSE Visit(n, upto[n - 1])
  IN  upto[Len(rules)]

\* The pass leaves the legs, the fired flags and the cancelled orders as the loop
\* does, whatever the rules' order and however many of them aim at one leg.
RulePassIsTheLoop ==
  [][ProcessRiskRules =>
       /\ leg' = Visits.leg
       /\ \A i \in DOMAIN rules : rules'[i].fired = Visits.fired[i]
       /\ pending \ pending' = Visits.dropped]_vars
=============================================================================
