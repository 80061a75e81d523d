---------------------------- MODULE MetricValues ----------------------------
(* A number with its source (shared/metrics.ts).                           *)
EXTENDS Integers, FiniteSetsExt

Sources == {"PLATFORM_API", "DERIVED", "UNSUPPORTED", "NOT_SYNCED"}
Unknown == -1
Blank(source) == [value |-> Unknown, source |-> source]
FromApi(n) == [value |-> n, source |-> "PLATFORM_API"]
Derived(n) == [value |-> n, source |-> "DERIVED"]
Usable(v) == v.value # Unknown /\ v.source \in {"PLATFORM_API", "DERIVED"}

(* computeEngagementRate, as <<interactions, denominator>>: a part that is *)
(* not known does not count, a denominator that is not there or 0 leaves   *)
(* the rate unknown.                                                       *)
EngagementRate(parts, reach, impressions) ==
  LET known == {i \in DOMAIN parts : parts[i].value # Unknown /\ parts[i].source = "PLATFORM_API"}
      denominator == IF reach.value # Unknown THEN reach.value ELSE impressions.value
  IN IF known = {} \/ denominator <= 0 THEN <<>>
     ELSE <<SumFunctionOnSet([i \in DOMAIN parts |-> parts[i].value], known), denominator>>
=============================================================================
