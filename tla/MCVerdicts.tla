---------------------------- MODULE MCVerdicts -----------------------------
(***************************************************************************)
(* Raw metrics on both sides of every clamp and threshold; foreign         *)
(* payloads that differ from a good one in at most two fields.             *)
(***************************************************************************)
EXTENDS Verdicts

RawReports ==
    [active_users : {700}, throughput_mbps : {-1, 0, 1, 100, 900},
     latency_ms : {0, 60, 90, 200, 2500}, packet_loss_pct : {0, 4, 12, 50, 120},
     signal_strength_dbm : {-150, -80}, cpu_usage_pct : {-3, 85, 110},
     memory_usage_pct : {75}]

Good == Event([f \in Metrics |-> IF f = "signal_strength_dbm" THEN -101
                                 ELSE IF f = "active_users" THEN 700 ELSE 40], "NONE", 0)

Odd(f) ==
    {Null, Text("")} \cup (IF f = "timestamp" THEN {} ELSE {Num(-1)}) \cup
    (CASE f = "timestamp" -> {Time(-6), Time(1000), Text("missing"), Text("signal")}
       [] f = "active_users" -> {NaN, Num(5000), Text("required")}
       [] f = "latency_ms" -> {NaN, Num(50), Num(80), Num(150)}
       [] f = "packet_loss_pct" -> {Num(3), Num(9), Num(10), Num(50), Num(51), Num(101)}
       [] f \in Metrics -> {NaN, Num(1), Num(100), Num(-141)}
       [] f = "site_id" -> {Text("SITE2"), Text("other")}
       [] f = "region" -> {NUL}
       [] f = "technology" -> {Text("3G"), Text("missing")}
       [] OTHER -> {Text("other")})

With(p, f, x) == [p EXCEPT ![f] = x]
Without(p, f) == [g \in DOMAIN p \ {f} |-> p[g]]

OneChange == UNION {{Without(Good, f)} \cup {With(Good, f, x) : x \in Odd(f)} : f \in Required}
TwoChanges ==
    UNION {{With(p, f, x) : x \in Odd(f)} :
        <<p, f>> \in {<<q, g>> \in OneChange \X Required : g \in DOMAIN q}}
ForeignPayloads == {Good} \cup OneChange \cup TwoChanges

SeededSites == {"SITE", "SITE2"}

LagsInMinutes == {-5, 0, 60}
=============================================================================
