----------------------------- MODULE MCLoadTest -----------------------------
(***************************************************************************)
(* Small instance of LoadTest.  WebSocket and gRPC: Main and two helpers,  *)
(* a pool of one and three connections, two channels, two stub classes.    *)
(* HTTP: every class, every provider, tokens of at most two seconds.       *)
(* Generated: the documents of MCLocustFile.  Observed live: two           *)
(* endpoints, a fast answer and a slow failure, two rules, one of them     *)
(* added later.  From the CSV file: every kind of shape, a spike that is a *)
(* dip among them, latencies that are even or grow with the users,         *)
(* failures of one user or of all.                                         *)
(***************************************************************************)
EXTENDS LoadTest, MCLocustFile

CONSTANTS a, b, m, h1, h2, c1, c2, c3, k1, k2, s1, s2, t1, t2

Symmetry == Permutations({a, b})

Auth(provider, token, header) == [provider |-> provider, token |-> token, header |-> header]

MCAuthConfig ==
  {Auth("env", NoToken, "default"), Auth("static", t1, "default"),
   Auth("static", NoToken, "format"), Auth("custom", t1, "name"),
   Auth("oauth2-client-credentials", NoToken, "default")}

Rule(name, metric, operator, threshold) ==
  [name |-> name, metric |-> metric, operator |-> operator, threshold |-> threshold]

Slow == Rule("slow", "p95", ">", 150)
Failing == Rule("failing", "error_rate", ">=", 1)

Answered(time, success) == [time |-> time, success |-> success]

MCRequest == {Answered(1, TRUE), Answered(3, FALSE)}
MCRuleTables == {<<Slow>>}
MCMoreRules == {Failing}
MCGivenPoints == {[count |-> 1, p95 |-> 300, failures |-> 0]}

Pattern(pattern, n) ==
  [pattern |-> pattern, users |-> n, spikeUsers |-> 6, spikeDuration |-> 2,
   runtime |-> 5, rampUp |-> 5, hold |-> 2, rampDown |-> 3]

MCShape ==
  {[kind |-> "step", stepDuration |-> 1, stepUsers |-> 1, maxUsers |-> 7],
   Resolve(Pattern("constant", 3)), Resolve(Pattern("ramp-up", 5)),
   Resolve(Pattern("spike", 2)), Resolve(Pattern("spike", 8))}

Measured(p95, perUser, failing) == [p95 |-> p95, perUser |-> perUser, failing |-> failing]

MCSample ==
  {Measured(6, 0, "none"), Measured(3, 1, "none"), Measured(10, 0, "one"),
   Measured(8, 0, "all")}
=============================================================================
